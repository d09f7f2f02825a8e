---------------------------- MODULE MCLinkedStack ---------------------------
EXTENDS LinkedStack
=============================================================================
