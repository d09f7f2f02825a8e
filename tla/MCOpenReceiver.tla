--------------------------- MODULE MCOpenReceiver ---------------------------
EXTENDS OpenReceiver
=============================================================================
