------------------------------ MODULE MCPacket ------------------------------
EXTENDS Packet
=============================================================================
