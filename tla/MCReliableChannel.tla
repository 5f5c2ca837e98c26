------------------------- MODULE MCReliableChannel -------------------------
(* The reliable channel with small windows, links and sequence numbers.    *)
EXTENDS ReliableChannel
=============================================================================
