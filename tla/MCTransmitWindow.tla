-------------------------- MODULE MCTransmitWindow --------------------------
(* The transmit window with a buffer of fourteen bytes.                    *)
EXTENDS TransmitWindow
=============================================================================
