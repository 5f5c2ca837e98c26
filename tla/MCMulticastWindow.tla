------------------------- MODULE MCMulticastWindow -------------------------
(* The multicast window with a few peers; those attached to the conduit    *)
(* are interchangeable.                                                    *)
EXTENDS MulticastWindow, TLC

PeerSymmetry == Permutations(Attached)
=============================================================================
