----------------------------- MODULE MCSession -----------------------------
(* Sessions of two nodes; spare addresses to move to.                      *)
EXTENDS Session, TLC

CONSTANTS n1, n2, a1, a2, a3, a4

TwoHomes == (n1 :> a1) @@ (n2 :> a2)
=============================================================================
