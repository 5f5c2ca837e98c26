--------------------------- MODULE MCDeclarations ---------------------------
EXTENDS Declarations

\* one resource and one subscription; the cursor of publications moves anyway
Few == [kind \in ToSet(Kinds) |-> IF kind = "PUBLICATION" THEN 0 ELSE 1]

\* the second peer has no room
SmallSecond == <<2, 0>>
=============================================================================
