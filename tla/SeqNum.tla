------------------------------- MODULE SeqNum -------------------------------
(***************************************************************************)
(* Sequence number arithmetic of zhe (seq_t, sseq_t).                      *)
(*                                                                         *)
(* A seq_t keeps SEQNUM_LEN significant bits in its most significant bits  *)
(* (SEQNUM_SHIFT) and advances in steps of SEQNUM_UNIT, so that the        *)
(* wrap-around of the machine type is the wrap-around of the protocol's    *)
(* numbers and the sign of a difference tells which of two numbers comes   *)
(* first.  Divided by SEQNUM_UNIT this is arithmetic modulo                *)
(* 2^SEQNUM_LEN, with "negative" meaning "in the upper half".              *)
(***************************************************************************)
EXTENDS Integers

CONSTANT HalfSpace     \* 2^(SEQNUM_LEN-1), half of the sequence numbers

ASSUME HalfSpaceAssumption == HalfSpace \in Nat \ {0}

SeqSpace == 2 * HalfSpace

Seqnums == 0 .. (SeqSpace - 1)

\* a + b and a - b on seq_t
seq_add(a, b) == (a + b) % SeqSpace
seq_sub(a, b) == (a - b) % SeqSpace

\* (sseq_t)(a - b) < 0, respectively <= 0
zhe_seq_lt(a, b) == seq_sub(a, b) >= HalfSpace
zhe_seq_le(a, b) == seq_sub(a, b) = 0 \/ zhe_seq_lt(a, b)
=============================================================================
