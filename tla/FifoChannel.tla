---------------------------- MODULE FifoChannel ----------------------------
(***************************************************************************)
(* What a reliable channel promises: the messages handed to it are         *)
(* delivered at the other end exactly once, in the order in which they     *)
(* were written, and every message is delivered eventually.                *)
(*                                                                         *)
(* Messages are numbered in the order in which they are written, starting  *)
(* at Start; the number stands for the contents.                           *)
(***************************************************************************)
EXTENDS Naturals, Sequences

CONSTANT Start

VARIABLES written,     \* number the next message written will have
          delivered    \* the messages delivered, in order of delivery

fvars == <<written, delivered>>

FInit == /\ written = Start
         /\ delivered = <<>>

FWrite == /\ written' = written + 1
          /\ UNCHANGED delivered

FDeliver == /\ Start + Len(delivered) < written
            /\ delivered' = Append(delivered, Start + Len(delivered))
            /\ UNCHANGED written

FNext == FWrite \/ FDeliver

\* the safety part, and the whole promise
FSafe == FInit /\ [][FNext]_fvars
FSpec == FSafe /\ WF_fvars(FDeliver)
=============================================================================
