-------------------------- MODULE MulticastWindow --------------------------
(***************************************************************************)
(* The transmit window of a multicast conduit (out_mconduit): messages go  *)
(* to all peers at once and leave the window when every member acknowledged*)
(* them; the heap seqbase keeps what each member acknowledged.  Peers come *)
(* and go while messages are outstanding.                                  *)
(*                                                                         *)
(* Only the number of messages in the window matters here: their bytes are *)
(* in TransmitWindow, their transmission is in ReliableChannel.            *)
(***************************************************************************)
EXTENDS MinSeqHeap, FiniteSetsExt

CONSTANTS
    Peers,             \* the peers that may open a session
    Attached,          \* those that list the conduit's address as a locator
    XMITW_SAMPLES,     \* most messages in the window
    SeqStart,          \* number of the first message of the period modelled
    MaxWrites,         \* bound: messages written in a behaviour
    AckDelay           \* bound: messages by which an ACK may be outdated

ASSUME MulticastAssumption ==
    /\ Attached \subseteq Peers
    /\ XMITW_SAMPLES \in 1 .. (HalfSpace - 1)
    /\ SeqStart \in Nat /\ MaxWrites \in Nat
    /\ AckDelay \in 0 .. HalfSpace - 1

VARIABLES
    established,       \* peers with state PEERST_ESTABLISHED
    heap,              \* out_mconduit.seqbase
    seq,               \* out_mconduit.oc.seq
    seqbase,           \* out_mconduit.oc.seqbase
    draining_window,   \* out_mconduit.oc.draining_window
    nwritten,          \* history: number of the next message written
    confirmed          \* history: for each peer in session, the number of the
                       \* first message sent to it that it has not acknowledged

vars == <<established, heap, seq, seqbase, draining_window, nwritten, confirmed>>

oc_get_nsamples == seq_sub(seq, seqbase)

Init ==
    /\ established = {} /\ heap = EmptyHeap
    /\ seq = SeqStart % SeqSpace /\ seqbase = seq
    /\ draining_window = FALSE
    /\ nwritten = SeqStart /\ confirmed = <<>>

-----------------------------------------------------------------------------
\* accept_peer: the members bit was set from the locators in HELLO or OPEN
accept_peer(p) ==
    /\ p \notin established
    /\ established' = established \cup {p}
    /\ heap' = IF p \in Attached THEN HeapInsert(heap, p, seq) ELSE heap
    /\ confirmed' = [q \in established' |-> IF q = p THEN nwritten ELSE confirmed[q]]
    /\ UNCHANGED <<seq, seqbase, draining_window, nwritten>>

\* remove_acked_messages
remove_acked_messages(s) ==
    /\ seqbase' = IF zhe_seq_lt(seq, s) THEN seq
                  ELSE IF zhe_seq_lt(seqbase, s) THEN s ELSE seqbase
    /\ draining_window' = (draining_window /\ seq # seqbase')

LeavesNothing(h) == IF h.vs = <<>> THEN seqbase ELSE HeapMin(h)       \* mutant
LeaverStillCounts(h) == seqbase                                       \* mutant

\* up to where the members left in the heap h have acknowledged everything
AckedByRest(h) == IF h.vs = <<>> THEN seq ELSE HeapMin(h)

\* reset_peer: a CLOSE from p, or its lease has expired
reset_peer(p) ==
    /\ p \in established
    /\ established' = established \ {p}
    /\ confirmed' = Restrict(confirmed, established')
    /\ IF p \in Members(heap)
       THEN /\ heap' = HeapDelete(heap, p)
            /\ remove_acked_messages(AckedByRest(heap'))
       ELSE UNCHANGED <<heap, seqbase, draining_window>>
    /\ UNCHANGED <<seq, nwritten>>

-----------------------------------------------------------------------------
zhe_xmitw_hasspace == oc_get_nsamples # XMITW_SAMPLES

\* zhe_write for a publication with subscribers: some peer is in session
Write ==
    /\ nwritten < SeqStart + MaxWrites
    /\ established # {}
    /\ ~draining_window
    /\ zhe_xmitw_hasspace
    /\ seq' = seq_add(seq, 1)
    /\ nwritten' = nwritten + 1
    /\ UNCHANGED <<established, heap, seqbase, draining_window, confirmed>>

\* zhe_write, refused: zhe_oc_hit_full_window
HitFullWindow ==
    /\ established # {}
    /\ ~draining_window
    /\ ~zhe_xmitw_hasspace
    /\ draining_window' = TRUE
    /\ UNCHANGED <<established, heap, seq, seqbase, nwritten, confirmed>>

AckedByOne(p, s, h) == IF Raises(heap, p, s) THEN s ELSE seqbase      \* mutant

\* what zhe_minseqheap_raisekey returns, h being the heap with the key raised
AckedByAll(p, s, h) == IF Raises(heap, p, s) THEN HeapMin(h) ELSE seqbase

\* handle_macknack: p acknowledges the messages before the n-th; an ACK that
\* was delayed may fall before the window, and is then ignored
RecvAcknack(p, n) ==
    /\ p \in established
    /\ n \in SeqStart .. nwritten /\ nwritten - n <= AckDelay
    /\ LET s == n % SeqSpace
           heap1 == HeapRaiseKey(heap, p, s)
       IN  /\ ~zhe_seq_lt(s, seqbase) /\ ~zhe_seq_lt(seq, s)
           /\ heap' = heap1
           /\ remove_acked_messages(AckedByAll(p, s, heap1))
    /\ confirmed' = [confirmed EXCEPT ![p] = IF n > @ THEN n ELSE @]
    /\ UNCHANGED <<established, seq, nwritten>>

Next ==
    \/ \E p \in Peers : accept_peer(p) \/ reset_peer(p)
    \/ Write \/ HitFullWindow
    \/ \E p \in Peers, n \in SeqStart .. nwritten : RecvAcknack(p, n)

Spec == Init /\ [][Next]_vars

\* A member answers the SYNCHs until it has acknowledged everything written,
\* or else its lease expires.
AnswersOrLeaves(p) == reset_peer(p) \/ (RecvAcknack(p, nwritten) /\ confirmed' # confirmed)

FairSpec == Spec /\ \A p \in Peers : WF_vars(AnswersOrLeaves(p))

-----------------------------------------------------------------------------
(* Properties. *)

Base == nwritten - oc_get_nsamples
MembersInSession == established \cap Attached

\* The heap orders the members of the conduit that are in session and the
\* keys are sequence numbers.
TypeOK ==
    /\ established \subseteq Peers
    /\ Members(heap) = MembersInSession
    /\ heap.ks \in [Members(heap) -> Seqnums] /\ IsInjective(heap.vs)
    /\ seq \in Seqnums /\ seqbase \in Seqnums
    /\ oc_get_nsamples <= XMITW_SAMPLES
    /\ draining_window \in BOOLEAN

\* The assertions of the heap's check function, after every change of it.
HeapChecks == HeapOrdered(heap)

\* "tracks ACKs from peers for computing oc.seqbase as min of them all": the
\* window starts at the first message that some member has still to
\* acknowledge, so that it can be retransmitted to that member, and holds no
\* more than that; whoever joins or leaves, and however old an ACK is.
BaseIsMin ==
    MembersInSession # {} => Base = Min({confirmed[p] : p \in MembersInSession})

\* "draining window (waiting for ACKs)": while writes are refused there is a
\* member whose ACK, or whose leaving, will end that.
DrainingAwaitsMember ==
    draining_window => \E p \in MembersInSession : confirmed[p] < nwritten

\* A full window does not stay full: every member answers or leaves.
DrainingEnds == draining_window ~> ~draining_window
=============================================================================
