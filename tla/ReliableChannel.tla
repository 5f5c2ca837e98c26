-------------------------- MODULE ReliableChannel --------------------------
(***************************************************************************)
(* The reliable channel of one conduit of an established session: the      *)
(* sender's out_conduit and output buffer, the receiver's in_conduit, and  *)
(* between them a link for data and SYNCH messages and one for ACKNACKs.   *)
(*                                                                         *)
(* A link loses messages, holds a bounded number of them, and delivers     *)
(* in order unless its name is in Reordering.  Packets are dissolved into  *)
(* their messages: the loss of a packet is the loss of its messages, and   *)
(* the receiver handles the messages of a packet in order.                 *)
(*                                                                         *)
(* Every message has a field n that no handler reads: for data it is the   *)
(* payload (the number of the message in the order of writing), for SYNCH  *)
(* and ACKNACK it is the unwrapped value of the sequence number it         *)
(* carries.  The properties are stated with it.                            *)
(*                                                                         *)
(* Clock values are kept as ages: tsynch, last_rexmit and tack are only    *)
(* ever compared with the present time, against fixed bounds.              *)
(***************************************************************************)
EXTENDS SeqNum, Sequences, SequencesExt

CONSTANTS
    XMITW_SAMPLES,     \* most messages the transmit window holds
    XMITW_BYTES,       \* most bytes the transmit window holds
    TRANSPORT_MTU,     \* most bytes a packet holds
    MaskBits,          \* messages one ACKNACK can ask for (32 in the code)
    Sizes,             \* sizes of the data messages the application writes
    Packing,           \* LATENCY_BUDGET # 0: messages wait in the output buffer
    ClientMode,        \* MAX_PEERS = 0: the receiver need not wait for a SYNCH
    SeqStart,          \* number of the first message of the period modelled
    MaxWrites,         \* bound: messages written in a behaviour
    LinkCap,           \* bound: messages a link holds
    Reordering         \* links that do not preserve order: "data", "ack"

ASSUME ChannelAssumption ==
    /\ XMITW_SAMPLES \in 1 .. (HalfSpace - 1)
    /\ XMITW_BYTES \in Nat /\ TRANSPORT_MTU \in Nat
    /\ MaskBits \in Nat \ {0}
    /\ Sizes \subseteq Nat /\ \A sz \in Sizes : sz <= TRANSPORT_MTU
    /\ Packing \in BOOLEAN /\ ClientMode \in BOOLEAN
    /\ SeqStart \in Nat /\ MaxWrites \in Nat
    /\ LinkCap \in Nat \ {0}
    /\ Reordering \subseteq {"data", "ack"}

VARIABLES
    seq,               \* out_conduit.seq: next sequence number to send
    seqbase,           \* out_conduit.seqbase: first one not acknowledged
    win,               \* out_conduit.rbuf: the unacknowledged messages
    draining_window,   \* out_conduit.draining_window
    sched_synch,       \* out_conduit.sched_synch
    tsynch_age,        \* 0 young, 1 > MSYNCH_INTERVAL - 2*RTT, 2 >= MSYNCH_INTERVAL
    rexmit_recent,     \* tnow - last_rexmit <= ROUNDTRIP_TIME_ESTIMATE
    last_rexmit_seq,   \* out_conduit.last_rexmit_seq
    outbuf,            \* data messages waiting in the output buffer
    outc,              \* outc # NULL: outspos marks the last of them
    icseq,             \* in_conduit.seq: next sequence number to deliver
    lseqpU,            \* in_conduit.lseqpU: highest one known to exist, plus 1
    synched,           \* in_conduit.synched
    tack_recent,       \* tnow - tack <= ROUNDTRIP_TIME_ESTIMATE
    data,              \* the link from sender to receiver
    acks,              \* the link from receiver to sender
    nwritten,          \* history: number of the next message written
    delivered          \* history: payloads handed to the application

ocvars  == <<seq, seqbase, win, draining_window, last_rexmit_seq, rexmit_recent>>
outvars == <<outbuf, outc, sched_synch, tsynch_age>>
icvars  == <<icseq, lseqpU, synched, tack_recent>>
vars    == <<ocvars, outvars, icvars, data, acks, nwritten, delivered>>

-----------------------------------------------------------------------------
(* Messages, links and the sizes of things. *)

DataMsg(s, n, len, sflag) == [kind |-> "data", seq |-> s, n |-> n, len |-> len,
                              cnt |-> 0, sflag |-> sflag]
SynchMsg(s, n, cnt, sflag) == [kind |-> "synch", seq |-> s, n |-> n, len |-> 0,
                               cnt |-> cnt, sflag |-> sflag]

Lesser(a, b) == IF a <= b THEN a ELSE b

\* zhe_platform_send: when the link is full, the oldest messages in it are lost
Transmit(link, msgs) ==
    LET q == link \o msgs
    IN  SubSeq(q, 1 + IF Len(q) <= LinkCap THEN 0 ELSE Len(q) - LinkCap, Len(q))

\* positions of the messages that may arrive next
Arrivals(name, link) ==
    {i \in 1 .. Len(link) : i = 1 \/ name \in Reordering}

\* what messages take, each with overhead bytes of its own
Bytes(msgs, overhead) ==
    LET taken[k \in 0 .. Len(msgs)] ==
            IF k = 0 THEN 0 ELSE taken[k - 1] + overhead + msgs[k].len
    IN  taken[Len(msgs)]

\* sizeof(zhe_msgsize_t), stored in front of every message in the window
SizePrefix == 2

zhe_xmitw_bytesavail(w) == XMITW_BYTES - Bytes(w, SizePrefix) - SizePrefix

PayloadFits(sz) == zhe_xmitw_bytesavail(win) >= sz       \* mutant: nothing else counts

zhe_xmitw_hasspace(sz) ==
    /\ Len(win) # XMITW_SAMPLES
    /\ zhe_xmitw_bytesavail(win) >= SizePrefix + sz

-----------------------------------------------------------------------------
Init ==
    /\ seq = SeqStart % SeqSpace
    /\ seqbase = SeqStart % SeqSpace
    /\ win = <<>>
    /\ draining_window = FALSE
    \* oc_setup1 and reset_peer leave these as they were in an earlier session
    /\ last_rexmit_seq \in Seqnums /\ rexmit_recent \in BOOLEAN
    /\ tsynch_age \in 0 .. 2 /\ sched_synch \in BOOLEAN /\ tack_recent \in BOOLEAN
    /\ outbuf = <<>> /\ outc = FALSE
    /\ icseq = IF ClientMode THEN SeqStart % SeqSpace ELSE 0
    /\ lseqpU = icseq
    /\ synched = ClientMode
    /\ data = <<>> /\ acks = <<>>
    /\ nwritten = SeqStart
    /\ delivered = <<>>

-----------------------------------------------------------------------------
(* The output buffer: zhe_pack_msend sends it as a packet.  When it ends   *)
(* in a tracked reliable message (outc), that one asks for an ACK if the   *)
(* packet took the window past three quarters of its size (w is the window *)
(* with the packet in it) or a SYNCH is nearly due.                        *)

WantsAck(out, w, age) ==
    LET cnt == zhe_xmitw_bytesavail(w)
        outspos == Bytes(SubSeq(out, 1, Len(out) - 1), 0)
    IN  \/ cnt < XMITW_BYTES \div 4 /\ cnt + outspos >= XMITW_BYTES \div 4
        \/ age >= 1

Packet(out, tracked, w, age) ==
    IF tracked /\ out # <<>> /\ WantsAck(out, w, age)
    THEN [out EXCEPT ![Len(out)].sflag = TRUE]
    ELSE out

\* the effect of zhe_pack_msend on sched_synch and tsynch
TsynchAfter(out, tracked, w, sched, age) ==
    IF tracked /\ out # <<>> /\ (sched \/ WantsAck(out, w, age)) THEN 0 ELSE age
SchedAfter(out, tracked, sched) == sched /\ ~(tracked /\ out # <<>>)

\* Send the buffered messages, then msgs, in packets of their own
SendAfterBuffered(msgs, age) ==
    /\ data' = Transmit(data, Packet(outbuf, outc, win, age) \o msgs)
    /\ outbuf' = <<>> /\ outc' = FALSE
    /\ tsynch_age' = TsynchAfter(outbuf, outc, win, sched_synch, age)
    /\ sched_synch' = SchedAfter(outbuf, outc, sched_synch)

-----------------------------------------------------------------------------
(* The application and the sender's housekeeping. *)

\* zhe_write, with the message accepted into the window
Write(sz) ==
    /\ nwritten < SeqStart + MaxWrites
    \* no ACKNACK lives long enough to see all sequence numbers reused
    /\ \A i \in 1 .. Len(acks) : nwritten + 1 - acks[i].n < SeqSpace
    /\ ~draining_window
    /\ zhe_xmitw_hasspace(sz)
    /\ LET m == DataMsg(seq, nwritten, sz, FALSE)
           \* zhe_pack_reserve: no room left in the packet
           split == outbuf # <<>> /\ TRANSPORT_MTU - Bytes(outbuf, 0) < sz
           first == IF split THEN Packet(outbuf, outc, win, tsynch_age) ELSE <<>>
           age1 == IF split
                   THEN TsynchAfter(outbuf, outc, win, sched_synch, tsynch_age)
                   ELSE tsynch_age
           sched1 == \/ IF split THEN SchedAfter(outbuf, outc, sched_synch)
                                 ELSE sched_synch
                     \/ seq = seqbase
           out1 == Append(IF split THEN <<>> ELSE outbuf, m)
       IN  /\ win' = Append(win, m)
           /\ IF Packing
              THEN /\ data' = Transmit(data, first)
                   /\ outbuf' = out1 /\ outc' = TRUE
                   /\ tsynch_age' = age1 /\ sched_synch' = sched1
              ELSE /\ data' = Transmit(data, first \o Packet(out1, TRUE, win', age1))
                   /\ outbuf' = <<>> /\ outc' = FALSE
                   /\ tsynch_age' = TsynchAfter(out1, TRUE, win', sched1, age1)
                   /\ sched_synch' = FALSE
    /\ seq' = seq_add(seq, 1)
    /\ nwritten' = nwritten + 1
    /\ UNCHANGED <<seqbase, draining_window, last_rexmit_seq, rexmit_recent,
                   icvars, acks, delivered>>

\* zhe_write, refused: zhe_oc_hit_full_window
HitFullWindow(sz) ==
    /\ ~draining_window
    /\ ~zhe_xmitw_hasspace(sz)
    /\ draining_window' = TRUE
    /\ IF outbuf # <<>>
       THEN SendAfterBuffered(<<SynchMsg(seq, nwritten, Len(win), TRUE)>>, tsynch_age)
       ELSE UNCHANGED <<outvars, data>>
    /\ UNCHANGED <<seq, seqbase, win, last_rexmit_seq, rexmit_recent,
                   icvars, acks, nwritten, delivered>>

\* mutant: a SYNCH only travels with buffered data
SynchDueWithData == seq # seqbase /\ tsynch_age = 2 /\ outbuf # <<>>

SynchDue == seq # seqbase /\ tsynch_age = 2

\* zhe_housekeeping: maybe_send_msync_oc, and else the latency budget; zhe_flush
Housekeeping ==
    /\ \/ /\ SynchDue
          /\ SendAfterBuffered(<<SynchMsg(seq, nwritten, Len(win), TRUE)>>, 0)
       \/ /\ ~SynchDue
          /\ outbuf # <<>>
          /\ SendAfterBuffered(<<>>, tsynch_age)
    /\ UNCHANGED <<ocvars, icvars, acks, nwritten, delivered>>

-----------------------------------------------------------------------------
(* The receiver. *)

\* mutant: acknowledges everything known to exist
AckLatestKnown(s, l, wantsack, d) ==
    IF wantsack
    THEN /\ acks' = Transmit(acks, <<[seq |-> l, nack |-> 0, n |-> SeqStart + Len(d)]>>)
         /\ tack_recent' = TRUE
    ELSE UNCHANGED <<acks, tack_recent>>

\* acknack_if_needed, for the in_conduit values s and l; d is what has been
\* delivered by then
acknack_if_needed(s, l, wantsack, d) ==
    LET nack == Lesser(seq_sub(l, s), MaskBits)
    IN  IF wantsack \/ (nack # 0 /\ ~tack_recent)
        THEN /\ acks' = Transmit(acks, <<[seq |-> s, nack |-> nack,
                                          n |-> SeqStart + Len(d)]>>)
             /\ tack_recent' = TRUE
        ELSE UNCHANGED <<acks, tack_recent>>

DeliverAhead(s) == zhe_seq_le(icseq, s)           \* mutant: gaps are skipped

ic_may_deliver_seq(s) == icseq = s

KnowWithoutUnit(s) == IF zhe_seq_lt(lseqpU, s) THEN s ELSE lseqpU     \* mutant

\* lseqpU once message s is known to exist
LatestKnown(s) ==
    LET next == seq_add(s, 1)
    IN  IF zhe_seq_le(icseq, next) /\ zhe_seq_lt(lseqpU, next) THEN next ELSE lseqpU

\* handle_msdata, reliable: accept is the answer of the application's handler
HandleData(m, accept) ==
    IF ~synched
    THEN UNCHANGED <<icvars, acks, delivered>>
    ELSE /\ lseqpU' = LatestKnown(m.seq)
         /\ IF ic_may_deliver_seq(m.seq) /\ accept
            THEN icseq' = seq_add(m.seq, 1) /\ delivered' = Append(delivered, m.n)
            ELSE UNCHANGED <<icseq, delivered>>
         /\ acknack_if_needed(icseq', lseqpU', m.sflag, delivered')
         /\ UNCHANGED synched

ResynchsAlways(base, s) == TRUE                   \* mutant

\* whether a SYNCH for the messages from base to s takes effect
Resynchs(base, s) == ~synched \/ zhe_seq_le(icseq, base) \/ zhe_seq_lt(s, icseq)

\* handle_msynch
HandleSynch(m) ==
    LET base == seq_sub(m.seq, m.cnt)
    IN  /\ IF Resynchs(base, m.seq)
           THEN icseq' = base /\ lseqpU' = m.seq
           ELSE UNCHANGED <<icseq, lseqpU>>
        /\ synched' = TRUE
        /\ acknack_if_needed(icseq', lseqpU', m.sflag, delivered)
        /\ UNCHANGED delivered

RecvData(i, accept) ==
    /\ data[i].kind = "data"
    /\ HandleData(data[i], accept)
    /\ data' = RemoveAt(data, i)
    /\ UNCHANGED <<ocvars, outvars, nwritten>>

RecvSynch(i) ==
    /\ data[i].kind = "synch"
    /\ HandleSynch(data[i])
    /\ data' = RemoveAt(data, i)
    /\ UNCHANGED <<ocvars, outvars, nwritten>>

-----------------------------------------------------------------------------
(* The sender receiving an ACKNACK. *)

Unavailable(s) == zhe_seq_lt(s, seqbase) \/ zhe_seq_lt(seq, s)

\* an ACKNACK outside the window is answered with a SYNCH and otherwise ignored
AnswerWithSynch(m) ==
    /\ Unavailable(m.seq)
    /\ SendAfterBuffered(<<SynchMsg(seq, nwritten, Len(win), FALSE)>>, tsynch_age)
    /\ UNCHANGED ocvars

DrainsForEver(s) == draining_window               \* mutant

StillDraining(s) == draining_window /\ seq # s

\* everything before s leaves the window
remove_acked_messages(s) ==
    /\ win' = SubSeq(win, seq_sub(s, seqbase) + 1, Len(win))
    /\ seqbase' = s
    /\ draining_window' = StillDraining(s)
    /\ UNCHANGED seq

Suppressed(m) == rexmit_recent /\ zhe_seq_lt(m.seq, last_rexmit_seq)

\* a pure ACK, or a NACK so soon after a retransmission that it is ignored
AcceptAck(m) ==
    /\ ~Unavailable(m.seq)
    /\ m.nack = 0 \/ Suppressed(m)
    /\ remove_acked_messages(m.seq)
    /\ UNCHANGED <<outvars, data, last_rexmit_seq, rexmit_recent>>

\* the messages asked for, of those in the window w; the last wants an ACK
Retransmission(w, nack) ==
    LET k == Lesser(nack, Len(w))
    IN  [j \in 1 .. k |-> [w[j] EXCEPT !.sflag = (j = k)]]

Retransmit(m) ==
    /\ ~Unavailable(m.seq)
    /\ m.nack # 0 /\ ~Suppressed(m)
    /\ remove_acked_messages(m.seq)
    /\ LET rex == Retransmission(win', m.nack)
       IN  /\ IF rex # <<>>
              THEN data' = Transmit(data, outbuf \o rex) /\ outbuf' = <<>>
              ELSE UNCHANGED <<data, outbuf>>
           /\ last_rexmit_seq' = seq_add(m.seq, Len(rex))
    /\ outc' = FALSE
    /\ rexmit_recent' = TRUE
    /\ UNCHANGED <<sched_synch, tsynch_age>>

\* handle_macknack
RecvAcknack(i) ==
    /\ AnswerWithSynch(acks[i]) \/ AcceptAck(acks[i]) \/ Retransmit(acks[i])
    /\ acks' = RemoveAt(acks, i)
    /\ UNCHANGED <<icvars, nwritten, delivered>>

-----------------------------------------------------------------------------
(* The links and the clocks. *)

LoseData ==
    /\ data # <<>>
    /\ data' = Tail(data)
    /\ UNCHANGED <<ocvars, outvars, icvars, acks, nwritten, delivered>>

LoseAck ==
    /\ acks # <<>>
    /\ acks' = Tail(acks)
    /\ UNCHANGED <<ocvars, outvars, icvars, data, nwritten, delivered>>

TsynchAges ==
    /\ tsynch_age < 2
    /\ tsynch_age' = tsynch_age + 1
    /\ UNCHANGED <<ocvars, outbuf, outc, sched_synch, icvars, data, acks,
                   nwritten, delivered>>

RexmitAges ==
    /\ rexmit_recent
    /\ rexmit_recent' = FALSE
    /\ UNCHANGED <<seq, seqbase, win, draining_window, last_rexmit_seq, outvars,
                   icvars, data, acks, nwritten, delivered>>

TackAges ==
    /\ tack_recent
    /\ tack_recent' = FALSE
    /\ UNCHANGED <<ocvars, outvars, icseq, lseqpU, synched, data, acks,
                   nwritten, delivered>>

Next ==
    \/ \E sz \in Sizes : Write(sz) \/ HitFullWindow(sz)
    \/ Housekeeping
    \/ \E i \in Arrivals("data", data) :
          \/ \E accept \in BOOLEAN : RecvData(i, accept)
          \/ RecvSynch(i)
    \/ \E i \in Arrivals("ack", acks) : RecvAcknack(i)
    \/ LoseData \/ LoseAck
    \/ TsynchAges \/ RexmitAges \/ TackAges

Spec == Init /\ [][Next]_vars

-----------------------------------------------------------------------------
(* Fairness.  The application's main loop calls zhe_housekeeping and       *)
(* zhe_input over and over and its clock advances; a link that is used     *)
(* over and over does not lose everything (strong fairness of the          *)
(* receptions), and the application's handler does not refuse a message    *)
(* for ever.                                                               *)

DeliverNext ==
    \E i \in Arrivals("data", data) :
        RecvData(i, TRUE) /\ delivered' # delivered

Fairness ==
    /\ WF_vars(Housekeeping)
    /\ WF_vars(TsynchAges) /\ WF_vars(RexmitAges) /\ WF_vars(TackAges)
    /\ WF_vars(\E i \in Arrivals("data", data), accept \in BOOLEAN : RecvData(i, accept))
    /\ SF_vars(DeliverNext)
    /\ SF_vars(\E i \in Arrivals("data", data) : RecvSynch(i))
    /\ SF_vars(\E i \in Arrivals("ack", acks) : RecvAcknack(i))

FairSpec == Spec /\ Fairness

-----------------------------------------------------------------------------
(* Properties. *)

\* unwrapped values: first unacknowledged message, next message to deliver
Base == nwritten - Len(win)
Expected == SeqStart + Len(delivered)

Msg == [kind : {"data", "synch"}, seq : Seqnums, n : Nat, len : Nat,
        cnt : 0 .. XMITW_SAMPLES, sflag : BOOLEAN]
AckMsg == [seq : Seqnums, nack : Nat, n : Nat]

\* Every variable has its type and the window and the links keep within
\* their limits.
TypeOK ==
    /\ seq \in Seqnums /\ seqbase \in Seqnums
    /\ win \in Seq(Msg) /\ Len(win) <= XMITW_SAMPLES
    /\ draining_window \in BOOLEAN /\ sched_synch \in BOOLEAN
    /\ tsynch_age \in 0 .. 2 /\ rexmit_recent \in BOOLEAN
    /\ last_rexmit_seq \in Seqnums
    /\ outbuf \in Seq(Msg) /\ outc \in BOOLEAN
    /\ icseq \in Seqnums /\ lseqpU \in Seqnums
    /\ synched \in BOOLEAN /\ tack_recent \in BOOLEAN
    /\ data \in Seq(Msg) /\ Len(data) <= LinkCap
    /\ acks \in Seq(AckMsg) /\ Len(acks) <= LinkCap
    /\ nwritten \in Nat /\ delivered \in Seq(Nat)

\* The application at the receiving end gets the messages written in the
\* order of writing, none twice and none skipped (handle_msdata delivers on
\* equality of wrapped sequence numbers only).
InOrder == \A i \in 1 .. Len(delivered) : delivered[i] = SeqStart + i - 1

\* A message leaves the transmit window only after the receiver delivered it
\* (remove_acked_messages acts on ACKNACKs that may be old), and the window
\* holds exactly the messages from Base on, so that any of them can be
\* retransmitted.
UnackedKept ==
    /\ Base <= Expected /\ Expected <= nwritten
    /\ \A i \in 1 .. Len(win) : win[i].n = Base + i - 1

\* The assertions of ic_update_seq and acknack_if_needed: the receiver never
\* expects more than it knows to exist; and what it takes to exist, and will
\* ask to have retransmitted, has really been written.
NackedExists ==
    synched => \E l \in Expected .. nwritten : lseqpU = l % SeqSpace

\* "draining_window: waiting for ACKs": new writes are only refused while some
\* message is unacknowledged, so that an ACK can end the refusal.
DrainingAwaitsAcks == draining_window => win # <<>>

\* A SYNCH never moves a receiver that is synchronised: the sequence number it
\* expects changes only by a delivery, and then by one.
OnlyDeliveryAdvances ==
    [][synched => \/ icseq' = icseq /\ delivered' = delivered
                  \/ icseq' = seq_add(icseq, 1) /\ Len(delivered') = Len(delivered) + 1]_vars

\* The channel implements the abstract FIFO channel.
Fifo == INSTANCE FifoChannel WITH Start <- SeqStart, written <- nwritten
FifoSafe == Fifo!FSafe
FifoLive == Fifo!FSpec

\* When the transmit window has filled up, writing becomes possible again.
DrainingEnds == draining_window ~> ~draining_window
=============================================================================
