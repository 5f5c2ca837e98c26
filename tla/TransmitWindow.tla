--------------------------- MODULE TransmitWindow ---------------------------
(***************************************************************************)
(* The transmit window of an out_conduit, byte by byte: rbuf holds the     *)
(* messages not yet acknowledged, each prefixed by its size and wrapping   *)
(* around at the end, and an optional index of where they start.           *)
(*                                                                         *)
(* A byte of a message is abstracted to a value that depends on which      *)
(* message it belongs to and on its offset, and the two bytes of a size    *)
(* are its digits in base ByteSpace.  draining_window and sched_synch are  *)
(* left to ReliableChannel: without them there is only more to do here.    *)
(***************************************************************************)
EXTENDS SeqNum, Sequences

CONSTANTS
    WB,                \* out_conduit.xmitw_bytes: bytes in rbuf
    xmitw_samples,     \* out_conduit.xmitw_samples: entries in rbufidx
    PosSpace,          \* 2^w, for the width w of xwpos_t
    ByteSpace,         \* values of a byte
    SampleIndex,       \* XMITW_SAMPLE_INDEX
    Sizes,             \* lengths of the messages
    Slack,             \* most bytes by which the size asked for exceeds a length
    MaxWrites          \* bound: messages stored in a behaviour

\* sizeof(zhe_msgsize_t)
SizePrefix == 2

ASSUME WindowAssumption ==
    /\ WB \in Nat /\ WB > SizePrefix
    /\ PosSpace \in Nat /\ WB < PosSpace - 1     \* how xwpos_t is chosen
    /\ ByteSpace \in Nat \ {0} /\ WB < ByteSpace * ByteSpace
    /\ xmitw_samples \in 1 .. (HalfSpace - 1)
    /\ SampleIndex \in BOOLEAN
    /\ Sizes \subseteq Nat \ {0} /\ Slack \in Nat /\ MaxWrites \in Nat

VARIABLES
    rbuf,              \* the bytes
    pos,               \* next byte goes into rbuf[pos]
    spos,              \* where the size of the current message goes
    firstpos,          \* where the size of the oldest message in the window is
    rbufidx, firstidx, \* the index: a ring of starting positions
    seq, seqbase,      \* next sequence number, oldest one in the window
    nstored,           \* history: messages stored
    held               \* history: the messages stored and not acknowledged

vars == <<rbuf, pos, spos, firstpos, rbufidx, firstidx, seq, seqbase, nstored, held>>

-----------------------------------------------------------------------------
(* Positions, and what the buffer holds at a position. *)

\* (p += a) >= xmitw_bytes is computed in xwpos_t
xmitw_pos_add(p, a) ==
    LET q == (p + a) % PosSpace IN IF q >= WB THEN q - WB ELSE q

\* a memcpy of the bytes to position p of rbuf, in two parts if need be, and
\* the position it ends at
CopyTo(buf, p, bytes) ==
    LET room == WB - p
        n == Len(bytes)
    IN  [i \in 0 .. WB - 1 |->
            IF i >= p /\ i - p < n THEN bytes[i - p + 1]
            ELSE IF i < n - room THEN bytes[i + room + 1]
            ELSE buf[i]]

EndOfCopy(p, n) == IF n < WB - p THEN p + n ELSE n - (WB - p)

xmitw_store_msgsize(buf, p, sz) ==
    CopyTo(buf, p, <<sz % ByteSpace, sz \div ByteSpace>>)

xmitw_load_msgsize(p) ==
    rbuf[p] + ByteSpace * rbuf[IF p + 1 < WB THEN p + 1 ELSE 0]

SkipContents(p) == xmitw_pos_add(p, xmitw_load_msgsize(p))            \* mutant
xmitw_skip_sample(p) == xmitw_pos_add(p, SizePrefix + xmitw_load_msgsize(p))

\* the position n messages after p (xmitw_skip_to_seq with end = s + n)
xmitw_skip_to_seq(p, n) ==
    LET at[k \in 0 .. n] == IF k = 0 THEN p ELSE xmitw_skip_sample(at[k - 1])
    IN  at[n]

oc_get_nsamples == seq_sub(seq, seqbase)

FullIsEmpty ==                                                        \* mutant
    (firstpos + (IF firstpos <= pos THEN WB ELSE 0) - pos) % PosSpace

zhe_xmitw_bytesavail ==
    (firstpos + (IF firstpos < pos THEN WB ELSE 0) - pos) % PosSpace

ContentsFit(sz) ==                                                    \* mutant
    oc_get_nsamples # xmitw_samples /\ zhe_xmitw_bytesavail >= sz
BytesFit(sz) == zhe_xmitw_bytesavail >= SizePrefix + sz               \* mutant

zhe_xmitw_hasspace(sz) ==
    /\ oc_get_nsamples # xmitw_samples
    /\ zhe_xmitw_bytesavail >= SizePrefix + sz

-----------------------------------------------------------------------------
(* The index. *)

xmitw_addindices(first, off) ==
    IF off < xmitw_samples - first THEN first + off
                                   ELSE off - (xmitw_samples - first)

IndexOf(s) == xmitw_addindices(firstidx, seq_sub(s, seqbase))

xmitw_load_rbufidx(s) == rbufidx[IndexOf(s)]

\* where message s starts: looked up, or found by walking the window
PositionOf(s) ==
    IF SampleIndex THEN xmitw_load_rbufidx(s)
    ELSE xmitw_skip_to_seq(firstpos, seq_sub(s, seqbase))

-----------------------------------------------------------------------------
\* oc_setup1 on a conduit used before leaves whatever was in rbuf and rbufidx
Init ==
    /\ \E b \in {0, ByteSpace - 1} : rbuf = [i \in 0 .. WB - 1 |-> b]
    /\ rbufidx = [i \in 0 .. xmitw_samples - 1 |-> 0]
    /\ pos = SizePrefix /\ spos = 0 /\ firstpos = 0 /\ firstidx = 0
    /\ seq = 0 /\ seqbase = 0
    /\ nstored = 0 /\ held = <<>>

\* the bytes of the n-th message
Contents(n, len) == [i \in 1 .. len |-> (n + i) % ByteSpace]

\* zhe_oc_pack_msdata with its payload: copyrel, payload and payload_done
Store(len, slack) ==
    /\ nstored < MaxWrites
    /\ zhe_xmitw_hasspace(len + slack)
    /\ LET after == EndOfCopy(pos, len)
           sz == after - spos + (IF after < spos THEN WB ELSE 0) - SizePrefix
       IN  /\ rbuf' = xmitw_store_msgsize(CopyTo(rbuf, pos, Contents(nstored, len)),
                                          spos, sz)
           /\ rbufidx' = IF SampleIndex
                         THEN [rbufidx EXCEPT ![IndexOf(seq)] = spos] ELSE rbufidx
           /\ spos' = after
           /\ pos' = xmitw_pos_add(after, SizePrefix)
    /\ seq' = seq_add(seq, 1)
    /\ nstored' = nstored + 1
    /\ held' = Append(held, [n |-> nstored, len |-> len])
    /\ UNCHANGED <<firstpos, firstidx, seqbase>>

\* remove_acked_messages; its callers have checked that s is in the window
remove_acked_messages(s) ==
    /\ ~zhe_seq_lt(seq, s) /\ zhe_seq_lt(seqbase, s)
    /\ firstpos' = IF SampleIndex /\ s = seq THEN spos ELSE PositionOf(s)
    /\ firstidx' = IF SampleIndex
                   THEN xmitw_addindices(firstidx, seq_sub(s, seqbase)) ELSE firstidx
    /\ seqbase' = s
    /\ held' = SubSeq(held, seq_sub(s, seqbase) + 1, Len(held))
    /\ UNCHANGED <<rbuf, pos, spos, rbufidx, seq, nstored>>

\* oc_setup1: reset_peer on the peer the conduit leads to
Reset ==
    /\ seq' = 0 /\ seqbase' = 0
    /\ pos' = SizePrefix /\ spos' = 0 /\ firstpos' = 0
    /\ firstidx' = IF SampleIndex THEN 0 ELSE firstidx
    /\ held' = <<>>
    /\ UNCHANGED <<rbuf, rbufidx, nstored>>

Next ==
    \/ \E len \in Sizes, slack \in 0 .. Slack : Store(len, slack)
    \/ \E s \in Seqnums : remove_acked_messages(s)
    \/ Reset

Spec == Init /\ [][Next]_vars

-----------------------------------------------------------------------------
(* Properties. *)

\* Positions are in the buffer and numbers in their range.
TypeOK ==
    /\ rbuf \in [0 .. WB - 1 -> 0 .. ByteSpace - 1]
    /\ {pos, spos, firstpos} \subseteq 0 .. WB - 1
    /\ rbufidx \in [0 .. xmitw_samples - 1 -> 0 .. WB - 1]
    /\ firstidx \in 0 .. xmitw_samples - 1
    /\ seq \in Seqnums /\ seqbase \in Seqnums
    /\ nstored \in 0 .. MaxWrites
    /\ Len(held) <= xmitw_samples

\* The assertions of check_xmitw and remove_acked_messages: walking the window
\* message by message from firstpos, by the sizes stored in it, meets the
\* positions in the index and ends at spos; pos is next to spos, and the two
\* ends of the window meet exactly when it is empty.
check_xmitw ==
    /\ pos = xmitw_pos_add(spos, SizePrefix)
    /\ SampleIndex =>
          \A k \in 0 .. oc_get_nsamples - 1 :
              xmitw_skip_to_seq(firstpos, k) = xmitw_load_rbufidx(seq_add(seqbase, k))
    /\ xmitw_skip_to_seq(firstpos, oc_get_nsamples) = spos
    /\ ((firstpos + SizePrefix) % WB = pos) <=> (seq = seqbase)

\* What zhe_xmitw_bytesavail computes from two positions is what the messages
\* in the window and their sizes leave of it: the space is neither lost nor
\* counted twice as the window wraps around.
SpaceExact ==
    LET taken[k \in 0 .. Len(held)] ==
            IF k = 0 THEN 0 ELSE taken[k - 1] + SizePrefix + held[k].len
    IN  zhe_xmitw_bytesavail = WB - SizePrefix - taken[Len(held)]

\* Every message not yet acknowledged can be retransmitted as it was written:
\* its size and its bytes, read back the way handle_macknack does.
Retransmittable ==
    \A k \in 1 .. Len(held) :
        LET p == PositionOf(seq_add(seqbase, k - 1))
            m == held[k]
        IN  /\ xmitw_load_msgsize(p) = m.len
            /\ \A i \in 1 .. m.len :
                  rbuf[(p + SizePrefix + i - 1) % WB] = Contents(m.n, m.len)[i]
=============================================================================
