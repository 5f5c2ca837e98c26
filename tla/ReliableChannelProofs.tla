----------------------- MODULE ReliableChannelProofs -----------------------
(***************************************************************************)
(* The reliable channel delivers in order, exactly once, for every size of *)
(* the sequence number space and of the transmit window allowed by the     *)
(* configuration, over links that lose data and lose, reorder and delay    *)
(* ACKNACKs.                                                               *)
(*                                                                         *)
(* The inductive invariant relates the wrapped sequence numbers to the     *)
(* unwrapped ones, and bounds how far a message in the data link can be    *)
(* behind what the receiver will have delivered when the message arrives.  *)
(***************************************************************************)
EXTENDS ReliableChannel, SeqNumProofs, SequenceTheorems

W == XMITW_SAMPLES

\* number of the first message not yet sent: the output buffer holds the rest
Unsent == nwritten - Len(outbuf)

\* what the receiver can have delivered by a message, and what it may have
\* delivered before the message arrives
Top(m)   == IF m.kind = "data" THEN m.n + 1 ELSE m.n
Reach(m) == IF m.kind = "data" THEN m.n + W ELSE m.n

\* a message in the data link when e is expected and u is the first unsent
Good(m, e, u) ==
    /\ m.seq = m.n % SeqSpace
    /\ m.kind = "data" => SeqStart <= m.n
    /\ m.kind = "synch" => SeqStart <= m.n - m.cnt /\ m.n - m.cnt <= e
    /\ e <= Reach(m) /\ Top(m) <= u

LinkOK(q, e, u) ==
    /\ \A i \in 1 .. Len(q) : Good(q[i], e, u)
    /\ \A i, j \in 1 .. Len(q) : j < i => Top(q[j]) <= Reach(q[i])

\* data messages numbered from a on
Run(q, a) ==
    \A i \in 1 .. Len(q) : /\ q[i].kind = "data"
                           /\ q[i].n = a + i - 1
                           /\ q[i].seq = q[i].n % SeqSpace

SenderInv ==
    /\ seq = nwritten % SeqSpace
    /\ seqbase = Base % SeqSpace
    /\ SeqStart <= Base
    /\ Run(win, Base)
    /\ Run(outbuf, Unsent)

ReceiverInv ==
    /\ Base <= Expected /\ Expected <= Unsent
    /\ synched => icseq = Expected % SeqSpace
    /\ synched => \E l \in Expected .. Unsent : lseqpU = l % SeqSpace
    /\ ~synched => delivered = <<>>
    /\ InOrder

\* an ACKNACK when e is expected and w will be written next
AckOK(m, e, w) == /\ m.seq = m.n % SeqSpace
                  /\ m.n <= e
                  /\ w - m.n < SeqSpace

AckInv == \A i \in 1 .. Len(acks) : AckOK(acks[i], Expected, nwritten)

IInv == /\ TypeOK
        /\ SenderInv
        /\ ReceiverInv
        /\ LinkOK(data, Expected, Unsent)
        /\ AckInv

-----------------------------------------------------------------------------
(* Lemmas about links. *)

LEMMA Constants ==
    /\ W \in Nat /\ W >= 1 /\ W < HalfSpace
    /\ HalfSpace \in Nat /\ SeqSpace \in Nat /\ SeqSpace = 2 * HalfSpace
    /\ SeqStart \in Nat /\ LinkCap \in Nat /\ LinkCap >= 1
    /\ MaskBits \in Nat
    /\ Sizes \subseteq Nat
BY HalfSpaceAssumption, ChannelAssumption DEF W, SeqSpace

LEMMA MsgFields ==
    ASSUME NEW m \in Msg
    PROVE  /\ m.kind \in {"data", "synch"} /\ m.n \in Nat /\ m.seq \in Seqnums
           /\ m.cnt \in 0 .. W /\ m.sflag \in BOOLEAN /\ m.len \in Nat
           /\ Top(m) \in Nat /\ Reach(m) \in Nat
BY Constants DEF Msg, Top, Reach, W

\* Losing messages at the front of a link leaves a link.
LEMMA LinkSuffix ==
    ASSUME NEW q \in Seq(Msg), NEW e \in Nat, NEW u \in Nat, LinkOK(q, e, u),
           NEW k \in 1 .. (Len(q) + 1)
    PROVE  /\ SubSeq(q, k, Len(q)) \in Seq(Msg)
           /\ Len(SubSeq(q, k, Len(q))) = Len(q) - k + 1
           /\ LinkOK(SubSeq(q, k, Len(q)), e, u)
<1> DEFINE r == SubSeq(q, k, Len(q))
<1>1. Len(q) \in Nat /\ k \in Int /\ \A i \in k .. Len(q) : q[i] \in Msg
  BY LenProperties, ElementOfSeq
<1>2. /\ r \in Seq(Msg)
      /\ Len(r) = Len(q) - k + 1
      /\ \A i \in 1 .. Len(q) - k + 1 : r[i] = q[k + i - 1]
  BY <1>1, SubSeqProperties
<1> HIDE DEF r
<1>3. \A i \in 1 .. Len(r) : r[i] = q[k + i - 1] /\ k + i - 1 \in 1 .. Len(q)
  BY <1>1, <1>2
<1>4. ASSUME NEW i \in 1 .. Len(r) PROVE Good(r[i], e, u)
  BY <1>3 DEF LinkOK
<1>5. ASSUME NEW i \in 1 .. Len(r), NEW j \in 1 .. Len(r), j < i
      PROVE  Top(r[j]) <= Reach(r[i])
  <2>1. k + j - 1 < k + i - 1
    BY <1>1, <1>2, <1>5
  <2> QED
    BY <1>3, <2>1 DEF LinkOK
<1>6. LinkOK(r, e, u)
  BY <1>4, <1>5 DEF LinkOK
<1> QED
  BY <1>2, <1>6 DEF r

\* Sending a run of data messages.
LEMMA LinkRun ==
    ASSUME NEW q \in Seq(Msg), NEW r \in Seq(Msg), NEW a \in Nat,
           NEW e \in Nat, NEW u0 \in Nat, NEW u \in Nat,
           LinkOK(q, e, u0), Run(r, a),
           SeqStart <= a, e <= a + W, u0 <= a + W, u0 <= u, a + Len(r) <= u
    PROVE  q \o r \in Seq(Msg) /\ LinkOK(q \o r, e, u)
<1> DEFINE s == q \o r
<1>1. /\ s \in Seq(Msg) /\ Len(s) = Len(q) + Len(r)
      /\ \A i \in 1 .. Len(q) + Len(r) : s[i] = IF i <= Len(q) THEN q[i] ELSE r[i - Len(q)]
  BY ConcatProperties
<1>2. Len(q) \in Nat /\ Len(r) \in Nat /\ Len(s) \in Nat
  BY LenProperties, <1>1
<1> HIDE DEF s
<1>3. /\ \A i \in 1 .. Len(s) : i <= Len(q) => i \in 1 .. Len(q) /\ s[i] = q[i]
      /\ \A i \in 1 .. Len(s) : i > Len(q) => i - Len(q) \in 1 .. Len(r) /\ s[i] = r[i - Len(q)]
  BY <1>1, <1>2
<1>4. \A i \in 1 .. Len(q) : Good(q[i], e, u) /\ Top(q[i]) <= u0
  <2> SUFFICES ASSUME NEW i \in 1 .. Len(q) PROVE Good(q[i], e, u) /\ Top(q[i]) <= u0
    OBVIOUS
  <2>1. q[i] \in Msg /\ Good(q[i], e, u0)
    BY ElementOfSeq DEF LinkOK
  <2> QED
    BY <2>1, MsgFields DEF Good
<1>5. \A i \in 1 .. Len(r) : /\ Good(r[i], e, u)
                             /\ Reach(r[i]) = a + i - 1 + W /\ Top(r[i]) = a + i
  <2> SUFFICES ASSUME NEW i \in 1 .. Len(r)
               PROVE  /\ Good(r[i], e, u)
                      /\ Reach(r[i]) = a + i - 1 + W /\ Top(r[i]) = a + i
    OBVIOUS
  <2>1. r[i] \in Msg /\ r[i].kind = "data" /\ r[i].n = a + i - 1 /\ r[i].seq = r[i].n % SeqSpace
    BY ElementOfSeq DEF Run
  <2>2. Reach(r[i]) = a + i - 1 + W /\ Top(r[i]) = a + i
    BY <2>1, <1>2, Constants DEF Reach, Top
  <2> QED
    BY <2>1, <2>2, <1>2, Constants DEF Good
<1>6. ASSUME NEW i \in 1 .. Len(s) PROVE Good(s[i], e, u)
  <2>1. CASE i <= Len(q)
    BY <2>1, <1>3, <1>4
  <2>2. CASE i > Len(q)
    BY <2>2, <1>3, <1>5
  <2> QED
    BY <2>1, <2>2, <1>2
<1>7. ASSUME NEW i \in 1 .. Len(s), NEW j \in 1 .. Len(s), j < i
      PROVE  Top(s[j]) <= Reach(s[i])
  <2>1. CASE i <= Len(q)
    <3>1. i \in 1 .. Len(q) /\ s[i] = q[i]
      BY <2>1, <1>3
    <3>2. j \in 1 .. Len(q) /\ s[j] = q[j]
      BY <2>1, <1>2, <1>3, <1>7
    <3> QED
      BY <3>1, <3>2, <1>7 DEF LinkOK
  <2>2. CASE i > Len(q) /\ j <= Len(q)
    <3>1. Top(s[j]) <= u0 /\ Top(s[j]) \in Nat
      BY <2>2, <1>3, <1>4, ElementOfSeq, MsgFields
    <3>2. Reach(s[i]) = a + (i - Len(q)) - 1 + W
      BY <2>2, <1>3, <1>5
    <3> QED
      BY <3>1, <3>2, <2>2, <1>2, Constants
  <2>3. CASE i > Len(q) /\ j > Len(q)
    <3>1. Reach(s[i]) = a + (i - Len(q)) - 1 + W
      BY <2>3, <1>3, <1>5
    <3>2. Top(s[j]) = a + (j - Len(q))
      BY <2>3, <1>3, <1>5
    <3> QED
      BY <3>1, <3>2, <1>2, <1>7, Constants
  <2> QED
    BY <2>1, <2>2, <2>3, <1>2
<1> QED
  BY <1>1, <1>6, <1>7 DEF LinkOK, s

\* Sending a SYNCH.
LEMMA LinkSynch ==
    ASSUME NEW q \in Seq(Msg), NEW e \in Nat, NEW u \in Nat, LinkOK(q, e, u),
           NEW m \in Msg, m.kind = "synch", m.n = u, m.seq = u % SeqSpace,
           SeqStart <= u - m.cnt, u - m.cnt <= e, e <= u
    PROVE  q \o <<m>> \in Seq(Msg) /\ LinkOK(q \o <<m>>, e, u)
<1> DEFINE s == Append(q, m)
<1>1. /\ s \in Seq(Msg) /\ Len(s) = Len(q) + 1
      /\ \A i \in 1 .. Len(q) : s[i] = q[i]
      /\ s[Len(q) + 1] = m
  BY AppendProperties
<1>2. s = q \o <<m>>
  BY AppendIsConcat
<1>3. Len(q) \in Nat
  BY LenProperties
<1> HIDE DEF s
<1>4. \A i \in 1 .. Len(s) : i \in 1 .. Len(q) \/ i = Len(q) + 1
  BY <1>1, <1>3
<1>5. Good(m, e, u) /\ Reach(m) = u
  BY MsgFields DEF Good, Reach, Top
<1>6. \A i \in 1 .. Len(q) : Good(q[i], e, u) /\ Top(q[i]) <= u
  BY DEF LinkOK, Good
<1>7. \A i \in 1 .. Len(s) : Good(s[i], e, u)
  BY <1>1, <1>4, <1>5, <1>6
<1>8. ASSUME NEW i \in 1 .. Len(s), NEW j \in 1 .. Len(s), j < i
      PROVE  Top(s[j]) <= Reach(s[i])
  <2>1. j \in 1 .. Len(q) /\ s[j] = q[j]
    BY <1>1, <1>3, <1>8
  <2>2. CASE i \in 1 .. Len(q)
    BY <2>1, <2>2, <1>1, <1>8 DEF LinkOK
  <2>3. CASE i = Len(q) + 1
    BY <2>1, <2>3, <1>1, <1>5, <1>6
  <2> QED
    BY <1>4, <2>2, <2>3
<1> QED
  BY <1>1, <1>2, <1>7, <1>8 DEF LinkOK

\* Transmitting keeps a link within its capacity.
LEMMA LinkTransmit ==
    ASSUME NEW q \in Seq(Msg), NEW r \in Seq(Msg), NEW e \in Nat, NEW u \in Nat,
           LinkOK(q \o r, e, u)
    PROVE  /\ Transmit(q, r) \in Seq(Msg)
           /\ Len(Transmit(q, r)) <= LinkCap
           /\ LinkOK(Transmit(q, r), e, u)
<1> DEFINE s == q \o r
           k == 1 + IF Len(s) <= LinkCap THEN 0 ELSE Len(s) - LinkCap
<1>1. s \in Seq(Msg) /\ Len(s) \in Nat
  BY ConcatProperties, LenProperties
<1>2. Transmit(q, r) = SubSeq(s, k, Len(s))
  BY DEF Transmit
<1> HIDE DEF s
<1>3. k \in 1 .. (Len(s) + 1) /\ Len(s) - k + 1 <= LinkCap
  BY <1>1, Constants
<1>4. LinkOK(s, e, u)
  BY DEF s
<1> QED
  BY <1>1, <1>2, <1>3, <1>4, LinkSuffix

\* Transmitting on the ACKNACK link: every message in it was there or is new.
LEMMA AckTransmit ==
    ASSUME NEW q \in Seq(AckMsg), NEW m \in AckMsg
    PROVE  /\ Transmit(q, <<m>>) \in Seq(AckMsg)
           /\ Len(Transmit(q, <<m>>)) <= LinkCap
           /\ \A i \in 1 .. Len(Transmit(q, <<m>>)) :
                 \/ Transmit(q, <<m>>)[i] = m
                 \/ \E j \in 1 .. Len(q) : Transmit(q, <<m>>)[i] = q[j]
<1> DEFINE s == Append(q, m)
           k == 1 + IF Len(s) <= LinkCap THEN 0 ELSE Len(s) - LinkCap
           t == SubSeq(s, k, Len(s))
<1>1. /\ s \in Seq(AckMsg) /\ Len(s) = Len(q) + 1
      /\ \A i \in 1 .. Len(q) : s[i] = q[i]
      /\ s[Len(q) + 1] = m
  BY AppendProperties
<1>2. Len(q) \in Nat
  BY LenProperties
<1>3. Transmit(q, <<m>>) = t
  BY AppendIsConcat DEF Transmit
<1> HIDE DEF s
<1>4. k \in Int /\ Len(s) \in Int /\ k >= 1 /\ k <= Len(s) /\ Len(s) - k + 1 <= LinkCap
  BY <1>1, <1>2, Constants
<1>5. \A i \in k .. Len(s) : s[i] \in AckMsg
  BY <1>1, <1>4, ElementOfSeq
<1> HIDE DEF k
<1>6. /\ t \in Seq(AckMsg) /\ Len(t) = Len(s) - k + 1
      /\ \A i \in 1 .. Len(s) - k + 1 : t[i] = s[k + i - 1]
  BY <1>4, <1>5, SubSeqProperties
<1> HIDE DEF t
<1>7. ASSUME NEW i \in 1 .. Len(t)
      PROVE  t[i] = m \/ \E j \in 1 .. Len(q) : t[i] = q[j]
  <2>1. t[i] = s[k + i - 1] /\ k + i - 1 \in 1 .. Len(q) + 1
    BY <1>1, <1>2, <1>4, <1>6
  <2> QED
    BY <2>1, <1>1, <1>2
<1> QED
  BY <1>3, <1>4, <1>6, <1>7

\* Taking a message out of the ACKNACK link.
LEMMA AckRemove ==
    ASSUME NEW q \in Seq(AckMsg), NEW i \in 1 .. Len(q)
    PROVE  /\ RemoveAt(q, i) \in Seq(AckMsg)
           /\ Len(RemoveAt(q, i)) = Len(q) - 1
           /\ \A j \in 1 .. Len(RemoveAt(q, i)) :
                 \E k \in 1 .. Len(q) : RemoveAt(q, i)[j] = q[k]
<1> DEFINE s == SubSeq(q, 1, i - 1)
           t == SubSeq(q, i + 1, Len(q))
<1>1. Len(q) \in Nat /\ \A j \in 1 .. Len(q) : q[j] \in AckMsg
  BY LenProperties, ElementOfSeq
<1>2. /\ s \in Seq(AckMsg) /\ Len(s) = i - 1
      /\ \A j \in 1 .. i - 1 : s[j] = q[j]
  <2>1. 1 \in Int /\ i - 1 \in Int /\ \A j \in 1 .. i - 1 : q[j] \in AckMsg
    BY <1>1
  <2>2. /\ s \in Seq(AckMsg) /\ Len(s) = IF 1 <= i - 1 THEN i - 1 - 1 + 1 ELSE 0
        /\ \A j \in 1 .. i - 1 - 1 + 1 : s[j] = q[1 + j - 1]
    BY <2>1, SubSeqProperties
  <2> HIDE DEF s
  <2> QED
    BY <2>2, <1>1
<1>3. /\ t \in Seq(AckMsg) /\ Len(t) = Len(q) - i
      /\ \A j \in 1 .. Len(q) - i : t[j] = q[i + j]
  <2>1. i + 1 \in Int /\ Len(q) \in Int /\ \A j \in i + 1 .. Len(q) : q[j] \in AckMsg
    BY <1>1
  <2>2. /\ t \in Seq(AckMsg) /\ Len(t) = IF i + 1 <= Len(q) THEN Len(q) - (i + 1) + 1 ELSE 0
        /\ \A j \in 1 .. Len(q) - (i + 1) + 1 : t[j] = q[i + 1 + j - 1]
    BY <2>1, SubSeqProperties
  <2> HIDE DEF t
  <2> QED
    BY <2>2, <1>1
<1> HIDE DEF s, t
<1>4. /\ s \o t \in Seq(AckMsg) /\ Len(s \o t) = Len(s) + Len(t)
      /\ \A j \in 1 .. Len(s) + Len(t) : (s \o t)[j] = IF j <= Len(s) THEN s[j] ELSE t[j - Len(s)]
  BY <1>2, <1>3, ConcatProperties
<1>5. RemoveAt(q, i) = s \o t
  BY DEF RemoveAt, s, t
<1>6. ASSUME NEW j \in 1 .. Len(s \o t)
      PROVE  \E k \in 1 .. Len(q) : (s \o t)[j] = q[k]
  <2>1. CASE j <= Len(s)
    BY <2>1, <1>1, <1>2, <1>3, <1>4
  <2>2. CASE j > Len(s)
    <3>1. (s \o t)[j] = q[i + (j - Len(s))] /\ i + (j - Len(s)) \in 1 .. Len(q)
      BY <2>2, <1>1, <1>2, <1>3, <1>4
    <3> QED
      BY <3>1
  <2> QED
    BY <2>1, <2>2, <1>1, <1>2
<1>7. Len(s \o t) = Len(q) - 1
  BY <1>1, <1>2, <1>3, <1>4
<1> QED
  BY <1>4, <1>5, <1>6, <1>7

\* Taking the first message out of the data link.
LEMMA RemoveHead ==
    ASSUME NEW q \in Seq(Msg), Len(q) >= 1
    PROVE  RemoveAt(q, 1) = SubSeq(q, 2, Len(q))
<1>1. Len(q) \in Nat /\ \A j \in 2 .. Len(q) : q[j] \in Msg
  BY LenProperties, ElementOfSeq
<1>2. SubSeq(q, 1, 0) = << >>
  BY SubSeqEmpty
<1>3. SubSeq(q, 2, Len(q)) \in Seq(Msg)
  BY <1>1, SubSeqProperties
<1>4. RemoveAt(q, 1) = SubSeq(q, 1, 1 - 1) \o SubSeq(q, 1 + 1, Len(q))
  BY DEF RemoveAt
<1>5. RemoveAt(q, 1) = << >> \o SubSeq(q, 2, Len(q))
  BY <1>2, <1>4
<1> QED
  BY <1>3, <1>5, ConcatEmptySeq

\* What is sent later does not matter to what is in the link.
LEMMA LinkMono ==
    ASSUME NEW q \in Seq(Msg), NEW e \in Nat, NEW u0 \in Nat, NEW u \in Nat,
           LinkOK(q, e, u0), u0 <= u
    PROVE  LinkOK(q, e, u)
<1>1. ASSUME NEW i \in 1 .. Len(q) PROVE Good(q[i], e, u)
  <2>1. q[i] \in Msg /\ Good(q[i], e, u0)
    BY ElementOfSeq DEF LinkOK
  <2> QED
    BY <2>1, MsgFields DEF Good
<1> QED
  BY <1>1 DEF LinkOK

LEMMA NextLarger == \A x \in Int, y \in Nat : x <= y => x <= y + 1
OBVIOUS

\* Delivering the first message of a link.
LEMMA LinkDeliver ==
    ASSUME NEW q \in Seq(Msg), NEW e \in Nat, NEW u \in Nat, LinkOK(q, e, u),
           Len(q) >= 1, q[1].kind = "data", q[1].n = e
    PROVE  /\ SubSeq(q, 2, Len(q)) \in Seq(Msg)
           /\ Len(SubSeq(q, 2, Len(q))) = Len(q) - 1
           /\ LinkOK(SubSeq(q, 2, Len(q)), e + 1, u)
           /\ e + 1 <= u
<1> DEFINE r == SubSeq(q, 2, Len(q))
<1>1. Len(q) \in Nat /\ q[1] \in Msg /\ 1 \in 1 .. Len(q) /\ 2 \in 1 .. (Len(q) + 1)
  BY LenProperties, ElementOfSeq
<1>2. r \in Seq(Msg) /\ Len(r) = Len(q) - 1 /\ LinkOK(r, e, u)
  <2>1. r \in Seq(Msg) /\ Len(r) = Len(q) - 2 + 1 /\ LinkOK(r, e, u)
    BY <1>1, LinkSuffix
  <2> HIDE DEF r
  <2> QED
    BY <2>1, <1>1
<1>3. \A i \in 2 .. Len(q) : q[i] \in Msg
  BY <1>1, ElementOfSeq
<1>4. \A i \in 1 .. Len(q) - 1 : r[i] = q[i + 1]
  <2>1. \A i \in 1 .. Len(q) - 2 + 1 : r[i] = q[2 + i - 1]
    BY <1>1, <1>3, SubSeqProperties
  <2> HIDE DEF r
  <2> QED
    BY <2>1, <1>1
<1> HIDE DEF r
<1>5. Top(q[1]) = e + 1 /\ Top(q[1]) <= u
  BY <1>1 DEF Top, LinkOK, Good
<1>6. ASSUME NEW i \in 1 .. Len(r) PROVE Good(r[i], e + 1, u)
  <2>1. r[i] = q[i + 1] /\ i + 1 \in 1 .. Len(q) /\ 1 < i + 1
    BY <1>1, <1>2, <1>4
  <2>2. e + 1 <= Reach(r[i])
    BY <2>1, <1>1, <1>5 DEF LinkOK
  <2>3. r[i] \in Msg /\ Good(r[i], e, u)
    BY <1>2, ElementOfSeq DEF LinkOK
  <2>4. r[i].n \in Nat /\ r[i].cnt \in Int
    BY <2>3, MsgFields, Constants
  <2>5. r[i].kind = "synch" => r[i].n - r[i].cnt <= e
    BY <2>3 DEF Good
  <2>6. r[i].n - r[i].cnt \in Int
    BY <2>4
  <2>7. r[i].kind = "synch" => r[i].n - r[i].cnt <= e + 1
    BY <2>5, <2>6, NextLarger
  <2> QED
    BY <2>2, <2>3, <2>7 DEF Good
<1> QED
  BY <1>2, <1>5, <1>6 DEF LinkOK, r

-----------------------------------------------------------------------------
(* Lemmas about runs of data messages. *)

LEMMA EmptyRun ==
    ASSUME NEW a \in Nat
    PROVE  << >> \in Seq(Msg) /\ Len(<< >>) = 0 /\ Run(<< >>, a)
BY DEF Run

\* Runs that follow each other make a run.
LEMMA RunConcat ==
    ASSUME NEW p \in Seq(Msg), NEW r \in Seq(Msg), NEW a \in Nat,
           Run(p, a), Run(r, a + Len(p))
    PROVE  p \o r \in Seq(Msg) /\ Len(p \o r) = Len(p) + Len(r) /\ Run(p \o r, a)
<1> DEFINE s == p \o r
<1>1. /\ s \in Seq(Msg) /\ Len(s) = Len(p) + Len(r)
      /\ \A i \in 1 .. Len(p) + Len(r) : s[i] = IF i <= Len(p) THEN p[i] ELSE r[i - Len(p)]
  BY ConcatProperties
<1>2. Len(p) \in Nat /\ Len(r) \in Nat
  BY LenProperties
<1> HIDE DEF s
<1>3. ASSUME NEW i \in 1 .. Len(s)
      PROVE  s[i].kind = "data" /\ s[i].n = a + i - 1 /\ s[i].seq = s[i].n % SeqSpace
  <2>1. CASE i <= Len(p)
    <3>1. s[i] = p[i] /\ i \in 1 .. Len(p)
      BY <2>1, <1>1, <1>2
    <3> QED
      BY <3>1 DEF Run
  <2>2. CASE i > Len(p)
    <3>1. s[i] = r[i - Len(p)] /\ i - Len(p) \in 1 .. Len(r)
      BY <2>2, <1>1, <1>2
    <3>2. /\ s[i].kind = "data" /\ s[i].n = a + Len(p) + (i - Len(p)) - 1
          /\ s[i].seq = s[i].n % SeqSpace
      BY <3>1 DEF Run
    <3>3. a + Len(p) + (i - Len(p)) - 1 = a + i - 1
      BY <1>2
    <3> QED
      BY <3>2, <3>3
  <2> QED
    BY <2>1, <2>2, <1>2
<1>4. Run(s, a)
  BY <1>3 DEF Run
<1> QED
  BY <1>1, <1>4 DEF s

\* One more message extends a run.
LEMMA RunAppend ==
    ASSUME NEW p \in Seq(Msg), NEW m \in Msg, NEW a \in Nat, Run(p, a),
           m.kind = "data", m.n = a + Len(p), m.seq = m.n % SeqSpace
    PROVE  /\ Append(p, m) \in Seq(Msg) /\ Len(Append(p, m)) = Len(p) + 1
           /\ Run(Append(p, m), a)
<1> DEFINE s == Append(p, m)
<1>1. /\ s \in Seq(Msg) /\ Len(s) = Len(p) + 1
      /\ \A i \in 1 .. Len(p) : s[i] = p[i]
      /\ s[Len(p) + 1] = m
  BY AppendProperties
<1>2. Len(p) \in Nat
  BY LenProperties
<1> HIDE DEF s
<1>3. ASSUME NEW i \in 1 .. Len(s)
      PROVE  s[i].kind = "data" /\ s[i].n = a + i - 1 /\ s[i].seq = s[i].n % SeqSpace
  <2>1. CASE i \in 1 .. Len(p)
    <3>1. s[i] = p[i]
      BY <2>1, <1>1
    <3> QED
      BY <2>1, <3>1 DEF Run
  <2>2. CASE i = Len(p) + 1
    <3>1. s[i] = m /\ a + Len(p) = a + i - 1
      BY <2>2, <1>1, <1>2
    <3> QED
      BY <3>1
  <2> QED
    BY <2>1, <2>2, <1>1, <1>2
<1>4. Run(s, a)
  BY <1>3 DEF Run
<1> QED
  BY <1>1, <1>4 DEF s

\* The end of a run is a run.
LEMMA RunSuffix ==
    ASSUME NEW p \in Seq(Msg), NEW a \in Nat, Run(p, a), NEW k \in 0 .. Len(p)
    PROVE  /\ SubSeq(p, k + 1, Len(p)) \in Seq(Msg)
           /\ Len(SubSeq(p, k + 1, Len(p))) = Len(p) - k
           /\ Run(SubSeq(p, k + 1, Len(p)), a + k)
<1> DEFINE s == SubSeq(p, k + 1, Len(p))
<1>1. Len(p) \in Nat /\ \A i \in k + 1 .. Len(p) : p[i] \in Msg
  BY LenProperties, ElementOfSeq
<1>2. /\ s \in Seq(Msg) /\ Len(s) = IF k + 1 <= Len(p) THEN Len(p) - (k + 1) + 1 ELSE 0
      /\ \A i \in 1 .. Len(p) - (k + 1) + 1 : s[i] = p[k + 1 + i - 1]
  BY <1>1, SubSeqProperties
<1> HIDE DEF s
<1>3. Len(s) = Len(p) - k
  BY <1>1, <1>2
<1>4. ASSUME NEW i \in 1 .. Len(s)
      PROVE  s[i].kind = "data" /\ s[i].n = a + k + i - 1 /\ s[i].seq = s[i].n % SeqSpace
  <2>1. s[i] = p[k + i] /\ k + i \in 1 .. Len(p)
    BY <1>1, <1>2, <1>3
  <2>2. /\ s[i].kind = "data" /\ s[i].n = a + (k + i) - 1
        /\ s[i].seq = s[i].n % SeqSpace
    BY <2>1 DEF Run
  <2>3. a + (k + i) - 1 = a + k + i - 1
    BY <1>1, <1>3
  <2> QED
    BY <2>2, <2>3
<1>5. Run(s, a + k)
  BY <1>4 DEF Run
<1> QED
  BY <1>2, <1>3, <1>5 DEF s

\* Messages that differ from those of a run only in their S flags are a run.
LEMMA RunFlags ==
    ASSUME NEW p \in Seq(Msg), NEW a \in Nat, Run(p, a),
           NEW r \in Seq(Msg), Len(r) <= Len(p),
           \A i \in 1 .. Len(r) : /\ r[i].kind = p[i].kind
                                  /\ r[i].n = p[i].n
                                  /\ r[i].seq = p[i].seq
    PROVE  Run(r, a)
<1>1. Len(p) \in Nat /\ Len(r) \in Nat
  BY LenProperties
<1>2. ASSUME NEW i \in 1 .. Len(r)
      PROVE  r[i].kind = "data" /\ r[i].n = a + i - 1 /\ r[i].seq = r[i].n % SeqSpace
  <2>1. i \in 1 .. Len(p)
    BY <1>1
  <2> QED
    BY <2>1 DEF Run
<1> QED
  BY <1>2 DEF Run

\* Sending the output buffer changes at most an S flag.
LEMMA PacketRun ==
    ASSUME NEW out \in Seq(Msg), NEW a \in Nat, Run(out, a),
           NEW tracked, NEW w, NEW age
    PROVE  /\ Packet(out, tracked, w, age) \in Seq(Msg)
           /\ Len(Packet(out, tracked, w, age)) = Len(out)
           /\ Run(Packet(out, tracked, w, age), a)
<1> DEFINE r == [out EXCEPT ![Len(out)].sflag = TRUE]
<1>1. ASSUME out # << >>
      PROVE  r \in Seq(Msg) /\ Len(r) = Len(out) /\ Run(r, a)
  <2>1. Len(out) \in Nat /\ Len(out) \in 1 .. Len(out) /\ DOMAIN out = 1 .. Len(out)
        /\ \A i \in 1 .. Len(out) : out[i] \in Msg
    BY <1>1, LenProperties, ElementOfSeq, EmptySeq
  <2>2. \A i \in 1 .. Len(out) : r[i] = IF i = Len(out) THEN [out[i] EXCEPT !.sflag = TRUE]
                                                       ELSE out[i]
    BY <2>1
  <2>3. \A i \in 1 .. Len(out) : /\ r[i] \in Msg
                                 /\ r[i].kind = out[i].kind
                                 /\ r[i].n = out[i].n
                                 /\ r[i].seq = out[i].seq
    BY <2>1, <2>2 DEF Msg
  <2>4. r \in [1 .. Len(out) -> Msg]
    BY <2>1, <2>3
  <2>5. r \in Seq(Msg) /\ Len(r) = Len(out)
    BY <2>1, <2>4, SeqDef, LenProperties
  <2> HIDE DEF r
  <2> QED
    BY <2>1, <2>3, <2>5, RunFlags
<1> HIDE DEF r
<1>2. Packet(out, tracked, w, age) = out \/ (out # << >> /\ Packet(out, tracked, w, age) = r)
  BY DEF Packet, r
<1> QED
  BY <1>1, <1>2

\* What is retransmitted is the beginning of the window.
LEMMA RetransmissionRun ==
    ASSUME NEW w \in Seq(Msg), NEW a \in Nat, Run(w, a), NEW nack \in Nat
    PROVE  /\ Retransmission(w, nack) \in Seq(Msg)
           /\ Len(Retransmission(w, nack)) <= Len(w)
           /\ Run(Retransmission(w, nack), a)
<1> DEFINE k == Lesser(nack, Len(w))
           r == [j \in 1 .. k |-> [w[j] EXCEPT !.sflag = (j = k)]]
<1>1. Len(w) \in Nat /\ \A i \in 1 .. Len(w) : w[i] \in Msg
  BY LenProperties, ElementOfSeq
<1>2. k \in Nat /\ k <= Len(w)
  BY <1>1 DEF Lesser
<1> HIDE DEF k
<1>3. \A i \in 1 .. k : /\ r[i] \in Msg
                        /\ r[i].kind = w[i].kind
                        /\ r[i].n = w[i].n
                        /\ r[i].seq = w[i].seq
  <2> SUFFICES ASSUME NEW i \in 1 .. k
               PROVE  /\ r[i] \in Msg /\ r[i].kind = w[i].kind
                      /\ r[i].n = w[i].n /\ r[i].seq = w[i].seq
    OBVIOUS
  <2>1. r[i] = [w[i] EXCEPT !.sflag = (i = k)] /\ w[i] \in Msg
    BY <1>1, <1>2
  <2>2. (i = k) \in BOOLEAN
    OBVIOUS
  <2> HIDE DEF r
  <2> QED
    BY <2>1, <2>2 DEF Msg
<1>4. r \in [1 .. k -> Msg]
  BY <1>3
<1>5. r \in Seq(Msg) /\ Len(r) = k
  BY <1>2, <1>4, SeqDef, LenProperties
<1>6. Retransmission(w, nack) = r
  BY DEF Retransmission, k
<1> HIDE DEF r
<1>7. Run(r, a)
  BY <1>2, <1>3, <1>5, RunFlags
<1> QED
  BY <1>2, <1>5, <1>6, <1>7

-----------------------------------------------------------------------------
(* The sender's steps. *)

\* What IInv says about the unwrapped numbers.
NumbersOK ==
    /\ Len(win) \in 0 .. W /\ Len(outbuf) \in Nat /\ Len(delivered) \in Nat
    /\ nwritten \in Nat /\ Base \in Nat /\ Unsent \in Nat /\ Expected \in Nat
    /\ SeqStart <= Base /\ Base <= Expected /\ Expected <= Unsent
    /\ Unsent <= nwritten /\ nwritten = Base + Len(win)
    /\ nwritten = Unsent + Len(outbuf) /\ nwritten <= Base + W

LEMMA Numbers == IInv => NumbersOK
<1> SUFFICES ASSUME IInv PROVE NumbersOK
  OBVIOUS
<1>1. /\ Len(win) \in Nat /\ Len(outbuf) \in Nat /\ Len(delivered) \in Nat
      /\ Len(win) <= W /\ nwritten \in Nat
  BY LenProperties DEF IInv, TypeOK, W
<1>2. SeqStart <= Base /\ Base <= Expected /\ Expected <= Unsent
  BY DEF IInv, SenderInv, ReceiverInv
<1> QED
  BY <1>1, <1>2, Constants DEF NumbersOK, Base, Expected, Unsent

\* The link after sending what was buffered.
LEMMA BufferLink ==
    ASSUME IInv, NEW p \in Seq(Msg), Len(p) = Len(outbuf), Run(p, Unsent)
    PROVE  data \o p \in Seq(Msg) /\ LinkOK(data \o p, Expected, nwritten)
<1>1. data \in Seq(Msg) /\ LinkOK(data, Expected, Unsent)
  BY DEF IInv, TypeOK
<1>2. NumbersOK
  BY Numbers
<1>3. /\ Unsent \in Nat /\ Expected \in Nat /\ nwritten \in Nat /\ SeqStart <= Unsent
      /\ Expected <= Unsent + W /\ Unsent <= Unsent + W /\ Unsent <= nwritten
      /\ Unsent + Len(p) <= nwritten
  BY <1>2, Constants DEF NumbersOK
<1> QED
  BY <1>1, <1>3, LinkRun

LEMMA BufferSent ==
    ASSUME IInv, NEW tracked, NEW w, NEW age
    PROVE  LET p == Packet(outbuf, tracked, w, age)
           IN  /\ p \in Seq(Msg) /\ Len(p) = Len(outbuf) /\ Run(p, Unsent)
               /\ data \o p \in Seq(Msg)
               /\ LinkOK(data \o p, Expected, nwritten)
<1> DEFINE p == Packet(outbuf, tracked, w, age)
<1>1. outbuf \in Seq(Msg) /\ Run(outbuf, Unsent) /\ Unsent \in Nat
  BY Numbers DEF IInv, TypeOK, SenderInv, NumbersOK
<1>2. p \in Seq(Msg) /\ Len(p) = Len(outbuf) /\ Run(p, Unsent)
  BY <1>1, PacketRun
<1> HIDE DEF p
<1>3. data \o p \in Seq(Msg) /\ LinkOK(data \o p, Expected, nwritten)
  BY <1>2, BufferLink
<1> QED
  BY <1>2, <1>3 DEF p

\* The SYNCH the sender sends.
LEMMA SynchSent ==
    ASSUME IInv, NEW q \in Seq(Msg), LinkOK(q, Expected, nwritten),
           NEW sflag \in BOOLEAN
    PROVE  LET m == SynchMsg(seq, nwritten, Len(win), sflag)
           IN  m \in Msg /\ LinkOK(q \o <<m>>, Expected, nwritten)
<1> DEFINE m == SynchMsg(seq, nwritten, Len(win), sflag)
<1>0. NumbersOK
  BY Numbers
<1>1. m \in Msg /\ m.kind = "synch" /\ m.n = nwritten /\ m.cnt = Len(win)
      /\ m.seq = nwritten % SeqSpace
  BY <1>0 DEF NumbersOK, SynchMsg, Msg, IInv, TypeOK, SenderInv, W
<1> HIDE DEF m
<1>2. /\ SeqStart <= nwritten - m.cnt /\ nwritten - m.cnt <= Expected
      /\ Expected <= nwritten /\ Expected \in Nat /\ nwritten \in Nat
  BY <1>0, <1>1, Constants DEF NumbersOK
<1>3. LinkOK(q \o <<m>>, Expected, nwritten)
  BY <1>1, <1>2, LinkSynch
<1> QED
  BY <1>1, <1>3 DEF m

LEMMA TsynchType ==
    ASSUME NEW out, NEW tracked, NEW w, NEW sched, NEW age \in 0 .. 2
    PROVE  TsynchAfter(out, tracked, w, sched, age) \in 0 .. 2
BY DEF TsynchAfter

LEMMA SchedType ==
    ASSUME NEW out, NEW tracked, NEW sched \in BOOLEAN
    PROVE  SchedAfter(out, tracked, sched) \in BOOLEAN
BY Zenon DEF SchedAfter

LEMMA BufferSentStep ==
    ASSUME IInv, NEW age \in 0 .. 2, NEW sflag \in BOOLEAN, NEW msgs,
           msgs \in {<< >>, <<SynchMsg(seq, nwritten, Len(win), sflag)>>},
           SendAfterBuffered(msgs, age)
    PROVE  /\ data' \in Seq(Msg) /\ Len(data') <= LinkCap
           /\ LinkOK(data', Expected, nwritten)
           /\ outbuf' = << >> /\ outc' = FALSE
           /\ tsynch_age' \in 0 .. 2 /\ sched_synch' \in BOOLEAN
<1> DEFINE p == Packet(outbuf, outc, win, age)
           m == SynchMsg(seq, nwritten, Len(win), sflag)
<1>1. p \in Seq(Msg) /\ data \in Seq(Msg) /\ data \o p \in Seq(Msg)
      /\ LinkOK(data \o p, Expected, nwritten)
  BY BufferSent DEF IInv, TypeOK
<1>2. m \in Msg /\ LinkOK((data \o p) \o <<m>>, Expected, nwritten)
  BY <1>1, SynchSent
<1>3. data' = Transmit(data, p \o msgs)
  BY DEF SendAfterBuffered
<1> HIDE DEF p, m
<1>4. p \o msgs \in Seq(Msg) /\ LinkOK(data \o (p \o msgs), Expected, nwritten)
  <2>1. CASE msgs = << >>
    <3>1. p \o msgs = p
      BY <2>1, <1>1, ConcatEmptySeq
    <3> QED
      BY <3>1, <1>1
  <2>2. CASE msgs = <<m>>
    <3>1. <<m>> \in Seq(Msg)
      BY <1>2
    <3>2. p \o <<m>> \in Seq(Msg)
      BY <3>1, <1>1, ConcatProperties
    <3>3. data \o (p \o <<m>>) = (data \o p) \o <<m>>
      BY <3>1, <1>1, ConcatAssociative
    <3> QED
      BY <2>2, <3>2, <3>3, <1>2
  <2> QED
    BY <2>1, <2>2 DEF m
<1>5. Expected \in Nat /\ nwritten \in Nat
  BY Numbers DEF NumbersOK
<1>6. data' \in Seq(Msg) /\ Len(data') <= LinkCap /\ LinkOK(data', Expected, nwritten)
  BY <1>1, <1>3, <1>4, <1>5, LinkTransmit
<1>7. tsynch_age' \in 0 .. 2
  BY TsynchType DEF SendAfterBuffered
<1>8. sched_synch' \in BOOLEAN
  BY SchedType DEF SendAfterBuffered, IInv, TypeOK
<1>9. outbuf' = << >> /\ outc' = FALSE
  BY DEF SendAfterBuffered
<1> QED
  BY <1>6, <1>7, <1>8, <1>9

\* A step of the sender that writes nothing preserves the invariant if the
\* window still starts no later than what is expected.
LEMMA SenderStep ==
    ASSUME IInv, TypeOK',
           UNCHANGED <<seq, icseq, lseqpU, synched, nwritten, delivered>>,
           Run(win', Base'), seqbase' = Base' % SeqSpace,
           SeqStart <= Base', Base' <= Expected,
           Run(outbuf', Unsent'), Unsent <= Unsent', LinkOK(data', Expected, Unsent'),
           \A i \in 1 .. Len(acks') : \E k \in 1 .. Len(acks) : acks'[i] = acks[k]
    PROVE  IInv'
<1>1. NumbersOK
  BY Numbers
<1>2. Expected' = Expected
  BY DEF Expected
<1>3. SenderInv'
  BY DEF SenderInv, IInv
<1>4. Unsent' \in Int
  <2>1. Len(outbuf') \in Nat /\ nwritten' \in Nat
    BY LenProperties DEF TypeOK
  <2> QED
    BY <2>1 DEF Unsent
<1>5. ReceiverInv'
  <2>1. Expected' <= Unsent'
    BY <1>1, <1>2, <1>4 DEF NumbersOK
  <2>2. synched => \E l \in Expected .. Unsent' : lseqpU = l % SeqSpace
    BY <1>1, <1>4 DEF IInv, ReceiverInv, NumbersOK
  <2> QED
    BY <1>2, <2>1, <2>2 DEF IInv, ReceiverInv, InOrder
<1>6. LinkOK(data, Expected, Unsent)'
  BY <1>2
<1>7. AckInv'
  BY <1>2 DEF IInv, AckInv, AckOK
<1> QED
  BY <1>3, <1>5, <1>6, <1>7 DEF IInv

\* Actions that send the output buffer and leave the window alone.
LEMMA SendBufferAction ==
    ASSUME IInv, NEW age \in 0 .. 2, NEW sflag \in BOOLEAN, NEW msgs,
           msgs \in {<< >>, <<SynchMsg(seq, nwritten, Len(win), sflag)>>},
           SendAfterBuffered(msgs, age), draining_window' \in BOOLEAN,
           UNCHANGED <<seq, seqbase, win, last_rexmit_seq, rexmit_recent,
                       icvars, nwritten, delivered>>,
           acks' \in Seq(AckMsg), Len(acks') <= LinkCap,
           \A i \in 1 .. Len(acks') : \E k \in 1 .. Len(acks) : acks'[i] = acks[k]
    PROVE  IInv'
<1>1. /\ data' \in Seq(Msg) /\ Len(data') <= LinkCap
      /\ LinkOK(data', Expected, nwritten)
      /\ outbuf' = << >> /\ outc' = FALSE
      /\ tsynch_age' \in 0 .. 2 /\ sched_synch' \in BOOLEAN
  BY BufferSentStep
<1>2. NumbersOK
  BY Numbers
<1>3. TypeOK'
  <2>1. outbuf' \in Seq(Msg)
    BY <1>1, EmptySeq
  <2>2. outc' \in BOOLEAN
    BY <1>1, Zenon
  <2> QED
    BY <1>1, <2>1, <2>2, Zenon DEF IInv, TypeOK, icvars
<1>4. Base' = Base
  BY DEF Base
<1>5. Unsent' = nwritten
  BY <1>1, <1>2 DEF Unsent, NumbersOK
<1>6. Run(win', Base') /\ seqbase' = Base' % SeqSpace
  BY <1>4 DEF IInv, SenderInv
<1>7. Run(outbuf', Unsent')
  BY <1>1 DEF Run
<1>8. SeqStart <= Base' /\ Base' <= Expected /\ Unsent <= Unsent'
  BY <1>2, <1>4, <1>5 DEF NumbersOK
<1> QED
  BY <1>1, <1>3, <1>5, <1>6, <1>7, <1>8, SenderStep DEF icvars

LEMMA HitFullWindowStep ==
    ASSUME IInv, NEW sz \in Sizes, HitFullWindow(sz)
    PROVE  IInv'
<1>1. UNCHANGED <<seq, seqbase, win, last_rexmit_seq, rexmit_recent,
                  icvars, acks, nwritten, delivered>> /\ draining_window' = TRUE
  BY DEF HitFullWindow
<1>2. acks' \in Seq(AckMsg) /\ Len(acks') <= LinkCap
      /\ \A i \in 1 .. Len(acks') : \E k \in 1 .. Len(acks) : acks'[i] = acks[k]
  BY <1>1 DEF IInv, TypeOK
<1>3. CASE outbuf # << >>
  <2>1. SendAfterBuffered(<<SynchMsg(seq, nwritten, Len(win), TRUE)>>, tsynch_age)
    BY <1>3 DEF HitFullWindow
  <2>2. tsynch_age \in 0 .. 2
    BY DEF IInv, TypeOK
  <2> QED
    BY <1>1, <1>2, <2>1, <2>2, SendBufferAction
<1>4. CASE outbuf = << >>
  <2>1. UNCHANGED <<outvars, data>>
    BY <1>4 DEF HitFullWindow
  <2>2. TypeOK'
    BY <1>1, <2>1 DEF IInv, TypeOK, icvars, outvars
  <2>3. Base' = Base /\ Unsent' = Unsent /\ Expected' = Expected
    BY <1>1, <2>1 DEF Base, Unsent, Expected, outvars
  <2>4. NumbersOK
    BY Numbers
  <2>5. Run(win', Base') /\ seqbase' = Base' % SeqSpace /\ Run(outbuf', Unsent')
        /\ LinkOK(data', Expected, Unsent')
    BY <1>1, <2>1, <2>3 DEF IInv, SenderInv, outvars
  <2>6. SeqStart <= Base' /\ Base' <= Expected /\ Unsent <= Unsent'
    BY <2>3, <2>4 DEF NumbersOK
  <2> QED
    BY <1>1, <1>2, <2>2, <2>5, <2>6, SenderStep DEF icvars
<1> QED
  BY <1>3, <1>4

LEMMA HousekeepingStep ==
    ASSUME IInv, Housekeeping
    PROVE  IInv'
<1>1. UNCHANGED <<ocvars, icvars, acks, nwritten, delivered>>
  BY DEF Housekeeping, SynchDue
<1>2. acks' \in Seq(AckMsg) /\ Len(acks') <= LinkCap /\ draining_window' \in BOOLEAN
      /\ \A i \in 1 .. Len(acks') : \E k \in 1 .. Len(acks) : acks'[i] = acks[k]
  BY <1>1 DEF IInv, TypeOK, ocvars
<1>3. 0 \in 0 .. 2 /\ tsynch_age \in 0 .. 2
  BY DEF IInv, TypeOK
<1>4. \/ SendAfterBuffered(<<SynchMsg(seq, nwritten, Len(win), TRUE)>>, 0)
      \/ SendAfterBuffered(<< >>, tsynch_age)
  BY DEF Housekeeping, SynchDue
<1>5. UNCHANGED <<seq, seqbase, win, last_rexmit_seq, rexmit_recent,
                  icvars, nwritten, delivered>>
  BY <1>1 DEF ocvars
<1>6. CASE SendAfterBuffered(<<SynchMsg(seq, nwritten, Len(win), TRUE)>>, 0)
  BY <1>2, <1>3, <1>5, <1>6, SendBufferAction
<1>7. CASE SendAfterBuffered(<< >>, tsynch_age)
  BY <1>2, <1>3, <1>5, <1>7, SendBufferAction
<1> QED
  BY <1>4, <1>6, <1>7

LEMMA SeqType ==
    ASSUME NEW a \in Int, NEW b \in Int
    PROVE  seq_add(a, b) \in Seqnums /\ seq_sub(a, b) \in Seqnums
BY DivMod DEF seq_add, seq_sub

LEMMA SeqnumsInt == Seqnums \subseteq Int
BY Constants DEF Seqnums

\* A number k not Unavailable to a sender with the window b .. n - 1 lies in it.
LEMMA WindowRange ==
    ASSUME NEW b \in Nat, NEW n \in Nat, NEW k \in Nat, b <= n, n <= b + W,
           k <= n, n - k < SeqSpace,
           ~zhe_seq_lt(k % SeqSpace, b % SeqSpace), ~zhe_seq_lt(n % SeqSpace, k % SeqSpace)
    PROVE  /\ b <= k /\ k - b \in 0 .. (n - b)
           /\ seq_sub(k % SeqSpace, b % SeqSpace) = k - b
<1>0. b \in Int /\ n \in Int /\ k \in Int /\ n - k \in Int /\ k - b \in Int
  OBVIOUS
<1>1. n - k < HalfSpace
  <2>1. n - k \in 0 .. (SeqSpace - 1)
    BY Constants
  <2>2. seq_sub(n % SeqSpace, k % SeqSpace) = (n - k) % SeqSpace
    BY <1>0, SubWrapped
  <2>3. (n - k) % SeqSpace = n - k
    BY <1>0, <2>1, SmallDifference
  <2>4. ~(n - k >= HalfSpace)
    BY <2>2, <2>3 DEF zhe_seq_lt
  <2> QED
    BY <1>0, <2>4, Constants
<1>2. k - b \in (-HalfSpace) .. (HalfSpace - 1)
  BY <1>1, Constants
<1>3. ~(k < b)
  BY <1>0, <1>2, SeqLtCorrect
<1>4. b <= k /\ k - b \in 0 .. (n - b) /\ k - b \in 0 .. (SeqSpace - 1)
  BY <1>1, <1>3, Constants
<1>5. seq_sub(k % SeqSpace, b % SeqSpace) = (k - b) % SeqSpace
  BY <1>0, SubWrapped
<1>6. (k - b) % SeqSpace = k - b
  BY <1>0, <1>4, SmallDifference
<1> QED
  BY <1>4, <1>5, <1>6

\* An ACKNACK that is not Unavailable acknowledges a part of the window.
LEMMA AckRange ==
    ASSUME IInv, NEW m \in AckMsg, AckOK(m, Expected, nwritten), ~Unavailable(m.seq)
    PROVE  /\ Base <= m.n /\ m.n <= Expected
           /\ seq_sub(m.seq, seqbase) = m.n - Base
           /\ m.n - Base \in 0 .. Len(win)
<1>1. NumbersOK
  BY Numbers
<1>2. m.n \in Nat /\ m.n <= Expected /\ nwritten - m.n < SeqSpace
  BY DEF AckOK, AckMsg
<1>3. /\ Base \in Nat /\ nwritten \in Nat /\ Base <= nwritten /\ nwritten <= Base + W
      /\ nwritten - Base = Len(win) /\ m.n <= nwritten
  <2>1. /\ Base \in Nat /\ nwritten \in Nat /\ Base <= nwritten /\ nwritten <= Base + W
        /\ nwritten - Base = Len(win) /\ Expected \in Nat /\ Expected <= nwritten
    BY <1>1, Constants DEF NumbersOK
  <2> QED
    BY <1>2, <2>1
<1>4. seq = nwritten % SeqSpace /\ seqbase = Base % SeqSpace /\ m.seq = m.n % SeqSpace
  BY DEF IInv, SenderInv, AckOK
<1>5. ~zhe_seq_lt(m.n % SeqSpace, Base % SeqSpace) /\ ~zhe_seq_lt(nwritten % SeqSpace, m.n % SeqSpace)
  BY <1>4 DEF Unavailable
<1>6. /\ Base <= m.n /\ m.n - Base \in 0 .. (nwritten - Base)
      /\ seq_sub(m.n % SeqSpace, Base % SeqSpace) = m.n - Base
  BY <1>2, <1>3, <1>5, WindowRange
<1> QED
  BY <1>2, <1>3, <1>4, <1>6

\* The window after acknowledged messages have been removed.
LEMMA RemoveAcked ==
    ASSUME IInv, NEW m \in AckMsg, AckOK(m, Expected, nwritten), ~Unavailable(m.seq),
           remove_acked_messages(m.seq), nwritten' = nwritten
    PROVE  /\ win' \in Seq(Msg) /\ Len(win') \in 0 .. W /\ Base' = m.n
           /\ Run(win', Base') /\ seqbase' = Base' % SeqSpace /\ seqbase' \in Seqnums
           /\ SeqStart <= Base' /\ Base' <= Expected
           /\ draining_window' \in BOOLEAN /\ seq' = seq
<1>1. NumbersOK
  BY Numbers
<1>2. PICK k \in 0 .. Len(win) : k = m.n - Base
  BY AckRange
<1>3. Base <= m.n /\ m.n <= Expected /\ seq_sub(m.seq, seqbase) = k /\ m.n \in Nat
  BY <1>2, AckRange DEF AckMsg
<1>4. win' = SubSeq(win, k + 1, Len(win))
  BY <1>3 DEF remove_acked_messages, StillDraining
<1>5. win \in Seq(Msg) /\ Run(win, Base) /\ Base \in Nat
  BY <1>1 DEF IInv, TypeOK, SenderInv, NumbersOK
<1>6. win' \in Seq(Msg) /\ Len(win') = Len(win) - k /\ Run(win', Base + k)
  BY <1>4, <1>5, RunSuffix
<1>7. Base + k = m.n
  BY <1>2, <1>3, <1>5
<1>8. Len(win) \in 0 .. W /\ nwritten = Base + Len(win)
  BY <1>1 DEF NumbersOK
<1>9. Len(win') \in 0 .. W /\ nwritten - Len(win') = Base + k
  BY <1>5, <1>6, <1>8, Constants
<1>10. Base' = m.n
  BY <1>7, <1>9 DEF Base
<1>11. seqbase' = m.n % SeqSpace /\ seqbase' \in Seqnums
  BY DEF remove_acked_messages, StillDraining, AckOK, AckMsg
<1>12. draining_window' \in BOOLEAN /\ seq' = seq
  BY Zenon DEF remove_acked_messages, StillDraining, IInv, TypeOK
<1>13. SeqStart <= m.n
  <2>1. SeqStart <= Base
    BY <1>1 DEF NumbersOK
  <2> QED
    BY <1>3, <1>5, <2>1, Constants
<1> QED
  BY <1>3, <1>6, <1>7, <1>9, <1>10, <1>11, <1>12, <1>13

LEMMA AcceptAckStep ==
    ASSUME IInv, NEW m \in AckMsg, AckOK(m, Expected, nwritten), AcceptAck(m),
           UNCHANGED <<icvars, nwritten, delivered>>,
           acks' \in Seq(AckMsg), Len(acks') <= LinkCap,
           \A i \in 1 .. Len(acks') : \E k \in 1 .. Len(acks) : acks'[i] = acks[k]
    PROVE  IInv'
<1>1. NumbersOK
  BY Numbers
<1>2. /\ win' \in Seq(Msg) /\ Len(win') \in 0 .. W
      /\ Run(win', Base') /\ seqbase' = Base' % SeqSpace /\ seqbase' \in Seqnums
      /\ SeqStart <= Base' /\ Base' <= Expected
      /\ draining_window' \in BOOLEAN /\ seq' = seq
  BY RemoveAcked DEF AcceptAck
<1>3. UNCHANGED <<outbuf, outc, sched_synch, tsynch_age, data, last_rexmit_seq, rexmit_recent>>
  BY DEF AcceptAck, outvars
<1>4. Len(win') <= XMITW_SAMPLES
  BY <1>2, Constants DEF W
<1>5. TypeOK'
  BY <1>2, <1>3, <1>4, Zenon DEF IInv, TypeOK, icvars
<1>6. Unsent' = Unsent
  BY <1>3 DEF Unsent
<1>7. Run(outbuf', Unsent') /\ LinkOK(data', Expected, Unsent') /\ Unsent <= Unsent'
  BY <1>1, <1>3, <1>6 DEF IInv, SenderInv, NumbersOK
<1> QED
  BY <1>2, <1>5, <1>7, SenderStep DEF icvars

LEMMA RetransmitStep ==
    ASSUME IInv, NEW m \in AckMsg, AckOK(m, Expected, nwritten), Retransmit(m),
           UNCHANGED <<icvars, nwritten, delivered>>,
           acks' \in Seq(AckMsg), Len(acks') <= LinkCap,
           \A i \in 1 .. Len(acks') : \E k \in 1 .. Len(acks) : acks'[i] = acks[k]
    PROVE  IInv'
<1> DEFINE rex == Retransmission(win', m.nack)
<1>1. NumbersOK
  BY Numbers
<1>2. /\ win' \in Seq(Msg) /\ Len(win') \in 0 .. W /\ Base' = m.n /\ m.n \in Nat
      /\ Run(win', Base') /\ seqbase' = Base' % SeqSpace /\ seqbase' \in Seqnums
      /\ SeqStart <= Base' /\ Base' <= Expected
      /\ draining_window' \in BOOLEAN /\ seq' = seq
  BY RemoveAcked DEF Retransmit, AckMsg
<1>3. rex \in Seq(Msg) /\ Len(rex) \in Nat /\ Len(rex) <= Len(win') /\ Run(rex, Base')
  BY <1>2, RetransmissionRun, LenProperties DEF AckMsg
<1>4. /\ UNCHANGED <<sched_synch, tsynch_age>> /\ outc' = FALSE /\ rexmit_recent' = TRUE
      /\ last_rexmit_seq' = seq_add(m.seq, Len(rex))
      /\ IF rex # << >>
         THEN data' = Transmit(data, outbuf \o rex) /\ outbuf' = << >>
         ELSE UNCHANGED <<data, outbuf>>
  BY DEF Retransmit
<1> HIDE DEF rex
<1>5. outbuf \in Seq(Msg) /\ Run(outbuf, Unsent) /\ data \in Seq(Msg) /\ Len(data) <= LinkCap
      /\ LinkOK(data, Expected, Unsent)
  BY DEF IInv, TypeOK, SenderInv
<1>6. /\ outbuf' \in Seq(Msg) /\ Run(outbuf', Unsent') /\ Unsent <= Unsent'
      /\ data' \in Seq(Msg) /\ Len(data') <= LinkCap
      /\ LinkOK(data', Expected, Unsent')
  <2>1. CASE rex = << >>
    <3>1. UNCHANGED <<data, outbuf>>
      BY <2>1, <1>4
    <3>2. Unsent' = Unsent
      BY <3>1 DEF Unsent
    <3> QED
      BY <1>1, <1>5, <3>1, <3>2 DEF NumbersOK
  <2>2. CASE rex # << >>
    <3>1. data' = Transmit(data, outbuf \o rex) /\ outbuf' = << >>
      BY <2>2, <1>4
    <3>2. Unsent' = nwritten /\ outbuf' \in Seq(Msg) /\ Run(outbuf', Unsent')
      BY <3>1, <1>1, EmptyRun DEF Unsent, NumbersOK
    <3>3. data \o outbuf \in Seq(Msg) /\ LinkOK(data \o outbuf, Expected, nwritten)
      BY <1>5, BufferLink
    <3>4. /\ Base' \in Nat /\ Expected \in Nat /\ nwritten \in Nat
          /\ Expected <= Base' + W /\ nwritten <= Base' + W /\ nwritten <= nwritten
          /\ Base' + Len(rex) <= nwritten
      <4>1. nwritten \in Nat /\ Expected \in Nat /\ Expected <= nwritten
        BY <1>1 DEF NumbersOK
      <4>2. Base' = nwritten - Len(win')
        BY DEF Base
      <4>3. Base' \in Nat /\ Len(win') \in 0 .. W /\ Len(rex) \in Nat /\ Len(rex) <= Len(win')
        BY <1>2, <1>3
      <4> QED
        BY <4>1, <4>2, <4>3, Constants
    <3>5. LinkOK((data \o outbuf) \o rex, Expected, nwritten)
      BY <1>2, <1>3, <3>3, <3>4, LinkRun
    <3>6. outbuf \o rex \in Seq(Msg) /\ data \o (outbuf \o rex) = (data \o outbuf) \o rex
      <4>1. outbuf \o rex \in Seq(Msg)
        BY <1>3, <1>5, ConcatProperties
      <4> QED
        BY <1>3, <1>5, <4>1, ConcatAssociative
    <3>7. data' \in Seq(Msg) /\ Len(data') <= LinkCap /\ LinkOK(data', Expected, nwritten)
      BY <1>5, <3>1, <3>4, <3>5, <3>6, LinkTransmit
    <3> QED
      BY <1>1, <3>2, <3>7 DEF NumbersOK
  <2> QED
    BY <2>1, <2>2
<1>7. last_rexmit_seq' \in Seqnums
  <2>1. m.seq \in Seqnums
    BY DEF AckMsg
  <2>2. m.seq \in Int
    BY <2>1, SeqnumsInt
  <2>3. Len(rex) \in Int
    BY <1>3
  <2> QED
    BY <2>2, <2>3, <1>4, SeqType
<1>8. Len(win') <= XMITW_SAMPLES
  BY <1>2, Constants DEF W
<1>9. outc' \in BOOLEAN /\ rexmit_recent' \in BOOLEAN
  BY <1>4, Zenon
<1>10. TypeOK'
  BY <1>2, <1>4, <1>6, <1>7, <1>8, <1>9, Zenon DEF IInv, TypeOK, icvars
<1> QED
  BY <1>2, <1>6, <1>10, SenderStep DEF icvars

LEMMA RecvAcknackStep ==
    ASSUME IInv, NEW i \in Arrivals("ack", acks), RecvAcknack(i)
    PROVE  IInv'
<1> DEFINE m == acks[i]
<1>1. acks \in Seq(AckMsg) /\ Len(acks) <= LinkCap /\ i \in 1 .. Len(acks)
  BY DEF Arrivals, IInv, TypeOK
<1>2. m \in AckMsg /\ AckOK(m, Expected, nwritten)
  BY <1>1, ElementOfSeq DEF IInv, AckInv
<1>3. acks' = RemoveAt(acks, i) /\ UNCHANGED <<icvars, nwritten, delivered>>
      /\ (AnswerWithSynch(m) \/ AcceptAck(m) \/ Retransmit(m))
  BY DEF RecvAcknack
<1>4. /\ acks' \in Seq(AckMsg) /\ Len(acks') = Len(acks) - 1
      /\ \A j \in 1 .. Len(acks') : \E k \in 1 .. Len(acks) : acks'[j] = acks[k]
  BY <1>1, <1>3, AckRemove
<1>5. Len(acks') <= LinkCap
  BY <1>1, <1>4, LenProperties, Constants
<1> HIDE DEF m
<1>6. CASE AnswerWithSynch(m)
  <2>1. tsynch_age \in 0 .. 2 /\ FALSE \in BOOLEAN
    BY DEF IInv, TypeOK
  <2>2. /\ SendAfterBuffered(<<SynchMsg(seq, nwritten, Len(win), FALSE)>>, tsynch_age)
        /\ UNCHANGED <<seq, seqbase, win, last_rexmit_seq, rexmit_recent>>
        /\ draining_window' \in BOOLEAN
    BY <1>6, Zenon DEF AnswerWithSynch, ocvars, IInv, TypeOK
  <2> QED
    BY <1>3, <1>4, <1>5, <2>1, <2>2, SendBufferAction
<1>7. CASE AcceptAck(m)
  BY <1>2, <1>3, <1>4, <1>5, <1>7, AcceptAckStep
<1>8. CASE Retransmit(m)
  BY <1>2, <1>3, <1>4, <1>5, <1>8, RetransmitStep
<1> QED
  BY <1>3, <1>6, <1>7, <1>8

\* How a write divides the buffered messages and the new one between what is
\* sent first and what follows.
LEMMA WriteRuns ==
    ASSUME IInv, NEW m \in Msg, m.kind = "data", m.n = nwritten, m.seq = nwritten % SeqSpace,
           NEW split \in BOOLEAN, NEW tracked, NEW w, NEW age
    PROVE  LET first == IF split THEN Packet(outbuf, tracked, w, age) ELSE << >>
               out1 == Append(IF split THEN << >> ELSE outbuf, m)
           IN  /\ first \in Seq(Msg) /\ Run(first, Unsent)
               /\ out1 \in Seq(Msg) /\ Run(out1, Unsent + Len(first))
               /\ Unsent + Len(first) + Len(out1) = nwritten + 1
<1> DEFINE first == IF split THEN Packet(outbuf, tracked, w, age) ELSE << >>
           out1 == Append(IF split THEN << >> ELSE outbuf, m)
<1>1. NumbersOK
  BY Numbers
<1>2. /\ Unsent \in Nat /\ nwritten \in Nat /\ Len(outbuf) \in Nat
      /\ nwritten = Unsent + Len(outbuf)
  BY <1>1 DEF NumbersOK
<1>3. outbuf \in Seq(Msg) /\ Run(outbuf, Unsent)
  BY DEF IInv, TypeOK, SenderInv
<1>4. m.n = Unsent + Len(outbuf) /\ m.seq = m.n % SeqSpace
  BY <1>2
<1>5. CASE split
  <2>1. first \in Seq(Msg) /\ Len(first) = Len(outbuf) /\ Run(first, Unsent)
    BY <1>5, BufferSent
  <2>2. Unsent + Len(first) = nwritten
    BY <1>2, <2>1
  <2>3. << >> \in Seq(Msg) /\ Len(<< >>) = 0 /\ Run(<< >>, nwritten)
    BY <1>2, EmptyRun
  <2>4. m.n = nwritten + Len(<< >>)
    BY <1>2, <2>3
  <2>5. Append(<< >>, m) \in Seq(Msg) /\ Run(Append(<< >>, m), nwritten)
        /\ Len(Append(<< >>, m)) = Len(<< >>) + 1
    BY <1>2, <1>4, <2>3, <2>4, RunAppend
  <2>6. out1 = Append(<< >>, m)
    BY <1>5
  <2> HIDE DEF first, out1
  <2>7. Len(out1) = 1
    BY <2>3, <2>5, <2>6
  <2> QED
    BY <1>2, <2>1, <2>2, <2>5, <2>6, <2>7 DEF first, out1
<1>6. CASE ~split
  <2>1. first = << >> /\ out1 = Append(outbuf, m)
    BY <1>6
  <2>2. out1 \in Seq(Msg) /\ Len(out1) = Len(outbuf) + 1 /\ Run(out1, Unsent)
    BY <1>2, <1>3, <1>4, <2>1, RunAppend
  <2>3. first \in Seq(Msg) /\ Len(first) = 0 /\ Run(first, Unsent)
    BY <1>2, <2>1, EmptyRun
  <2> HIDE DEF first, out1
  <2>4. Unsent + Len(first) = Unsent
    BY <1>2, <2>3
  <2>5. Unsent + Len(first) + Len(out1) = nwritten + 1
    BY <1>2, <2>2, <2>3
  <2> QED
    BY <2>2, <2>3, <2>4, <2>5 DEF first, out1
<1> QED
  BY <1>5, <1>6

\* Sending a run that continues what was sent before.
LEMMA SendNext ==
    ASSUME IInv, NEW p \in Seq(Msg), Run(p, Unsent)
    PROVE  /\ Transmit(data, p) \in Seq(Msg) /\ Len(Transmit(data, p)) <= LinkCap
           /\ LinkOK(Transmit(data, p), Expected, Unsent + Len(p))
<1>1. data \in Seq(Msg) /\ LinkOK(data, Expected, Unsent)
  BY DEF IInv, TypeOK
<1>2. NumbersOK
  BY Numbers
<1>3. Len(p) \in Nat
  BY LenProperties
<1>4. /\ Unsent \in Nat /\ Expected \in Nat /\ Unsent + Len(p) \in Nat
      /\ SeqStart <= Unsent /\ Expected <= Unsent + W /\ Unsent <= Unsent + W
      /\ Unsent <= Unsent + Len(p) /\ Unsent + Len(p) <= Unsent + Len(p)
  BY <1>2, <1>3, Constants DEF NumbersOK
<1>5. LinkOK(data \o p, Expected, Unsent + Len(p))
  BY <1>1, <1>4, LinkRun
<1> QED
  BY <1>1, <1>4, <1>5, LinkTransmit

\* What a write does to the output buffer and the link.
LEMMA WriteSends ==
    ASSUME IInv, NEW sz \in Sizes, Write(sz)
    PROVE  /\ outbuf' \in Seq(Msg) /\ Run(outbuf', Unsent') /\ Unsent <= Unsent'
           /\ data' \in Seq(Msg) /\ Len(data') <= LinkCap
           /\ LinkOK(data', Expected, Unsent') /\ Unsent' \in Nat
           /\ outc' \in BOOLEAN /\ sched_synch' \in BOOLEAN /\ tsynch_age' \in 0 .. 2
<1> DEFINE m == DataMsg(seq, nwritten, sz, FALSE)
           split == outbuf # << >> /\ TRANSPORT_MTU - Bytes(outbuf, 0) < sz
           first == IF split THEN Packet(outbuf, outc, win, tsynch_age) ELSE << >>
           age1 == IF split
                   THEN TsynchAfter(outbuf, outc, win, sched_synch, tsynch_age)
                   ELSE tsynch_age
           sched1 == \/ IF split THEN SchedAfter(outbuf, outc, sched_synch)
                                 ELSE sched_synch
                     \/ seq = seqbase
           out1 == Append(IF split THEN << >> ELSE outbuf, m)
<1>1. nwritten' = nwritten + 1
  BY DEF Write
<1>2. IF Packing
      THEN /\ data' = Transmit(data, first)
           /\ outbuf' = out1 /\ outc' = TRUE
           /\ tsynch_age' = age1 /\ sched_synch' = sched1
      ELSE /\ data' = Transmit(data, first \o Packet(out1, TRUE, win', age1))
           /\ outbuf' = << >> /\ outc' = FALSE
           /\ tsynch_age' = TsynchAfter(out1, TRUE, win', sched1, age1)
           /\ sched_synch' = FALSE
  BY DEF Write
<1>3. NumbersOK
  BY Numbers
<1>4. Unsent \in Nat /\ nwritten \in Nat /\ Expected <= Unsent
  BY <1>3 DEF NumbersOK
<1>5. m \in Msg /\ m.kind = "data" /\ m.n = nwritten /\ m.seq = nwritten % SeqSpace
  <2>1. sz \in Nat /\ 0 \in 0 .. XMITW_SAMPLES
    BY Constants DEF W
  <2> QED
    BY <1>4, <2>1 DEF DataMsg, Msg, IInv, TypeOK, SenderInv
<1>6. split \in BOOLEAN
  BY Zenon
<1>7. age1 \in 0 .. 2
  BY TsynchType DEF IInv, TypeOK
<1>8. sched1 \in BOOLEAN
  BY Zenon
<1> HIDE DEF m, split, age1, sched1
<1>9. /\ first \in Seq(Msg) /\ Run(first, Unsent)
      /\ out1 \in Seq(Msg) /\ Run(out1, Unsent + Len(first))
      /\ Unsent + Len(first) + Len(out1) = nwritten + 1
  BY <1>5, <1>6, WriteRuns
<1> HIDE DEF first, out1
<1>10. Len(first) \in Nat /\ Len(out1) \in Nat
  BY <1>9, LenProperties
<1>11. CASE Packing
  <2>1. data' = Transmit(data, first) /\ outbuf' = out1 /\ outc' = TRUE
        /\ tsynch_age' = age1 /\ sched_synch' = sched1
    BY <1>2, <1>11
  <2>2. Unsent' = Unsent + Len(first) /\ Unsent' \in Nat /\ Unsent <= Unsent'
    <3>1. Unsent' = nwritten' - Len(outbuf')
      BY DEF Unsent
    <3> QED
      BY <3>1, <1>1, <1>4, <1>9, <1>10, <2>1
  <2>3. data' \in Seq(Msg) /\ Len(data') <= LinkCap /\ LinkOK(data', Expected, Unsent')
    BY <1>9, <2>1, <2>2, SendNext
  <2>4. outc' \in BOOLEAN
    BY <2>1, Zenon
  <2> QED
    BY <1>7, <1>8, <1>9, <2>1, <2>2, <2>3, <2>4
<1>12. CASE ~Packing
  <2> DEFINE r == Packet(out1, TRUE, win', age1)
  <2>1. data' = Transmit(data, first \o r) /\ outbuf' = << >> /\ outc' = FALSE
        /\ tsynch_age' = TsynchAfter(out1, TRUE, win', sched1, age1)
        /\ sched_synch' = FALSE
    BY <1>2, <1>12
  <2>2. r \in Seq(Msg) /\ Len(r) = Len(out1) /\ Run(r, Unsent + Len(first))
    <3>1. Unsent + Len(first) \in Nat
      BY <1>4, <1>10
    <3>2. ASSUME NEW tracked, NEW w
          PROVE  LET s == Packet(out1, tracked, w, age1)
                 IN  s \in Seq(Msg) /\ Len(s) = Len(out1) /\ Run(s, Unsent + Len(first))
      BY <3>1, <1>9, PacketRun
    <3> QED
      BY <3>2
  <2> HIDE DEF r
  <2>3. first \o r \in Seq(Msg) /\ Len(first \o r) = Len(first) + Len(r)
        /\ Run(first \o r, Unsent)
    BY <1>4, <1>9, <2>2, RunConcat
  <2>4. Unsent' = Unsent + Len(first \o r) /\ Unsent' \in Nat /\ Unsent <= Unsent'
    <3>1. Unsent' = nwritten + 1
      BY <1>1, <1>4, <2>1 DEF Unsent
    <3> QED
      BY <3>1, <1>4, <1>9, <1>10, <2>2, <2>3
  <2>5. data' \in Seq(Msg) /\ Len(data') <= LinkCap /\ LinkOK(data', Expected, Unsent')
    BY <2>1, <2>3, <2>4, SendNext
  <2>6. outc' \in BOOLEAN /\ sched_synch' \in BOOLEAN
    BY <2>1, Zenon
  <2>7. outbuf' \in Seq(Msg) /\ Run(outbuf', Unsent')
    BY <2>1, <2>4, EmptyRun
  <2>8. tsynch_age' \in 0 .. 2
    BY <1>7, <2>1, TsynchType
  <2> QED
    BY <2>4, <2>5, <2>6, <2>7, <2>8
<1> QED
  BY <1>11, <1>12

LEMMA WriteStep ==
    ASSUME IInv, NEW sz \in Sizes, Write(sz)
    PROVE  IInv'
<1> DEFINE m == DataMsg(seq, nwritten, sz, FALSE)
<1>1. /\ outbuf' \in Seq(Msg) /\ Run(outbuf', Unsent') /\ Unsent <= Unsent'
      /\ data' \in Seq(Msg) /\ Len(data') <= LinkCap
      /\ LinkOK(data', Expected, Unsent') /\ Unsent' \in Nat
      /\ outc' \in BOOLEAN /\ sched_synch' \in BOOLEAN /\ tsynch_age' \in 0 .. 2
  BY WriteSends
<1>2. /\ nwritten' = nwritten + 1 /\ seq' = seq_add(seq, 1) /\ win' = Append(win, m)
      /\ UNCHANGED <<seqbase, draining_window, last_rexmit_seq, rexmit_recent,
                     icvars, acks, delivered>>
      /\ \A i \in 1 .. Len(acks) : nwritten + 1 - acks[i].n < SeqSpace
      /\ Len(win) # XMITW_SAMPLES
  BY DEF Write, zhe_xmitw_hasspace
<1>3. NumbersOK
  BY Numbers
<1>4. /\ nwritten \in Nat /\ Base \in Nat /\ Unsent \in Nat /\ Expected \in Nat
      /\ Expected <= Unsent /\ Base <= Expected /\ SeqStart <= Base
      /\ nwritten = Base + Len(win) /\ Len(win) \in 0 .. W
  BY <1>3 DEF NumbersOK
<1>5. m \in Msg /\ m.kind = "data" /\ m.n = nwritten /\ m.seq = nwritten % SeqSpace
  <2>1. sz \in Nat /\ 0 \in 0 .. XMITW_SAMPLES
    BY Constants DEF W
  <2> QED
    BY <1>4, <2>1 DEF DataMsg, Msg, IInv, TypeOK, SenderInv
<1> HIDE DEF m
<1>6. win' \in Seq(Msg) /\ Len(win') = Len(win) + 1 /\ Run(win', Base)
  <2>1. win \in Seq(Msg) /\ Run(win, Base)
    BY DEF IInv, TypeOK, SenderInv
  <2> QED
    BY <1>2, <1>4, <1>5, <2>1, RunAppend
<1>7. Len(win') <= XMITW_SAMPLES
  BY <1>2, <1>4, <1>6, Constants DEF W
<1>8. Base' = Base /\ Expected' = Expected
  <2>1. Base' = nwritten' - Len(win')
    BY DEF Base
  <2>2. Base' = Base
    BY <1>2, <1>4, <1>6, <2>1, Constants
  <2> QED
    BY <1>2, <2>2 DEF Expected
<1>9. seq' = nwritten' % SeqSpace /\ seq' \in Seqnums
  <2>1. nwritten \in Int /\ 1 \in Int /\ nwritten + 1 \in Int
    BY <1>4
  <2>2. seq = nwritten % SeqSpace
    BY DEF IInv, SenderInv
  <2>3. seq' = (nwritten + 1) % SeqSpace
    BY <1>2, <2>1, <2>2, AddWrapped
  <2> QED
    BY <1>2, <2>1, <2>3, DivMod
<1>10. nwritten' \in Nat
  BY <1>2, <1>4
<1>11. TypeOK'
  BY <1>1, <1>2, <1>6, <1>7, <1>9, <1>10, Zenon DEF IInv, TypeOK, icvars
<1>12. SenderInv'
  BY <1>1, <1>2, <1>4, <1>6, <1>8, <1>9 DEF IInv, SenderInv
<1>13. ReceiverInv'
  <2>1. Expected' <= Unsent'
    BY <1>1, <1>4, <1>8
  <2>2. synched => \E l \in Expected .. Unsent' : lseqpU = l % SeqSpace
    BY <1>1, <1>4 DEF IInv, ReceiverInv
  <2> QED
    BY <1>2, <1>4, <1>8, <2>1, <2>2 DEF IInv, ReceiverInv, InOrder, icvars
<1>14. AckInv'
  <2> SUFFICES ASSUME NEW i \in 1 .. Len(acks) PROVE AckOK(acks[i], Expected, nwritten)'
    BY <1>2 DEF AckInv
  <2>1. acks[i].seq = acks[i].n % SeqSpace /\ acks[i].n <= Expected
    BY DEF IInv, AckInv, AckOK
  <2>2. nwritten' - acks[i].n < SeqSpace
    <3>1. nwritten + 1 - acks[i].n < SeqSpace
      BY <1>2, Zenon
    <3>2. acks[i] \in AckMsg
      BY ElementOfSeq DEF IInv, TypeOK
    <3>3. PICK k \in Nat : k = acks[i].n
      BY <3>2 DEF AckMsg
    <3>4. nwritten' = nwritten + 1 /\ nwritten + 1 - k < SeqSpace
      BY <1>2, <3>1, <3>3
    <3>5. nwritten' - k < SeqSpace
      BY <1>4, <3>4, Constants
    <3> QED
      BY <3>3, <3>5
  <2> QED
    BY <1>2, <1>8, <2>1, <2>2 DEF AckOK
<1>15. LinkOK(data, Expected, Unsent)'
  BY <1>1, <1>8
<1> QED
  BY <1>11, <1>12, <1>13, <1>14, <1>15 DEF IInv

-----------------------------------------------------------------------------
(* The receiver's steps. *)

\* A number m the receiver is sent, e the one it expects, l what it knows to
\* exist: comparisons of the wrapped numbers decide the unwrapped ones.
LEMMA ReceiverRange ==
    ASSUME NEW e \in Nat, NEW l \in Nat, NEW m \in Nat, NEW u \in Nat,
           e <= l, l <= u, u <= e + W, e <= m + W, m + 1 <= u
    PROVE  /\ zhe_seq_le(e % SeqSpace, (m + 1) % SeqSpace) <=> e <= m + 1
           /\ e <= m + 1 => (zhe_seq_lt(l % SeqSpace, (m + 1) % SeqSpace) <=> l < m + 1)
           /\ e % SeqSpace = m % SeqSpace => e = m
<1>0. e \in Int /\ l \in Int /\ m \in Int /\ m + 1 \in Int
  OBVIOUS
<1>1. e - (m + 1) \in (-HalfSpace) .. (HalfSpace - 1)
  BY Constants
<1>2. zhe_seq_le(e % SeqSpace, (m + 1) % SeqSpace) <=> e <= m + 1
  BY <1>0, <1>1, SeqLeCorrect
<1>3. ASSUME e <= m + 1 PROVE l - (m + 1) \in (-HalfSpace) .. (HalfSpace - 1)
  BY <1>3, Constants
<1>4. e <= m + 1 => (zhe_seq_lt(l % SeqSpace, (m + 1) % SeqSpace) <=> l < m + 1)
  BY <1>0, <1>3, SeqLtCorrect
<1>5. e - m \in (1 - SeqSpace) .. (SeqSpace - 1)
  BY Constants
<1>6. e % SeqSpace = m % SeqSpace => e = m
  BY <1>0, <1>5, SeqEqCorrect
<1> QED
  BY <1>2, <1>4, <1>6

LEMMA LeqTransitive == \A x, y, z \in Nat : x <= y /\ y <= z => x <= z
OBVIOUS

\* The answer to a message that brings the receiver to expect e is well formed.
LEMMA AcknackStep ==
    ASSUME acks \in Seq(AckMsg), Len(acks) <= LinkCap, tack_recent \in BOOLEAN,
           NEW e0 \in Nat, NEW e \in Nat, NEW w \in Nat, e0 <= e, w - e < SeqSpace,
           \A i \in 1 .. Len(acks) : AckOK(acks[i], e0, w),
           NEW s \in Seqnums, NEW l \in Seqnums, s = e % SeqSpace,
           NEW d, e = SeqStart + Len(d), NEW wantsack,
           acknack_if_needed(s, l, wantsack, d)
    PROVE  /\ acks' \in Seq(AckMsg) /\ Len(acks') <= LinkCap
           /\ tack_recent' \in BOOLEAN
           /\ \A i \in 1 .. Len(acks') : AckOK(acks'[i], e, w)
<1> DEFINE nack == Lesser(seq_sub(l, s), MaskBits)
           a == [seq |-> s, nack |-> nack, n |-> SeqStart + Len(d)]
<1>1. nack \in Nat
  <2>1. s \in Int /\ l \in Int
    BY SeqnumsInt
  <2>2. seq_sub(l, s) \in Seqnums
    BY <2>1, SeqType
  <2>3. \A x \in Seqnums : x \in Nat
    BY Constants DEF Seqnums
  <2> QED
    BY <2>2, <2>3, Constants, Zenon DEF Lesser
<1> HIDE DEF nack
<1>2. a = [seq |-> s, nack |-> nack, n |-> e]
  OBVIOUS
<1>3. \/ acks' = Transmit(acks, <<a>>) /\ tack_recent' = TRUE
      \/ UNCHANGED <<acks, tack_recent>>
  BY DEF acknack_if_needed, nack
<1> HIDE DEF a
<1>4. a \in AckMsg
  BY <1>1, <1>2 DEF AckMsg
<1>5. AckOK(a, e, w)
  BY <1>2 DEF AckOK
<1>6. ASSUME NEW b \in AckMsg, AckOK(b, e0, w) PROVE AckOK(b, e, w)
  <2>1. b.n \in Nat
    BY DEF AckMsg
  <2>2. b.n <= e0
    BY <1>6 DEF AckOK
  <2>3. b.n <= e
    BY <2>1, <2>2, LeqTransitive
  <2> QED
    BY <1>6, <2>3 DEF AckOK
<1>7. ASSUME NEW j \in 1 .. Len(acks) PROVE AckOK(acks[j], e, w)
  <2>1. acks[j] \in AckMsg
    BY ElementOfSeq
  <2> QED
    BY <1>6, <2>1
<1>8. CASE acks' = Transmit(acks, <<a>>) /\ tack_recent' = TRUE
  <2>1. /\ acks' \in Seq(AckMsg) /\ Len(acks') <= LinkCap
        /\ \A i \in 1 .. Len(acks') : acks'[i] = a \/ \E j \in 1 .. Len(acks) : acks'[i] = acks[j]
    BY <1>4, <1>8, AckTransmit
  <2>2. \A i \in 1 .. Len(acks') : AckOK(acks'[i], e, w)
    BY <1>5, <1>7, <2>1
  <2>3. tack_recent' \in BOOLEAN
    BY <1>8, Zenon
  <2> QED
    BY <2>1, <2>2, <2>3
<1>9. CASE UNCHANGED <<acks, tack_recent>>
  BY <1>7, <1>9, Zenon
<1> QED
  BY <1>3, <1>8, <1>9

\* A step of the receiver preserves the invariant if it brings the receiver to
\* expect e, no less than before and no more than was sent.
LEMMA ReceiverStep ==
    ASSUME IInv, UNCHANGED <<ocvars, outvars, nwritten>>,
           NEW e \in Nat, e = Expected', Expected <= e, e <= Unsent,
           icseq' \in Seqnums, lseqpU' \in Seqnums, synched' \in BOOLEAN,
           delivered' \in Seq(Nat), InOrder',
           synched' => icseq' = e % SeqSpace,
           synched' => \E l \in e .. Unsent : lseqpU' = l % SeqSpace,
           ~synched' => delivered' = << >>,
           data' \in Seq(Msg), Len(data') <= LinkCap, LinkOK(data', e, Unsent),
           acks' \in Seq(AckMsg), Len(acks') <= LinkCap, tack_recent' \in BOOLEAN,
           \A i \in 1 .. Len(acks') : AckOK(acks'[i], e, nwritten)
    PROVE  IInv'
<1>1. TypeOK'
  BY Zenon DEF IInv, TypeOK, ocvars, outvars
<1>2. Base' = Base /\ Unsent' = Unsent
  BY DEF Base, Unsent, ocvars, outvars
<1>3. SenderInv'
  BY <1>2 DEF IInv, SenderInv, ocvars, outvars
<1>4. Base <= e
  <2>1. NumbersOK
    BY Numbers
  <2> QED
    BY <2>1 DEF NumbersOK
<1>5. ReceiverInv'
  BY <1>2, <1>4, Zenon DEF ReceiverInv
<1>6. AckInv'
  BY DEF AckInv
<1>7. LinkOK(data, Expected, Unsent)'
  BY <1>2
<1> QED
  BY <1>1, <1>3, <1>5, <1>6, <1>7 DEF IInv

\* Data arrives in the order in which it was sent.
LEMMA DataFirst ==
    ASSUME IInv, "data" \notin Reordering, NEW i \in Arrivals("data", data)
    PROVE  /\ i = 1 /\ Len(data) >= 1 /\ data[1] \in Msg
           /\ Good(data[1], Expected, Unsent)
           /\ RemoveAt(data, i) \in Seq(Msg) /\ Len(RemoveAt(data, i)) <= LinkCap
           /\ RemoveAt(data, i) = SubSeq(data, 2, Len(data))
           /\ LinkOK(RemoveAt(data, i), Expected, Unsent)
<1>1. data \in Seq(Msg) /\ Len(data) <= LinkCap /\ LinkOK(data, Expected, Unsent)
  BY DEF IInv, TypeOK
<1>2. i \in 1 .. Len(data) /\ i = 1
  BY DEF Arrivals
<1>3. Len(data) \in Nat
  BY <1>1, LenProperties
<1>4. Len(data) >= 1 /\ 1 \in 1 .. Len(data) /\ 2 \in 1 .. (Len(data) + 1)
  BY <1>2, <1>3
<1>5. data[1] \in Msg /\ Good(data[1], Expected, Unsent)
  BY <1>1, <1>4, ElementOfSeq DEF LinkOK
<1>6. RemoveAt(data, i) = SubSeq(data, 2, Len(data))
  BY <1>1, <1>2, <1>4, RemoveHead
<1>7. Expected \in Nat /\ Unsent \in Nat
  BY Numbers DEF NumbersOK
<1>8. /\ SubSeq(data, 2, Len(data)) \in Seq(Msg)
      /\ Len(SubSeq(data, 2, Len(data))) = Len(data) - 2 + 1
      /\ LinkOK(SubSeq(data, 2, Len(data)), Expected, Unsent)
  BY <1>1, <1>4, <1>7, LinkSuffix
<1>9. Len(data) - 2 + 1 <= LinkCap
  BY <1>1, <1>3, Constants
<1> QED
  BY <1>2, <1>4, <1>5, <1>6, <1>8, <1>9

LEMMA RecvDataStep ==
    ASSUME IInv, "data" \notin Reordering, NEW i \in Arrivals("data", data),
           NEW accept \in BOOLEAN, RecvData(i, accept)
    PROVE  IInv'
<1> DEFINE next == seq_add(data[1].seq, 1)
<1>1. NumbersOK
  BY Numbers
<1>2. PICK e0 \in Nat, u \in Nat, w \in Nat : e0 = Expected /\ u = Unsent /\ w = nwritten
  BY <1>1 DEF NumbersOK
<1>3. /\ i = 1 /\ Len(data) >= 1 /\ data[1] \in Msg /\ Good(data[1], e0, u)
      /\ RemoveAt(data, i) \in Seq(Msg) /\ Len(RemoveAt(data, i)) <= LinkCap
      /\ RemoveAt(data, i) = SubSeq(data, 2, Len(data))
      /\ LinkOK(RemoveAt(data, i), e0, u)
  BY <1>2, DataFirst
<1>4. /\ data[1].kind = "data" /\ HandleData(data[1], accept) /\ data' = RemoveAt(data, i)
      /\ UNCHANGED <<ocvars, outvars, nwritten>>
  BY <1>3 DEF RecvData
<1>5. PICK n \in Nat : n = data[1].n
  BY <1>3, MsgFields
<1>6. data[1].seq = n % SeqSpace /\ SeqStart <= n /\ e0 <= n + W /\ n + 1 <= u
  BY <1>3, <1>4, <1>5 DEF Good, Reach, Top
<1>7. e0 <= u /\ u <= e0 + W /\ u <= w /\ w - e0 < SeqSpace
  <2>1. /\ Base \in Nat /\ Base <= e0 /\ e0 <= u /\ u <= w /\ w <= Base + W
    BY <1>1, <1>2 DEF NumbersOK
  <2> QED
    BY <2>1, Constants
<1>8. TypeOK /\ ReceiverInv /\ \A j \in 1 .. Len(acks) : AckOK(acks[j], e0, w)
  BY <1>2 DEF IInv, AckInv
<1>9. CASE ~synched
  <2>1. UNCHANGED <<icvars, acks, delivered>>
    BY <1>4, <1>9 DEF HandleData, LatestKnown, ic_may_deliver_seq
  <2>2. Expected' = e0
    BY <1>2, <2>1 DEF Expected
  <2>3. icseq' \in Seqnums /\ lseqpU' \in Seqnums /\ synched' \in BOOLEAN
        /\ delivered' \in Seq(Nat) /\ InOrder' /\ delivered' = << >> /\ ~synched'
        /\ acks' \in Seq(AckMsg) /\ Len(acks') <= LinkCap /\ tack_recent' \in BOOLEAN
        /\ \A j \in 1 .. Len(acks') : AckOK(acks'[j], e0, w)
    BY <1>8, <1>9, <2>1, Zenon DEF TypeOK, ReceiverInv, InOrder, icvars
  <2>4. Expected <= e0 /\ e0 <= Unsent
    BY <1>2, <1>7
  <2> QED
    BY <1>2, <1>3, <1>4, <2>2, <2>3, <2>4, ReceiverStep
<1>10. CASE synched
  <2>1. PICK l \in e0 .. u : lseqpU = l % SeqSpace
    BY <1>2, <1>8, <1>10 DEF ReceiverInv
  <2>2. icseq = e0 % SeqSpace
    BY <1>2, <1>8, <1>10 DEF ReceiverInv
  <2>3. next = (n + 1) % SeqSpace
    <3>1. n \in Int /\ 1 \in Int
      OBVIOUS
    <3> QED
      BY <1>6, <3>1, AddWrapped
  <2>4. l \in Nat /\ e0 <= l /\ l <= u
    BY <2>1
  <2>5. /\ zhe_seq_le(icseq, next) <=> e0 <= n + 1
        /\ e0 <= n + 1 => (zhe_seq_lt(lseqpU, next) <=> l < n + 1)
        /\ icseq = data[1].seq => e0 = n
    BY <1>6, <1>7, <2>1, <2>2, <2>3, <2>4, ReceiverRange
  <2>6. /\ lseqpU' = IF zhe_seq_le(icseq, next) /\ zhe_seq_lt(lseqpU, next)
                     THEN next ELSE lseqpU
        /\ IF icseq = data[1].seq /\ accept
           THEN icseq' = next /\ delivered' = Append(delivered, data[1].n)
           ELSE UNCHANGED <<icseq, delivered>>
        /\ acknack_if_needed(icseq', lseqpU', data[1].sflag, delivered')
        /\ UNCHANGED synched
    BY <1>4, <1>10 DEF HandleData, LatestKnown, ic_may_deliver_seq
  <2> HIDE DEF next
  <2>7. PICK k \in e0 .. u : /\ lseqpU' = k % SeqSpace
                             /\ e0 = n => n + 1 <= k
    <3>1. CASE e0 <= n + 1 /\ l < n + 1
      <4>1. lseqpU' = (n + 1) % SeqSpace
        BY <2>3, <2>5, <2>6, <3>1
      <4>2. n + 1 \in e0 .. u /\ n + 1 <= n + 1
        BY <1>6, <3>1
      <4> QED
        BY <4>1, <4>2
    <3>2. CASE ~(e0 <= n + 1 /\ l < n + 1)
      <4>1. lseqpU' = l % SeqSpace
        BY <2>1, <2>5, <2>6, <3>2
      <4>2. e0 = n => n + 1 <= l
        BY <2>4, <3>2
      <4> QED
        BY <2>1, <4>1, <4>2
    <3> QED
      BY <3>1, <3>2
  <2>8. PICK e \in {e0, n + 1} :
           /\ e0 <= e /\ e <= k
           /\ Expected' = e /\ icseq' = e % SeqSpace
           /\ delivered' \in Seq(Nat) /\ e = SeqStart + Len(delivered') /\ InOrder'
           /\ LinkOK(data', e, u)
    <3>1. CASE icseq = data[1].seq /\ accept
      <4>1. e0 = n /\ icseq' = next /\ delivered' = Append(delivered, n)
        BY <1>5, <2>5, <2>6, <3>1
      <4>2. /\ delivered \in Seq(Nat) /\ InOrder /\ Len(delivered) \in Nat
            /\ n = SeqStart + Len(delivered)
        BY <1>2, <1>8, <4>1, LenProperties DEF TypeOK, ReceiverInv, Expected
      <4>3. /\ delivered' \in Seq(Nat) /\ Len(delivered') = Len(delivered) + 1
            /\ \A j \in 1 .. Len(delivered) : delivered'[j] = delivered[j]
            /\ delivered'[Len(delivered) + 1] = n
        BY <4>1, <4>2, AppendProperties
      <4>4. n + 1 = SeqStart + Len(delivered')
        BY <4>2, <4>3, Constants
      <4>5. InOrder'
        <5> SUFFICES ASSUME NEW j \in 1 .. Len(delivered')
                     PROVE  delivered'[j] = SeqStart + j - 1
          BY DEF InOrder
        <5>1. CASE j \in 1 .. Len(delivered)
          BY <4>2, <4>3, <5>1 DEF InOrder
        <5>2. CASE j = Len(delivered) + 1
          BY <4>2, <4>3, <5>2, Constants
        <5> QED
          BY <4>2, <4>3, <5>1, <5>2
      <4>6. LinkOK(data', n + 1, u)
        <5>1. data \in Seq(Msg) /\ LinkOK(data, e0, u)
          BY <1>2 DEF IInv, TypeOK
        <5>2. LinkOK(SubSeq(data, 2, Len(data)), e0 + 1, u)
          BY <1>3, <1>4, <1>5, <4>1, <5>1, LinkDeliver
        <5> QED
          BY <1>3, <1>4, <4>1, <5>2
      <4>7. e0 <= n + 1 /\ n + 1 <= k
        BY <2>7, <4>1
      <4>8. Expected' = n + 1
        BY <4>4 DEF Expected
      <4> QED
        BY <2>3, <4>1, <4>3, <4>4, <4>5, <4>6, <4>7, <4>8
    <3>2. CASE ~(icseq = data[1].seq /\ accept)
      <4>1. UNCHANGED <<icseq, delivered>>
        BY <2>6, <3>2
      <4>2. Expected' = e0 /\ e0 = SeqStart + Len(delivered')
        BY <1>2, <4>1 DEF Expected
      <4>3. delivered' \in Seq(Nat) /\ InOrder'
        BY <1>8, <4>1 DEF TypeOK, ReceiverInv, InOrder
      <4>4. e0 <= e0 /\ e0 <= k
        BY <2>7
      <4>5. icseq' = e0 % SeqSpace /\ LinkOK(data', e0, u)
        BY <1>3, <1>4, <2>2, <4>1
      <4> QED
        BY <4>2, <4>3, <4>4, <4>5
    <3> QED
      BY <3>1, <3>2
  <2>9. e \in Nat /\ e0 <= e /\ e <= k /\ k \in e .. u /\ e <= u /\ w - e < SeqSpace
    <3>1. e \in Nat /\ k \in Nat /\ k <= u
      BY <2>7, <2>8
    <3>2. e0 <= e /\ e <= k
      BY <2>8
    <3> QED
      BY <1>7, <3>1, <3>2, Constants
  <2>10. icseq' \in Seqnums /\ lseqpU' \in Seqnums
    <3>1. e \in Int /\ k \in Int
      BY <2>9
    <3> QED
      BY <2>7, <2>8, <3>1, DivMod
  <2>11. /\ acks' \in Seq(AckMsg) /\ Len(acks') <= LinkCap /\ tack_recent' \in BOOLEAN
         /\ \A j \in 1 .. Len(acks') : AckOK(acks'[j], e, w)
    <3>1. acks \in Seq(AckMsg) /\ Len(acks) <= LinkCap /\ tack_recent \in BOOLEAN
      BY <1>8, Zenon DEF TypeOK
    <3> QED
      BY <1>8, <2>6, <2>8, <2>9, <2>10, <3>1, AcknackStep
  <2>12. synched' \in BOOLEAN /\ synched'
    BY <1>10, <2>6, <1>8, Zenon DEF TypeOK
  <2>13. Expected <= e /\ e <= Unsent /\ e = Expected'
    BY <1>2, <2>8, <2>9
  <2>14. \E j \in e .. Unsent : lseqpU' = j % SeqSpace
    BY <1>2, <2>7, <2>9
  <2> QED
    BY <1>2, <1>3, <1>4, <2>8, <2>9, <2>10, <2>11, <2>12, <2>13, <2>14, ReceiverStep
<1> QED
  BY <1>9, <1>10

LEMMA RecvSynchStep ==
    ASSUME IInv, "data" \notin Reordering, NEW i \in Arrivals("data", data), RecvSynch(i)
    PROVE  IInv' /\ UNCHANGED delivered /\ (synched => UNCHANGED icseq)
<1> DEFINE base == seq_sub(data[1].seq, data[1].cnt)
<1>1. NumbersOK
  BY Numbers
<1>2. PICK e \in Nat, u \in Nat, w \in Nat : e = Expected /\ u = Unsent /\ w = nwritten
  BY <1>1 DEF NumbersOK
<1>3. /\ i = 1 /\ data[1] \in Msg /\ Good(data[1], e, u)
      /\ RemoveAt(data, i) \in Seq(Msg) /\ Len(RemoveAt(data, i)) <= LinkCap
      /\ LinkOK(RemoveAt(data, i), e, u)
  BY <1>2, DataFirst
<1>4. /\ data[1].kind = "synch" /\ HandleSynch(data[1]) /\ data' = RemoveAt(data, i)
      /\ UNCHANGED <<ocvars, outvars, nwritten>>
  BY <1>3 DEF RecvSynch
<1>5. PICK n \in Nat, c \in 0 .. W : n = data[1].n /\ c = data[1].cnt
  BY <1>3, MsgFields
<1>6. data[1].seq = n % SeqSpace /\ data[1].seq \in Seqnums
      /\ SeqStart <= n - c /\ n - c <= e /\ e <= n /\ n <= u
  BY <1>3, <1>4, <1>5, MsgFields DEF Good, Reach, Top
<1>7. e <= u /\ u <= e + W /\ w - e < SeqSpace
  <2>1. /\ Base \in Nat /\ Base <= e /\ e <= u /\ u <= w /\ w <= Base + W
    BY <1>1, <1>2 DEF NumbersOK
  <2> QED
    BY <2>1, Constants
<1>8. TypeOK /\ ReceiverInv /\ \A j \in 1 .. Len(acks) : AckOK(acks[j], e, w)
  BY <1>2 DEF IInv, AckInv
<1>9. c \in Int /\ n \in Int /\ e \in Int /\ n - c \in Int
  BY Constants
<1>10. base = (n - c) % SeqSpace
  <2>1. c \in 0 .. (SeqSpace - 1)
    BY Constants
  <2>2. c % SeqSpace = c
    BY <1>9, <2>1, SmallDifference
  <2>3. seq_sub(n % SeqSpace, c % SeqSpace) = (n - c) % SeqSpace
    BY <1>9, SubWrapped
  <2> QED
    BY <1>5, <1>6, <2>2, <2>3
<1> HIDE DEF base
<1>11. /\ IF ~synched \/ zhe_seq_le(icseq, base) \/ zhe_seq_lt(data[1].seq, icseq)
          THEN icseq' = base /\ lseqpU' = data[1].seq
          ELSE UNCHANGED <<icseq, lseqpU>>
       /\ synched' = TRUE
       /\ acknack_if_needed(icseq', lseqpU', data[1].sflag, delivered)
       /\ delivered' = delivered
  BY <1>4 DEF HandleSynch, Resynchs, base
<1>12. n - c = e \/ synched
  <2>1. CASE ~synched
    <3>1. delivered = << >>
      BY <1>8, <2>1 DEF ReceiverInv
    <3>2. e = SeqStart
      BY <1>2, <3>1, Constants DEF Expected
    <3> QED
      BY <1>6, <1>9, <3>2, Constants
  <2> QED
    BY <2>1
<1>13. synched => /\ icseq = e % SeqSpace
                  /\ zhe_seq_le(icseq, base) => n - c = e
                  /\ ~zhe_seq_lt(data[1].seq, icseq)
  <2> SUFFICES ASSUME synched
               PROVE  /\ icseq = e % SeqSpace
                      /\ zhe_seq_le(icseq, base) => n - c = e
                      /\ ~zhe_seq_lt(data[1].seq, icseq)
    OBVIOUS
  <2>1. icseq = e % SeqSpace
    BY <1>2, <1>8 DEF ReceiverInv
  <2>2. e - (n - c) \in (-HalfSpace) .. (HalfSpace - 1)
    <3>1. e \in Nat /\ n \in Nat /\ c \in 0 .. W /\ n - c <= e /\ e <= n
      BY <1>6
    <3> QED
      BY <3>1, Constants
  <2>3. zhe_seq_le(icseq, base) => e <= n - c
    BY <1>9, <1>10, <2>1, <2>2, SeqLeCorrect
  <2>4. n - e \in (-HalfSpace) .. (HalfSpace - 1)
    <3>1. e <= n /\ n <= u /\ u <= e + W
      BY <1>6, <1>7
    <3> QED
      BY <3>1, Constants
  <2>5. zhe_seq_lt(data[1].seq, icseq) => n < e
    BY <1>6, <1>9, <2>1, <2>4, SeqLtCorrect
  <2>6. ~zhe_seq_lt(data[1].seq, icseq)
    BY <1>6, <1>9, <2>5
  <2>7. zhe_seq_le(icseq, base) => n - c = e
    BY <1>6, <1>9, <2>3
  <2> QED
    BY <2>1, <2>6, <2>7
<1>14. icseq' = e % SeqSpace /\ (synched => UNCHANGED icseq)
  BY <1>10, <1>11, <1>12, <1>13, Zenon
<1>15. PICK l \in e .. u : lseqpU' = l % SeqSpace
  <2>1. CASE lseqpU' = data[1].seq
    <3>1. n \in e .. u
      BY <1>6
    <3> QED
      BY <1>6, <2>1, <3>1
  <2>2. CASE UNCHANGED lseqpU /\ synched
    BY <1>2, <1>8, <2>2 DEF ReceiverInv
  <2> QED
    BY <1>11, <2>1, <2>2
<1>16. icseq' \in Seqnums /\ lseqpU' \in Seqnums
  <2>1. l \in Int
    OBVIOUS
  <2> QED
    BY <1>9, <1>14, <1>15, <2>1, DivMod
<1>17. Expected' = e /\ e = SeqStart + Len(delivered)
  BY <1>2, <1>11 DEF Expected
<1>18. /\ acks' \in Seq(AckMsg) /\ Len(acks') <= LinkCap /\ tack_recent' \in BOOLEAN
       /\ \A j \in 1 .. Len(acks') : AckOK(acks'[j], e, w)
  <2>1. acks \in Seq(AckMsg) /\ Len(acks) <= LinkCap /\ tack_recent \in BOOLEAN
    BY <1>8, Zenon DEF TypeOK
  <2>2. e <= e
    BY <1>9
  <2> QED
    BY <1>7, <1>8, <1>11, <1>14, <1>16, <1>17, <2>1, <2>2, AcknackStep
<1>19. delivered' \in Seq(Nat) /\ InOrder'
  BY <1>8, <1>11 DEF TypeOK, ReceiverInv, InOrder
<1>20. synched' \in BOOLEAN /\ synched'
  BY <1>11, Zenon
<1>21. Expected <= e /\ e <= Unsent
  BY <1>2, <1>7, <1>9
<1>22. \E j \in e .. Unsent : lseqpU' = j % SeqSpace
  BY <1>2, <1>15
<1>23. IInv'
  BY <1>2, <1>3, <1>4, <1>14, <1>16, <1>17, <1>18, <1>19, <1>20, <1>21, <1>22, ReceiverStep
<1> QED
  BY <1>11, <1>14, <1>23

-----------------------------------------------------------------------------
(* The steps of the links and the clocks. *)

LEMMA LoseDataStep ==
    ASSUME IInv, LoseData
    PROVE  IInv'
<1>1. data \in Seq(Msg) /\ data # << >> /\ Len(data) <= LinkCap /\ LinkOK(data, Expected, Unsent)
      /\ data' = Tail(data)
      /\ UNCHANGED <<ocvars, outvars, icvars, acks, nwritten, delivered>>
  BY DEF LoseData, IInv, TypeOK
<1>2. Tail(data) = SubSeq(data, 2, Len(data)) /\ Len(data) \in Nat /\ Len(data) # 0
  BY <1>1, TailIsSubSeq, LenProperties, EmptySeq
<1>3. Expected \in Nat /\ Unsent \in Nat /\ 2 \in 1 .. (Len(data) + 1)
  BY <1>2, Numbers DEF NumbersOK
<1>4. /\ data' \in Seq(Msg) /\ Len(data') = Len(data) - 2 + 1 /\ LinkOK(data', Expected, Unsent)
  BY <1>1, <1>2, <1>3, LinkSuffix
<1>5. Len(data') <= LinkCap
  BY <1>1, <1>2, <1>4, Constants
<1>6. TypeOK'
  BY <1>1, <1>4, <1>5, Zenon DEF IInv, TypeOK, ocvars, outvars, icvars
<1>7. Base' = Base /\ Unsent' = Unsent /\ Expected' = Expected
  BY <1>1 DEF Base, Unsent, Expected, ocvars, outvars
<1>8. SenderInv'
  BY <1>1, <1>7 DEF IInv, SenderInv, ocvars, outvars
<1>9. ReceiverInv'
  BY <1>1, <1>7 DEF IInv, ReceiverInv, InOrder, icvars
<1>10. AckInv'
  BY <1>1, <1>7 DEF IInv, AckInv
<1>11. LinkOK(data, Expected, Unsent)'
  BY <1>4, <1>7
<1> QED
  BY <1>6, <1>8, <1>9, <1>10, <1>11 DEF IInv

LEMMA LoseAckStep ==
    ASSUME IInv, LoseAck
    PROVE  IInv'
<1>1. acks \in Seq(AckMsg) /\ acks # << >> /\ Len(acks) <= LinkCap /\ AckInv
      /\ acks' = Tail(acks)
      /\ UNCHANGED <<ocvars, outvars, icvars, data, nwritten, delivered>>
  BY DEF LoseAck, IInv, TypeOK
<1>2. /\ acks' \in Seq(AckMsg) /\ Len(acks') = Len(acks) - 1 /\ Len(acks) \in Nat
      /\ \A j \in 1 .. Len(acks') : acks'[j] = acks[j + 1]
  BY <1>1, HeadTailProperties, LenProperties
<1>3. Len(acks') <= LinkCap
  BY <1>1, <1>2, Constants
<1>4. TypeOK'
  BY <1>1, <1>2, <1>3, Zenon DEF IInv, TypeOK, ocvars, outvars, icvars
<1>5. Base' = Base /\ Unsent' = Unsent /\ Expected' = Expected
  BY <1>1 DEF Base, Unsent, Expected, ocvars, outvars
<1>6. SenderInv'
  BY <1>1, <1>5 DEF IInv, SenderInv, ocvars, outvars
<1>7. ReceiverInv'
  BY <1>1, <1>5 DEF IInv, ReceiverInv, InOrder, icvars
<1>8. AckInv'
  <2> SUFFICES ASSUME NEW j \in 1 .. Len(acks') PROVE AckOK(acks'[j], Expected', nwritten')
    BY DEF AckInv
  <2>1. j + 1 \in 1 .. Len(acks) /\ acks'[j] = acks[j + 1]
    BY <1>2
  <2> QED
    BY <1>1, <1>5, <2>1 DEF AckInv
<1>9. LinkOK(data, Expected, Unsent)'
  BY <1>1, <1>5 DEF IInv
<1> QED
  BY <1>4, <1>6, <1>7, <1>8, <1>9 DEF IInv

LEMMA AgeStep ==
    ASSUME IInv, TsynchAges \/ RexmitAges \/ TackAges
    PROVE  IInv'
<1>1. UNCHANGED <<seq, seqbase, win, draining_window, last_rexmit_seq, outbuf, outc, sched_synch,
                  icseq, lseqpU, synched, data, acks, nwritten, delivered>>
  BY DEF TsynchAges, RexmitAges, TackAges, ocvars, outvars, icvars
<1>2. tsynch_age' \in 0 .. 2
  BY DEF TsynchAges, RexmitAges, TackAges, ocvars, outvars, icvars, IInv, TypeOK
<1>3. rexmit_recent' \in BOOLEAN /\ tack_recent' \in BOOLEAN
  BY Zenon DEF TsynchAges, RexmitAges, TackAges, ocvars, outvars, icvars, IInv, TypeOK
<1>4. TypeOK'
  BY <1>1, <1>2, <1>3, Zenon DEF IInv, TypeOK
<1>5. Base' = Base /\ Unsent' = Unsent /\ Expected' = Expected
  BY <1>1 DEF Base, Unsent, Expected
<1>6. SenderInv'
  BY <1>1, <1>5 DEF IInv, SenderInv
<1>7. ReceiverInv'
  BY <1>1, <1>5 DEF IInv, ReceiverInv, InOrder
<1>8. AckInv'
  BY <1>1, <1>5 DEF IInv, AckInv
<1>9. LinkOK(data, Expected, Unsent)'
  BY <1>1, <1>5 DEF IInv
<1> QED
  BY <1>4, <1>6, <1>7, <1>8, <1>9 DEF IInv

-----------------------------------------------------------------------------
(* The invariant and what follows from it. *)

\* the environment the theorems assume: the data link preserves order
OrderedData == "data" \notin Reordering

LEMMA InitInv == Init => IInv
<1> SUFFICES ASSUME Init PROVE IInv
  OBVIOUS
<1>1. /\ win = << >> /\ outbuf = << >> /\ data = << >> /\ acks = << >> /\ delivered = << >>
      /\ Len(win) = 0 /\ Len(outbuf) = 0 /\ Len(data) = 0 /\ Len(acks) = 0 /\ Len(delivered) = 0
      /\ nwritten = SeqStart
  BY DEF Init
<1>2. Base = SeqStart /\ Unsent = SeqStart /\ Expected = SeqStart
  BY <1>1, Constants DEF Base, Unsent, Expected
<1>3. SeqStart % SeqSpace \in Seqnums /\ 0 \in Seqnums
  <2>1. SeqStart \in Int
    BY Constants
  <2> QED
    BY <2>1, DivMod, Constants, HalfSpaceAssumption DEF Seqnums
<1>4. TypeOK
  <2>1. seq \in Seqnums /\ seqbase \in Seqnums /\ icseq \in Seqnums /\ lseqpU \in Seqnums
        /\ last_rexmit_seq \in Seqnums /\ tsynch_age \in 0 .. 2
    BY <1>3 DEF Init
  <2>2. /\ win \in Seq(Msg) /\ outbuf \in Seq(Msg) /\ data \in Seq(Msg)
        /\ acks \in Seq(AckMsg) /\ delivered \in Seq(Nat)
    BY <1>1
  <2>3. Len(win) <= XMITW_SAMPLES /\ Len(data) <= LinkCap /\ Len(acks) <= LinkCap /\ nwritten \in Nat
    BY <1>1, Constants DEF W
  <2>4. /\ draining_window \in BOOLEAN /\ sched_synch \in BOOLEAN /\ rexmit_recent \in BOOLEAN
        /\ outc \in BOOLEAN /\ synched \in BOOLEAN /\ tack_recent \in BOOLEAN
    BY ChannelAssumption, Zenon DEF Init
  <2> QED
    BY <2>1, <2>2, <2>3, <2>4, Zenon DEF TypeOK
<1>5. SenderInv
  <2>1. SeqStart <= SeqStart
    BY Constants
  <2> QED
    BY <1>1, <1>2, <2>1 DEF Init, SenderInv, Run
<1>6. ReceiverInv
  <2>1. SeqStart <= SeqStart /\ SeqStart \in SeqStart .. SeqStart
    BY Constants
  <2>2. synched => icseq = SeqStart % SeqSpace /\ lseqpU = SeqStart % SeqSpace
    BY DEF Init
  <2>3. InOrder
    BY <1>1 DEF InOrder
  <2> QED
    BY <1>1, <1>2, <2>1, <2>2, <2>3 DEF ReceiverInv
<1>7. LinkOK(data, Expected, Unsent) /\ AckInv
  BY <1>1 DEF LinkOK, AckInv
<1> QED
  BY <1>4, <1>5, <1>6, <1>7 DEF IInv

LEMMA NextInv ==
    ASSUME OrderedData, IInv, [Next]_vars
    PROVE  IInv'
<1>0. "data" \notin Reordering
  BY DEF OrderedData
<1>1. ASSUME NEW sz \in Sizes, Write(sz) PROVE IInv'
  BY <1>1, WriteStep
<1>2. ASSUME NEW sz \in Sizes, HitFullWindow(sz) PROVE IInv'
  BY <1>2, HitFullWindowStep
<1>3. CASE Housekeeping
  BY <1>3, HousekeepingStep
<1>4. ASSUME NEW i \in Arrivals("data", data), NEW accept \in BOOLEAN, RecvData(i, accept)
      PROVE  IInv'
  BY <1>0, <1>4, RecvDataStep
<1>5. ASSUME NEW i \in Arrivals("data", data), RecvSynch(i) PROVE IInv'
  BY <1>0, <1>5, RecvSynchStep
<1>6. ASSUME NEW i \in Arrivals("ack", acks), RecvAcknack(i) PROVE IInv'
  BY <1>6, RecvAcknackStep
<1>7. CASE LoseData
  BY <1>7, LoseDataStep
<1>8. CASE LoseAck
  BY <1>8, LoseAckStep
<1>9. CASE TsynchAges \/ RexmitAges \/ TackAges
  BY <1>9, AgeStep
<1>10. CASE UNCHANGED vars
  BY <1>10 DEF vars, ocvars, outvars, icvars, IInv, TypeOK, SenderInv, ReceiverInv, AckInv,
               InOrder, Base, Unsent, Expected
<1> QED
  BY <1>1, <1>2, <1>3, <1>4, <1>5, <1>6, <1>7, <1>8, <1>9, <1>10 DEF Next

LEMMA Invariance == ASSUME OrderedData PROVE Spec => []IInv
<1>1. Init => IInv
  BY InitInv
<1>2. IInv /\ [Next]_vars => IInv'
  BY NextInv
<1> QED
  BY <1>1, <1>2, PTL DEF Spec

\* Every variable keeps its type, the window never holds more than
\* XMITW_SAMPLES messages, and every number that travels is a seq_t: the
\* arithmetic of zhe_write, remove_acked_messages and ic_update_seq wraps.
THEOREM TypeCorrect == ASSUME OrderedData PROVE Spec => []TypeOK
<1>1. IInv => TypeOK
  BY DEF IInv
<1> QED
  BY <1>1, Invariance, PTL

\* The receiver's application gets the messages in the order of zhe_write,
\* none twice and none skipped, whatever the window, the sequence number
\* space and the losses, and however late ACKNACKs arrive.
THEOREM DeliveredInOrder == ASSUME OrderedData PROVE Spec => []InOrder
<1>1. IInv => InOrder
  BY DEF IInv, ReceiverInv
<1> QED
  BY <1>1, Invariance, PTL

\* No message that the receiver has not delivered leaves the transmit window
\* (remove_acked_messages), and the window is the gapless run from Base on.
THEOREM WindowKept == ASSUME OrderedData PROVE Spec => []UnackedKept
<1>1. IInv => UnackedKept
  <2> SUFFICES ASSUME IInv PROVE UnackedKept
    OBVIOUS
  <2>1. NumbersOK
    BY Numbers
  <2>2. Base <= Expected /\ Expected <= nwritten
    BY <2>1 DEF NumbersOK
  <2>3. \A i \in 1 .. Len(win) : win[i].n = Base + i - 1
    BY DEF IInv, SenderInv, Run
  <2> QED
    BY <2>2, <2>3 DEF UnackedKept
<1> QED
  BY <1>1, Invariance, PTL

\* The assertions on lseqpU in ic_update_seq and acknack_if_needed hold: what
\* the receiver asks to have retransmitted has been written.
THEOREM NacksExistingMessages == ASSUME OrderedData PROVE Spec => []NackedExists
<1>1. IInv => NackedExists
  <2> SUFFICES ASSUME IInv, synched
               PROVE  \E l \in Expected .. nwritten : lseqpU = l % SeqSpace
    BY DEF NackedExists
  <2>1. NumbersOK
    BY Numbers
  <2>2. PICK l \in Expected .. Unsent : lseqpU = l % SeqSpace
    BY DEF IInv, ReceiverInv
  <2>3. l \in Expected .. nwritten
    BY <2>1 DEF NumbersOK
  <2> QED
    BY <2>2, <2>3
<1> QED
  BY <1>1, Invariance, PTL

\* What a step does to what is written and delivered.
LEMMA StepKinds ==
    ASSUME OrderedData, IInv, [Next]_vars
    PROVE  \/ UNCHANGED <<nwritten, delivered>> /\ (synched => UNCHANGED icseq)
           \/ nwritten' = nwritten + 1 /\ UNCHANGED <<delivered, icseq>>
           \/ /\ UNCHANGED nwritten /\ icseq' = seq_add(icseq, 1)
              /\ \E x \in Nat : delivered' = Append(delivered, x)
<1>1. ASSUME NEW sz \in Sizes, Write(sz)
      PROVE  nwritten' = nwritten + 1 /\ UNCHANGED <<delivered, icseq>>
  BY <1>1, Zenon DEF Write, icvars
<1>2. ASSUME NEW sz \in Sizes, HitFullWindow(sz) PROVE UNCHANGED <<nwritten, delivered, icseq>>
  BY <1>2 DEF HitFullWindow, icvars
<1>3. CASE Housekeeping
  BY <1>3 DEF Housekeeping, SynchDue, icvars
<1>4. ASSUME NEW i \in Arrivals("data", data), NEW accept \in BOOLEAN, RecvData(i, accept)
      PROVE  /\ UNCHANGED nwritten
             /\ \/ UNCHANGED <<delivered, icseq>>
                \/ /\ icseq' = seq_add(icseq, 1)
                   /\ \E x \in Nat : delivered' = Append(delivered, x)
  <2>1. i \in 1 .. Len(data) /\ data \in Seq(Msg)
    BY DEF Arrivals, IInv, TypeOK
  <2>2. data[i].n \in Nat
    BY <2>1, ElementOfSeq, MsgFields
  <2>3. UNCHANGED nwritten /\ HandleData(data[i], accept)
    BY <1>4 DEF RecvData
  <2> QED
    BY <2>2, <2>3, Zenon DEF HandleData, LatestKnown, ic_may_deliver_seq, icvars
<1>5. ASSUME NEW i \in Arrivals("data", data), RecvSynch(i)
      PROVE  UNCHANGED <<nwritten, delivered>> /\ (synched => UNCHANGED icseq)
  <2>1. UNCHANGED nwritten
    BY <1>5 DEF RecvSynch
  <2> QED
    BY <1>5, <2>1, RecvSynchStep DEF OrderedData
<1>6. ASSUME NEW i \in Arrivals("ack", acks), RecvAcknack(i)
      PROVE  UNCHANGED <<nwritten, delivered, icseq>>
  BY <1>6 DEF RecvAcknack, icvars
<1>7. CASE LoseData \/ LoseAck \/ TsynchAges \/ RexmitAges \/ TackAges
  BY <1>7 DEF LoseData, LoseAck, TsynchAges, RexmitAges, TackAges, icvars
<1>8. CASE UNCHANGED vars
  BY <1>8 DEF vars, icvars
<1> QED
  BY <1>1, <1>2, <1>3, <1>4, <1>5, <1>6, <1>7, <1>8 DEF Next

\* The number a synchronised receiver expects changes by a delivery only, so
\* that no SYNCH makes it skip a message or take one again (handle_msynch).
THEOREM SynchNeverSkips == ASSUME OrderedData PROVE Spec => OnlyDeliveryAdvances
<1> DEFINE A == synched => \/ icseq' = icseq /\ delivered' = delivered
                           \/ icseq' = seq_add(icseq, 1) /\ Len(delivered') = Len(delivered) + 1
<1>1. IInv /\ [Next]_vars => [A]_vars
  <2> SUFFICES ASSUME IInv, [Next]_vars, synched PROVE A
    OBVIOUS
  <2>1. CASE UNCHANGED <<delivered, icseq>>
    BY <2>1
  <2>2. CASE icseq' = seq_add(icseq, 1) /\ \E x \in Nat : delivered' = Append(delivered, x)
    <3>1. delivered \in Seq(Nat)
      BY DEF IInv, TypeOK
    <3>2. Len(delivered') = Len(delivered) + 1
      BY <2>2, <3>1, AppendProperties
    <3> QED
      BY <2>2, <3>2
  <2> QED
    BY <2>1, <2>2, StepKinds
<1> QED
  BY <1>1, Invariance, PTL DEF Spec, OnlyDeliveryAdvances

\* The two ends of the channel together implement the abstract channel: every
\* step is a write, the delivery of the oldest message not yet delivered, or
\* invisible.
THEOREM ImplementsFifo == ASSUME OrderedData PROVE Spec => FifoSafe
<1>1. Init => Fifo!FInit
  BY DEF Init, Fifo!FInit
<1>2. IInv' => NumbersOK'
  BY Numbers, PTL
<1>3. IInv /\ IInv' /\ [Next]_vars => [Fifo!FNext]_(Fifo!fvars)
  <2> SUFFICES ASSUME IInv, IInv', [Next]_vars PROVE [Fifo!FNext]_(Fifo!fvars)
    OBVIOUS
  <2>1. CASE UNCHANGED <<nwritten, delivered>>
    BY <2>1 DEF Fifo!fvars
  <2>2. CASE nwritten' = nwritten + 1 /\ UNCHANGED <<delivered, icseq>>
    BY <2>2 DEF Fifo!FNext, Fifo!FWrite
  <2>3. CASE UNCHANGED nwritten /\ \E x \in Nat : delivered' = Append(delivered, x)
    <3>1. PICK x \in Nat : delivered' = Append(delivered, x)
      BY <2>3
    <3>2. delivered \in Seq(Nat) /\ Len(delivered) \in Nat
      BY LenProperties DEF IInv, TypeOK
    <3>3. Len(delivered') = Len(delivered) + 1 /\ delivered'[Len(delivered) + 1] = x
      BY <3>1, <3>2, AppendProperties
    <3>4. delivered'[Len(delivered) + 1] = SeqStart + (Len(delivered) + 1) - 1
      <4>1. Len(delivered) + 1 \in 1 .. Len(delivered')
        BY <3>2, <3>3
      <4>2. InOrder'
        BY DEF IInv, ReceiverInv
      <4> QED
        BY <4>1, <4>2 DEF InOrder
    <3>5. x = SeqStart + Len(delivered)
      BY <3>2, <3>3, <3>4, Constants
    <3>6. Expected' <= nwritten' /\ Expected' = SeqStart + Len(delivered')
      <4>1. NumbersOK'
        BY <1>2
      <4>2. /\ Expected' \in Nat /\ Unsent' \in Nat /\ nwritten' \in Nat
            /\ Expected' <= Unsent' /\ Unsent' <= nwritten'
        BY <4>1 DEF NumbersOK
      <4> QED
        BY <4>2, LeqTransitive DEF Expected
    <3>7. SeqStart + Len(delivered) < nwritten
      <4>1. nwritten \in Nat
        BY DEF IInv, TypeOK
      <4> QED
        BY <2>3, <3>2, <3>3, <3>6, <4>1, Constants
    <3> QED
      BY <2>3, <3>1, <3>5, <3>7 DEF Fifo!FNext, Fifo!FDeliver
  <2> QED
    BY <2>1, <2>2, <2>3, StepKinds
<1> QED
  BY <1>1, <1>3, Invariance, PTL DEF Spec, FifoSafe, Fifo!FSafe

-----------------------------------------------------------------------------
(* A full window is not empty: an acknowledgement can always end the       *)
(* refusal of writes.                                                      *)

\* Every message the application writes fits an empty window.
MessagesFit == \A sz \in Sizes : sz + 2 * SizePrefix <= XMITW_BYTES

LEMMA BytesOfNone == Bytes(<< >>, SizePrefix) = 0
<1> DEFINE none == << >>
           Step(f) == [k \in 0 .. Len(none) |->
                          IF k = 0 THEN 0 ELSE f[k - 1] + SizePrefix + none[k].len]
           taken == CHOOSE f : f = Step(f)
<1>1. Len(none) = 0
  OBVIOUS
<1>2. Bytes(none, SizePrefix) = taken[Len(none)]
  BY DEF Bytes
<1> HIDE DEF none
<1>3. PICK g : g = [k \in 0 .. 0 |-> 0]
  OBVIOUS
<1>4. g = Step(g)
  BY <1>1, <1>3
<1>5. taken = Step(taken)
  <2> HIDE DEF Step
  <2> QED
    BY <1>4
<1> HIDE DEF taken
<1>6. taken[Len(none)] = 0
  BY <1>1, <1>5
<1> QED
  BY <1>2, <1>6 DEF none

\* zhe_xmitw_hasspace refuses nothing while the window is empty.
LEMMA EmptyHasSpace ==
    ASSUME MessagesFit, NEW sz \in Sizes, win = << >>
    PROVE  zhe_xmitw_hasspace(sz)
<1>1. Len(win) = 0 /\ XMITW_SAMPLES # 0
  BY Constants DEF W
<1>2. sz \in Nat /\ sz + 2 * SizePrefix <= XMITW_BYTES /\ XMITW_BYTES \in Nat
  BY ChannelAssumption DEF MessagesFit
<1>3. zhe_xmitw_bytesavail(win) = XMITW_BYTES - 0 - 2
  BY BytesOfNone DEF zhe_xmitw_bytesavail, SizePrefix
<1> QED
  BY <1>1, <1>2, <1>3 DEF zhe_xmitw_hasspace, SizePrefix

\* An acknowledgement that leaves the window draining leaves it non-empty.
LEMMA AckedDraining ==
    ASSUME IInv, NEW m \in AckMsg, AckOK(m, Expected, nwritten), ~Unavailable(m.seq),
           remove_acked_messages(m.seq), nwritten' = nwritten
    PROVE  DrainingAwaitsAcks'
<1> SUFFICES ASSUME draining_window', win' = << >> PROVE FALSE
  BY DEF DrainingAwaitsAcks
<1>1. Base' = m.n
  BY RemoveAcked
<1>2. Len(win') = 0 /\ nwritten \in Nat
  BY DEF IInv, TypeOK
<1>3. m.n = nwritten
  BY <1>1, <1>2 DEF Base
<1>4. seq = m.seq
  BY <1>3 DEF AckOK, IInv, SenderInv
<1> QED
  BY <1>4 DEF remove_acked_messages, StillDraining

LEMMA DrainingStep ==
    ASSUME MessagesFit, IInv, DrainingAwaitsAcks, [Next]_vars
    PROVE  DrainingAwaitsAcks'
<1>1. ASSUME NEW sz \in Sizes, Write(sz) PROVE DrainingAwaitsAcks'
  BY <1>1, Zenon DEF Write, DrainingAwaitsAcks
<1>2. ASSUME NEW sz \in Sizes, HitFullWindow(sz) PROVE DrainingAwaitsAcks'
  <2>1. win # << >> /\ win' = win
    BY <1>2, EmptyHasSpace DEF HitFullWindow
  <2> QED
    BY <2>1 DEF DrainingAwaitsAcks
<1>3. ASSUME UNCHANGED ocvars PROVE DrainingAwaitsAcks'
  BY <1>3 DEF ocvars, DrainingAwaitsAcks
<1>4. CASE Housekeeping
  BY <1>3, <1>4 DEF Housekeeping, SynchDue
<1>5. ASSUME NEW i \in Arrivals("data", data),
             (\E accept \in BOOLEAN : RecvData(i, accept)) \/ RecvSynch(i)
      PROVE  DrainingAwaitsAcks'
  BY <1>3, <1>5 DEF RecvData, RecvSynch
<1>6. ASSUME NEW i \in Arrivals("ack", acks), RecvAcknack(i) PROVE DrainingAwaitsAcks'
  <2>1. i \in 1 .. Len(acks) /\ acks \in Seq(AckMsg)
    BY DEF Arrivals, IInv, TypeOK
  <2>2. acks[i] \in AckMsg /\ AckOK(acks[i], Expected, nwritten)
    BY <2>1, ElementOfSeq DEF IInv, AckInv
  <2>3. nwritten' = nwritten
    BY <1>6 DEF RecvAcknack
  <2>4. CASE AnswerWithSynch(acks[i])
    BY <1>3, <2>4 DEF AnswerWithSynch
  <2>5. CASE AcceptAck(acks[i])
    BY <2>2, <2>3, <2>5, AckedDraining DEF AcceptAck
  <2>6. CASE Retransmit(acks[i])
    BY <2>2, <2>3, <2>6, AckedDraining DEF Retransmit
  <2> QED
    BY <1>6, <2>4, <2>5, <2>6 DEF RecvAcknack
<1>7. CASE LoseData \/ LoseAck \/ TsynchAges \/ RexmitAges \/ TackAges
  BY <1>3, <1>7 DEF LoseData, LoseAck, TsynchAges, RexmitAges, TackAges, ocvars,
                    DrainingAwaitsAcks
<1>8. CASE UNCHANGED vars
  BY <1>3, <1>8 DEF vars
<1> QED
  BY <1>1, <1>2, <1>4, <1>5, <1>6, <1>7, <1>8 DEF Next

\* While zhe_write refuses messages because the window was full, some message
\* is unacknowledged: the flag set by zhe_oc_hit_full_window never outlives the
\* messages whose acknowledgement clears it.  A message too large for an empty
\* window is outside this: the code would wait for an ACK that cannot come.
THEOREM FullWindowAwaitsAcks ==
    ASSUME OrderedData, MessagesFit PROVE Spec => []DrainingAwaitsAcks
<1>1. Init => DrainingAwaitsAcks
  BY DEF Init, DrainingAwaitsAcks
<1>2. IInv /\ DrainingAwaitsAcks /\ [Next]_vars => DrainingAwaitsAcks'
  BY DrainingStep
<1> QED
  BY <1>1, <1>2, Invariance, PTL DEF Spec

=============================================================================
