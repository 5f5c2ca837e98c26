----------------------- MODULE TransmitWindowProofs -----------------------
(***************************************************************************)
(* The transmit window loses no space and no message: what is stored and   *)
(* not acknowledged can be read back as it was written, and the space that *)
(* is left is what it leaves, for every size of the buffer, the index and  *)
(* the messages, and every number of writes.                               *)
(*                                                                         *)
(* The theorems assume that the sum of two positions fits in xwpos_t: the  *)
(* type is chosen for a position only, and a larger window breaks them.    *)
(*                                                                         *)
(* The inductive invariant lays the messages out from the oldest one on:   *)
(* the n-th starts at an offset from firstpos that is the sum of the sizes *)
(* before it, and the offsets stay below the size of the buffer.           *)
(***************************************************************************)
EXTENDS TransmitWindow, SeqNumProofs, SequenceTheorems, WellFoundedInduction, TLAPS

\* the place in the buffer at offset a from position f
Slot(f, a) == IF f + a >= WB THEN f + a - WB ELSE f + a

Bytes == 0 .. ByteSpace - 1
Places == 0 .. WB - 1
Messages == [n : Nat, len : Sizes]

\* sz and its bytes are at offset a
Holds(buf, f, a, m) ==
    /\ buf[Slot(f, a)] = m.len % ByteSpace
    /\ buf[Slot(f, a + 1)] = m.len \div ByteSpace
    /\ \A i \in 1 .. m.len : buf[Slot(f, a + SizePrefix + i - 1)] = Contents(m.n, m.len)[i]

\* where the messages are
Layout(off) ==
    LET n == Len(held)
    IN  /\ off \in [0 .. n -> Nat]
        /\ off[0] = 0
        /\ \A k \in 1 .. n : off[k] = off[k - 1] + SizePrefix + held[k].len
        /\ \A i, k \in 0 .. n : i <= k => off[i] <= off[k]
        /\ off[n] + SizePrefix <= WB
        /\ spos = Slot(firstpos, off[n])
        /\ pos = Slot(firstpos, off[n] + SizePrefix)
        /\ \A k \in 1 .. n : Holds(rbuf, firstpos, off[k - 1], held[k])
        /\ SampleIndex =>
             \A k \in 0 .. n - 1 : rbufidx[xmitw_addindices(firstidx, k)] = Slot(firstpos, off[k])

Types ==
    /\ rbuf \in [Places -> Bytes]
    /\ firstpos \in Places
    /\ rbufidx \in [0 .. xmitw_samples - 1 -> Places]
    /\ firstidx \in 0 .. xmitw_samples - 1
    /\ seq \in Seqnums /\ seqbase \in Seqnums
    /\ nstored \in 0 .. MaxWrites
    /\ held \in Seq(Messages)
    /\ Len(held) <= xmitw_samples
    /\ seq_sub(seq, seqbase) = Len(held)

WinInv == Types /\ \E off : Layout(off)

\* The sum of two positions fits in xwpos_t.
SumsFit == 2 * WB <= PosSpace

-----------------------------------------------------------------------------
(* Arithmetic. *)

LEMMA Consts ==
  /\ WB \in Nat /\ WB > 2 /\ SizePrefix = 2 /\ PosSpace \in Nat /\ WB < PosSpace
  /\ ByteSpace \in Nat /\ ByteSpace > 0
  /\ xmitw_samples \in Nat /\ xmitw_samples >= 1 /\ xmitw_samples < HalfSpace /\ HalfSpace \in Nat
  /\ SampleIndex \in BOOLEAN /\ MaxWrites \in Nat
BY WindowAssumption, HalfSpaceAssumption DEF SizePrefix

LEMMA DivModOf ==
  ASSUME NEW x \in Nat, NEW n \in Nat, n > 0
  PROVE  /\ x % n \in 0 .. n - 1 /\ x \div n \in Nat
         /\ x = (x \div n) * n + (x % n)
OBVIOUS

LEMMA SmallMod ==
  ASSUME NEW n \in Nat, n > 0, NEW x \in 0 .. n - 1
  PROVE  x % n = x
<1>1. x % n \in 0 .. n - 1 /\ x \div n \in Nat /\ x = (x \div n) * n + (x % n)
  BY DivModOf
<1> DEFINE q == x \div n
           r == x % n
<1>2. q \in Nat /\ r \in 0 .. n - 1 /\ x = q * n + r
  BY <1>1
<1> HIDE DEF q, r
<1>3. q = 0
  <2> SUFFICES ASSUME q >= 1 PROVE FALSE
    BY <1>2
  <2>1. q * n >= n
    BY <1>2
  <2> QED
    BY <1>2, <2>1
<1> QED
  BY <1>2, <1>3 DEF r

LEMMA WrapMod ==
  ASSUME NEW n \in Nat, n > 0, NEW x \in n .. 2 * n - 1
  PROVE  x % n = x - n
<1>1. x % n \in 0 .. n - 1 /\ x \div n \in Nat /\ x = (x \div n) * n + (x % n)
  BY DivModOf
<1> DEFINE q == x \div n
           r == x % n
<1>2. q \in Nat /\ r \in 0 .. n - 1 /\ x = q * n + r
  BY <1>1
<1> HIDE DEF q, r
<1>3. q = 1
  <2>1. CASE q = 0
    BY <1>2, <2>1
  <2>2. CASE q >= 2
    <3>1. q * n >= 2 * n
      BY <1>2, <2>2
    <3> QED
      BY <1>2, <3>1
  <2> QED
    BY <1>2, <2>1, <2>2
<1> QED
  BY <1>2, <1>3 DEF r

LEMMA HighByte ==
  ASSUME NEW x \in 0 .. WB
  PROVE  x % ByteSpace \in Bytes /\ x \div ByteSpace \in Bytes
         /\ x = (x % ByteSpace) + ByteSpace * (x \div ByteSpace)
<1>1. x \in Nat /\ x < ByteSpace * ByteSpace /\ ByteSpace \in Nat /\ ByteSpace > 0
  BY WindowAssumption
<1> DEFINE q == x \div ByteSpace
           r == x % ByteSpace
<1>2. r \in 0 .. ByteSpace - 1 /\ q \in Nat /\ x = q * ByteSpace + r
  BY <1>1, DivModOf
<1> HIDE DEF q, r
<1>3. q < ByteSpace
  <2> SUFFICES ASSUME q >= ByteSpace PROVE FALSE
    BY <1>1, <1>2
  <2>1. q * ByteSpace >= ByteSpace * ByteSpace
    BY <1>1, <1>2
  <2> QED
    BY <1>1, <1>2, <2>1
<1>4. q * ByteSpace = ByteSpace * q
  BY <1>1, <1>2
<1>5. q \in Bytes /\ r \in Bytes /\ x = r + ByteSpace * q
  BY <1>1, <1>2, <1>3, <1>4 DEF Bytes
<1> QED
  BY <1>5 DEF q, r

-----------------------------------------------------------------------------
(* Places. *)

LEMMA SlotIs ==
  ASSUME NEW f \in Places, NEW a \in 0 .. WB
  PROVE  Slot(f, a) \in Places
BY Consts DEF Slot, Places

LEMMA SlotsDiffer ==
  ASSUME NEW f \in Places, NEW a \in 0 .. WB - 1, NEW b \in 0 .. WB - 1, Slot(f, a) = Slot(f, b)
  PROVE  a = b
BY Consts DEF Slot, Places

LEMMA SlotPlus ==
  ASSUME NEW f \in Places, NEW a \in Nat, NEW b \in Nat, a + b <= WB
  PROVE  Slot(Slot(f, a), b) = Slot(f, a + b)
BY Consts DEF Slot, Places

LEMMA PosAdd ==
  ASSUME SumsFit, NEW p \in Places, NEW a \in 0 .. WB
  PROVE  xmitw_pos_add(p, a) = Slot(p, a)
<1>1. p + a \in 0 .. PosSpace - 1
  BY Consts DEF SumsFit, Places
<1> DEFINE m == (p + a) % PosSpace
<1>2. m = p + a
  BY <1>1, Consts, SmallMod
<1>3. xmitw_pos_add(p, a) = IF m >= WB THEN m - WB ELSE m
  BY DEF xmitw_pos_add
<1> HIDE DEF m
<1>4. xmitw_pos_add(p, a) = IF p + a >= WB THEN p + a - WB ELSE p + a
  <2>1. p \in Int /\ a \in Int /\ WB \in Int
    BY Consts DEF Places
  <2> QED
    BY <1>2, <1>3, <2>1
<1> QED
  BY <1>4 DEF Slot

LEMMA EndIs ==
  ASSUME NEW p \in Places, NEW n \in 0 .. WB
  PROVE  EndOfCopy(p, n) = Slot(p, n)
BY Consts DEF EndOfCopy, Slot, Places

\* A copy from offset a on changes the places from there on and no other.
CopiedTo(r, buf, f, a, bytes) ==
    /\ r \in [Places -> Bytes]
    /\ \A i \in 1 .. Len(bytes) : r[Slot(f, a + i - 1)] = bytes[i]
    /\ \A x \in Places : x < a \/ x >= a + Len(bytes) => r[Slot(f, x)] = buf[Slot(f, x)]

LEMMA CopyIs ==
  ASSUME NEW buf \in [Places -> Bytes], NEW f \in Places, NEW a \in 0 .. WB - 1,
         NEW bytes \in Seq(Bytes), a + Len(bytes) <= WB
  PROVE  CopiedTo(CopyTo(buf, Slot(f, a), bytes), buf, f, a, bytes)
<1> DEFINE n == Len(bytes)
           p == Slot(f, a)
           r == CopyTo(buf, p, bytes)
<1>1. n \in Nat /\ \A i \in 1 .. n : bytes[i] \in Bytes
  BY LenProperties
<1>2. p \in Places /\ a \in 0 .. WB
  BY Consts, SlotIs
<1>3. r = [i \in Places |-> IF i >= p /\ i - p < n THEN bytes[i - p + 1]
                            ELSE IF i < n - (WB - p) THEN bytes[i + (WB - p) + 1]
                            ELSE buf[i]]
  BY DEF CopyTo, Places
<1>4. p = IF f + a >= WB THEN f + a - WB ELSE f + a
  BY DEF Slot
<1> HIDE DEF n, p, r
<1>5. r \in [Places -> Bytes]
  <2> SUFFICES ASSUME NEW i \in Places
               PROVE  (IF i >= p /\ i - p < n THEN bytes[i - p + 1]
                       ELSE IF i < n - (WB - p) THEN bytes[i + (WB - p) + 1]
                       ELSE buf[i]) \in Bytes
    BY <1>3
  <2>1. CASE i >= p /\ i - p < n
    <3>1. i - p + 1 \in 1 .. n
      BY <1>1, <1>2, <2>1, Consts DEF Places
    <3> QED
      BY <1>1, <2>1, <3>1
  <2>2. CASE ~ (i >= p /\ i - p < n) /\ i < n - (WB - p)
    <3>1. i + (WB - p) + 1 \in 1 .. n
      BY <1>1, <1>2, <2>2, Consts DEF Places
    <3> QED
      BY <1>1, <2>2, <3>1
  <2>3. CASE ~ (i >= p /\ i - p < n) /\ ~ (i < n - (WB - p))
    BY <2>3
  <2> QED
    BY <2>1, <2>2, <2>3
<1>6. ASSUME NEW i \in 1 .. n PROVE r[Slot(f, a + i - 1)] = bytes[i]
  <2> DEFINE x == Slot(f, a + i - 1)
  <2>1. x = IF f + a + i - 1 >= WB THEN f + a + i - 1 - WB ELSE f + a + i - 1
    BY <1>1, Consts DEF Slot, Places
  <2> HIDE DEF x
  <2>2. i \in Nat /\ i >= 1 /\ i <= n /\ a \in Nat /\ f \in Nat /\ a < WB /\ f < WB /\ a + n <= WB /\ WB \in Nat
    BY <1>1, Consts DEF Places, n
  <2>3. x \in Places
    <3>1. n \in Nat
      BY <1>1
    <3>2. CASE f + a + i - 1 >= WB
      BY <2>1, <2>2, <3>1, <3>2 DEF Places
    <3>3. CASE ~ (f + a + i - 1 >= WB)
      BY <2>1, <2>2, <3>1, <3>3 DEF Places
    <3> QED
      BY <3>2, <3>3
  <2>4. CASE x >= p /\ x - p < n
    <3>1. x - p + 1 = i
      BY <1>1, <1>4, <2>1, <2>2, <2>4
    <3> QED
      BY <1>3, <2>3, <2>4, <3>1 DEF x
  <2>5. CASE ~ (x >= p /\ x - p < n)
    <3>1. x < n - (WB - p) /\ x + (WB - p) + 1 = i
      BY <1>1, <1>4, <2>1, <2>2, <2>5
    <3> QED
      BY <1>3, <2>3, <2>5, <3>1 DEF x
  <2> QED
    BY <2>4, <2>5
<1>7. ASSUME NEW x \in Places, x < a \/ x >= a + n PROVE r[Slot(f, x)] = buf[Slot(f, x)]
  <2> DEFINE y == Slot(f, x)
  <2>1. y = IF f + x >= WB THEN f + x - WB ELSE f + x
    BY DEF Slot
  <2> HIDE DEF y
  <2>2. a \in Nat /\ f \in Nat /\ x \in Nat /\ a < WB /\ f < WB /\ x < WB /\ a + n <= WB /\ WB \in Nat
    BY Consts DEF Places, n
  <2>3. y \in Places
    BY <2>1, <2>2 DEF Places
  <2>4. ~ (y >= p /\ y - p < n) /\ ~ (y < n - (WB - p))
    BY <1>1, <1>4, <1>7, <2>1, <2>2
  <2> QED
    BY <1>3, <2>3, <2>4 DEF y
<1> QED
  BY <1>5, <1>6, <1>7 DEF n, p, r, CopiedTo

-----------------------------------------------------------------------------
(* Sequence numbers and indices. *)

LEMMA SpaceIs == SeqSpace = 2 * HalfSpace /\ SeqSpace \in Nat /\ SeqSpace > 0 /\ HalfSpace > 0
BY Consts DEF SeqSpace

LEMMA SubIs ==
  ASSUME NEW a \in Seqnums, NEW b \in Seqnums
  PROVE  seq_sub(a, b) = IF a >= b THEN a - b ELSE a - b + SeqSpace
<1>1. a \in Int /\ b \in Int /\ a >= 0 /\ b >= 0 /\ a < SeqSpace /\ b < SeqSpace /\ SeqSpace \in Nat
  BY SpaceIs DEF Seqnums
<1>2. a >= b => a - b \in 0 .. (SeqSpace - 1)
  BY <1>1
<1>3. ~ (a >= b) => a - b \in (-SeqSpace) .. (-1)
  BY <1>1
<1>4. a - b \in Int
  BY <1>1
<1> QED
  BY <1>2, <1>3, <1>4, SmallDifference DEF seq_sub

LEMMA AddIs ==
  ASSUME NEW a \in Seqnums, NEW k \in 0 .. SeqSpace - 1
  PROVE  seq_add(a, k) = IF a + k < SeqSpace THEN a + k ELSE a + k - SeqSpace
<1>1. a \in Int /\ k \in Int /\ a >= 0 /\ k >= 0 /\ a < SeqSpace /\ k < SeqSpace /\ SeqSpace \in Nat /\ SeqSpace > 0
  BY SpaceIs DEF Seqnums
<1>2. CASE a + k < SeqSpace
  <2>1. a + k \in 0 .. SeqSpace - 1
    BY <1>1, <1>2
  <2> QED
    BY <1>1, <1>2, <2>1, SmallMod DEF seq_add
<1>3. CASE ~ (a + k < SeqSpace)
  <2>1. a + k \in SeqSpace .. 2 * SeqSpace - 1
    BY <1>1, <1>3
  <2> QED
    BY <1>1, <1>3, <2>1, WrapMod DEF seq_add
<1> QED
  BY <1>2, <1>3

\* the number k after b is k away from it
LEMMA AddSub ==
  ASSUME NEW b \in Seqnums, NEW k \in 0 .. SeqSpace - 1
  PROVE  seq_add(b, k) \in Seqnums /\ seq_sub(seq_add(b, k), b) = k
<1>1. b \in Int /\ k \in Int /\ b >= 0 /\ k >= 0 /\ b < SeqSpace /\ k < SeqSpace /\ SeqSpace \in Nat
  BY SpaceIs DEF Seqnums
<1>2. seq_add(b, k) = IF b + k < SeqSpace THEN b + k ELSE b + k - SeqSpace
  BY AddIs
<1>3. seq_add(b, k) \in Seqnums
  BY <1>1, <1>2 DEF Seqnums
<1>4. seq_sub(seq_add(b, k), b) = IF seq_add(b, k) >= b THEN seq_add(b, k) - b ELSE seq_add(b, k) - b + SeqSpace
  BY <1>3, SubIs
<1> QED
  BY <1>1, <1>2, <1>3, <1>4

LEMMA NextSeq ==
  ASSUME NEW a \in Seqnums, NEW b \in Seqnums, seq_sub(a, b) < xmitw_samples
  PROVE  seq_add(a, 1) \in Seqnums /\ seq_sub(seq_add(a, 1), b) = seq_sub(a, b) + 1
<1>1. a \in Int /\ b \in Int /\ a >= 0 /\ b >= 0 /\ a < SeqSpace /\ b < SeqSpace /\ SeqSpace \in Nat
      /\ SeqSpace = 2 * HalfSpace /\ xmitw_samples < HalfSpace /\ HalfSpace \in Nat /\ xmitw_samples \in Nat
  BY SpaceIs, Consts DEF Seqnums
<1>2. 1 \in 0 .. SeqSpace - 1
  BY <1>1
<1>3. seq_add(a, 1) = IF a + 1 < SeqSpace THEN a + 1 ELSE a + 1 - SeqSpace
  BY <1>2, AddIs
<1>4. seq_add(a, 1) \in Seqnums
  BY <1>2, AddSub
<1>5. seq_sub(seq_add(a, 1), b) = IF seq_add(a, 1) >= b THEN seq_add(a, 1) - b ELSE seq_add(a, 1) - b + SeqSpace
  BY <1>4, SubIs
<1>6. seq_sub(a, b) = IF a >= b THEN a - b ELSE a - b + SeqSpace
  BY SubIs
<1> QED
  BY <1>1, <1>3, <1>4, <1>5, <1>6

\* an acknowledgement that is let through acknowledges messages that are there
LEMMA AckIs ==
  ASSUME NEW a \in Seqnums, NEW b \in Seqnums, NEW s \in Seqnums,
         seq_sub(a, b) <= xmitw_samples, ~ zhe_seq_lt(a, s), zhe_seq_lt(b, s)
  PROVE  /\ seq_sub(s, b) \in 1 .. seq_sub(a, b)
         /\ seq_sub(a, s) = seq_sub(a, b) - seq_sub(s, b)
         /\ s = a <=> seq_sub(s, b) = seq_sub(a, b)
<1>1. /\ a \in Int /\ b \in Int /\ a >= 0 /\ b >= 0 /\ a < SeqSpace /\ b < SeqSpace /\ SeqSpace \in Nat
      /\ s \in Int /\ s >= 0 /\ s < SeqSpace
      /\ SeqSpace = 2 * HalfSpace /\ xmitw_samples < HalfSpace /\ HalfSpace \in Nat /\ xmitw_samples \in Nat
  BY SpaceIs, Consts DEF Seqnums
<1>2. /\ seq_sub(a, b) = IF a >= b THEN a - b ELSE a - b + SeqSpace
      /\ seq_sub(s, b) = IF s >= b THEN s - b ELSE s - b + SeqSpace
      /\ seq_sub(a, s) = IF a >= s THEN a - s ELSE a - s + SeqSpace
      /\ seq_sub(b, s) = IF b >= s THEN b - s ELSE b - s + SeqSpace
  BY SubIs
<1>3. ~ (seq_sub(a, s) >= HalfSpace) /\ seq_sub(b, s) >= HalfSpace
  BY DEF zhe_seq_lt
<1> DEFINE ab == seq_sub(a, b)
           sb == seq_sub(s, b)
           as == seq_sub(a, s)
           bs == seq_sub(b, s)
<1>4. /\ ab = IF a >= b THEN a - b ELSE a - b + SeqSpace
      /\ sb = IF s >= b THEN s - b ELSE s - b + SeqSpace
      /\ as = IF a >= s THEN a - s ELSE a - s + SeqSpace
      /\ bs = IF b >= s THEN b - s ELSE b - s + SeqSpace
      /\ ~ (as >= HalfSpace) /\ bs >= HalfSpace /\ ab <= xmitw_samples
  BY <1>2, <1>3
<1> HIDE DEF ab, sb, as, bs
<1>5. sb \in 1 .. ab /\ as = ab - sb /\ (s = a <=> sb = ab)
  BY <1>1, <1>4
<1> QED
  BY <1>5 DEF ab, sb, as

LEMMA IndexIs ==
  ASSUME NEW f \in 0 .. xmitw_samples - 1, NEW j \in 0 .. xmitw_samples
  PROVE  xmitw_addindices(f, j) \in 0 .. xmitw_samples - 1
BY Consts DEF xmitw_addindices

LEMMA IndicesDiffer ==
  ASSUME NEW f \in 0 .. xmitw_samples - 1, NEW j \in 0 .. xmitw_samples - 1, NEW k \in 0 .. xmitw_samples - 1,
         xmitw_addindices(f, j) = xmitw_addindices(f, k)
  PROVE  j = k
BY Consts DEF xmitw_addindices

LEMMA IndexPlus ==
  ASSUME NEW f \in 0 .. xmitw_samples - 1, NEW j \in Nat, NEW k \in Nat, j + k < xmitw_samples
  PROVE  xmitw_addindices(xmitw_addindices(f, j), k) = xmitw_addindices(f, j + k)
BY Consts DEF xmitw_addindices

-----------------------------------------------------------------------------
(* Walking the window. *)

LEMMA MessageIs ==
  ASSUME NEW m \in Messages
  PROVE  m.n \in Nat /\ m.len \in Nat /\ m.len > 0
<1>1. Sizes \subseteq Nat \ {0}
  BY WindowAssumption
<1>2. m.len \in Sizes /\ m.n \in Nat
  BY DEF Messages
<1>3. m.len \in Nat \ {0}
  BY <1>1, <1>2
<1> QED
  BY <1>2, <1>3

LEMMA LoadIs ==
  ASSUME Types, NEW a \in Nat, NEW m \in Messages, Holds(rbuf, firstpos, a, m),
         a + SizePrefix + m.len <= WB
  PROVE  xmitw_load_msgsize(Slot(firstpos, a)) = m.len
<1>1. m.len \in Nat /\ m.len \in 0 .. WB /\ a \in 0 .. WB /\ a + 1 <= WB
  BY Consts, MessageIs
<1>2. firstpos \in Places
  BY DEF Types
<1>3. Slot(firstpos, a) \in Places /\ Slot(Slot(firstpos, a), 1) = Slot(firstpos, a + 1)
  BY <1>1, <1>2, SlotIs, SlotPlus
<1> DEFINE p == Slot(firstpos, a)
<1> HIDE DEF p
<1>4. (IF p + 1 < WB THEN p + 1 ELSE 0) = Slot(p, 1)
  BY <1>3, Consts DEF p, Slot, Places
<1>5. xmitw_load_msgsize(p) = rbuf[p] + ByteSpace * rbuf[Slot(p, 1)]
  BY <1>4 DEF xmitw_load_msgsize
<1>6. rbuf[p] = m.len % ByteSpace /\ rbuf[Slot(p, 1)] = m.len \div ByteSpace
  BY <1>3 DEF Holds, p
<1>7. xmitw_load_msgsize(p) = (m.len % ByteSpace) + ByteSpace * (m.len \div ByteSpace)
  BY <1>5, <1>6
<1> QED
  BY <1>1, <1>7, HighByte DEF p

\* facts of a layout
LEMMA LayoutHas ==
  ASSUME Types, NEW off, Layout(off)
  PROVE  /\ Len(held) \in Nat /\ \A k \in 1 .. Len(held) : held[k] \in Messages /\ held[k].len \in Nat /\ held[k].len > 0
         /\ \A k \in 0 .. Len(held) : off[k] \in Nat /\ off[k] <= off[Len(held)] /\ off[k] + SizePrefix <= WB
         /\ \A k \in 1 .. Len(held) : /\ k - 1 \in 0 .. Len(held) /\ k \in 0 .. Len(held)
                                      /\ off[k] = off[k - 1] + SizePrefix + held[k].len
                                      /\ Holds(rbuf, firstpos, off[k - 1], held[k])
<1> DEFINE n == Len(held)
<1>1. n \in Nat /\ \A k \in 1 .. n : held[k] \in Messages
  BY LenProperties DEF Types
<1>2. \A k \in 1 .. n : held[k].len \in Nat /\ held[k].len > 0
  BY <1>1, MessageIs
<1>3. /\ off \in [0 .. n -> Nat]
      /\ \A i, k \in 0 .. n : i <= k => off[i] <= off[k]
      /\ off[n] + SizePrefix <= WB
      /\ \A k \in 1 .. n : off[k] = off[k - 1] + SizePrefix + held[k].len
      /\ \A k \in 1 .. n : Holds(rbuf, firstpos, off[k - 1], held[k])
  BY DEF Layout
<1> HIDE DEF n
<1>4. \A k \in 1 .. n : k - 1 \in 0 .. n /\ k \in 0 .. n
  BY <1>1
<1>5. \A k \in 0 .. n : off[k] \in Nat /\ off[k] <= off[n] /\ off[k] + SizePrefix <= WB
  <2> SUFFICES ASSUME NEW k \in 0 .. n PROVE off[k] \in Nat /\ off[k] <= off[n] /\ off[k] + SizePrefix <= WB
    OBVIOUS
  <2>1. n \in 0 .. n /\ k <= n
    BY <1>1
  <2>2. off[k] \in Nat /\ off[n] \in Nat /\ off[k] <= off[n]
    BY <1>3, <2>1
  <2> QED
    BY <1>3, <2>2, Consts
<1> QED
  BY <1>1, <1>2, <1>3, <1>4, <1>5 DEF n

LEMMA SkipIs ==
  ASSUME SumsFit, Types, NEW off, Layout(off), NEW k \in 1 .. Len(held)
  PROVE  xmitw_skip_sample(Slot(firstpos, off[k - 1])) = Slot(firstpos, off[k])
<1>1. /\ held[k] \in Messages /\ held[k].len \in Nat
      /\ off[k - 1] \in Nat /\ off[k] \in Nat
      /\ off[k] + SizePrefix <= WB /\ off[k] = off[k - 1] + SizePrefix + held[k].len
      /\ Holds(rbuf, firstpos, off[k - 1], held[k])
  BY LayoutHas
<1> DEFINE a == off[k - 1]
           l == held[k].len
           b == off[k]
<1>2. a \in Nat /\ l \in Nat /\ a + (SizePrefix + l) <= WB /\ b = a + (SizePrefix + l)
      /\ a \in 0 .. WB /\ SizePrefix + l \in 0 .. WB /\ a + SizePrefix + l <= WB
  <2>1. a \in Nat /\ l \in Nat /\ b \in Nat /\ b + SizePrefix <= WB /\ b = a + SizePrefix + l
    BY <1>1
  <2> HIDE DEF a, l, b
  <2> QED
    BY <2>1, Consts
<1>3. xmitw_load_msgsize(Slot(firstpos, a)) = l
  BY <1>1, <1>2, LoadIs
<1>4. firstpos \in Places
  BY DEF Types
<1> HIDE DEF a, l, b
<1>5. Slot(firstpos, a) \in Places
  BY <1>2, <1>4, SlotIs
<1>6. xmitw_skip_sample(Slot(firstpos, a)) = Slot(Slot(firstpos, a), SizePrefix + l)
  BY <1>2, <1>3, <1>5, PosAdd DEF xmitw_skip_sample
<1>7. SizePrefix + l \in Nat
  BY <1>2, Consts
<1>8. Slot(Slot(firstpos, a), SizePrefix + l) = Slot(firstpos, b)
  BY <1>2, <1>4, <1>7, SlotPlus
<1> QED
  BY <1>6, <1>8 DEF a, b

\* A set of natural numbers that is not empty has a least element.
LEMMA NatHasMin ==
  ASSUME NEW S, S \subseteq Nat, S # {}
  PROVE  \E i \in S : \A j \in S : i <= j
<1> DEFINE R == {ss \in Nat \X Nat : ss[1] < ss[2]}
<1>1. IsWellFoundedOn(R, Nat)
  BY NatLessThanWellFounded DEF OpToRel
<1>2. \A p \in Nat, q \in Nat : <<p, q>> \in R <=> p < q
  OBVIOUS
<1> HIDE DEF R
<1>3. \E x \in S : \A y \in S : ~ (<<y, x>> \in R)
  BY <1>1, WFMin
<1>4. PICK x \in S : \A y \in S : ~ (<<y, x>> \in R)
  BY <1>3
<1>5. ASSUME NEW y \in S PROVE x <= y
  <2>1. x \in Nat /\ y \in Nat
    OBVIOUS
  <2>2. ~ (y < x)
    BY <1>2, <1>4, <2>1
  <2> QED
    BY <2>1, <2>2
<1> QED
  BY <1>5

\* Two functions on 0 .. n that start and go on in the same way are the same.
SameSteps(f, g, n) == f[0] = g[0] /\ \A k \in 1 .. n : f[k - 1] = g[k - 1] => f[k] = g[k]
Same(f, g, n) == \A k \in 0 .. n : f[k] = g[k]

LEMMA SameWalk ==
  ASSUME NEW n \in Nat, NEW f, NEW g, SameSteps(f, g, n)
  PROVE  Same(f, g, n)
<1> USE DEF SameSteps, Same
<1> DEFINE S == {k \in 0 .. n : f[k] # g[k]}
<1> SUFFICES ASSUME S # {} PROVE FALSE
  OBVIOUS
<1>1. S \subseteq Nat
  OBVIOUS
<1>2. PICK k \in S : \A j \in S : k <= j
  BY <1>1, NatHasMin
<1>3. k \in 0 .. n /\ f[k] # g[k]
  OBVIOUS
<1>4. k # 0
  BY <1>3
<1>5. k \in 1 .. n /\ k - 1 \in 0 .. n /\ ~ (k <= k - 1)
  BY <1>3, <1>4
<1>6. k - 1 \notin S
  BY <1>2, <1>5
<1>7. f[k - 1] = g[k - 1]
  BY <1>5, <1>6
<1> QED
  BY <1>3, <1>5, <1>7

\* The walk by the sizes in the buffer ends where the n-th message starts.
LEMMA WalkIs ==
  ASSUME SumsFit, Types, NEW off, Layout(off), NEW n \in 0 .. Len(held)
  PROVE  xmitw_skip_to_seq(firstpos, n) = Slot(firstpos, off[n])
<1> DEFINE Step(f) == [k \in 0 .. n |-> IF k = 0 THEN firstpos ELSE xmitw_skip_sample(f[k - 1])]
           g == [k \in 0 .. n |-> Slot(firstpos, off[k])]
           at == CHOOSE f : f = Step(f)
<1>1. Len(held) \in Nat /\ n \in Nat /\ \A k \in 1 .. n : k \in 1 .. Len(held) /\ k - 1 \in 0 .. n
  <2>1. Len(held) \in Nat
    BY LayoutHas
  <2> QED
    BY <2>1
<1>2. \A k \in 1 .. n : xmitw_skip_sample(g[k - 1]) = Slot(firstpos, off[k])
  BY <1>1, SkipIs
<1>3. firstpos = Slot(firstpos, off[0])
  <2>1. firstpos \in Places /\ off[0] = 0
    BY DEF Types, Layout
  <2> QED
    BY <2>1, Consts DEF Slot, Places
<1>4. g = Step(g)
  <2>1. \A k \in 0 .. n : k = 0 \/ k \in 1 .. n
    BY <1>1
  <2>2. \A k \in 0 .. n : g[k] = IF k = 0 THEN firstpos ELSE xmitw_skip_sample(g[k - 1])
    BY <1>2, <1>3, <2>1
  <2> QED
    BY <2>2
<1>5. at = Step(at)
  <2> HIDE DEF g
  <2> QED
    BY <1>4
<1>6. xmitw_skip_to_seq(firstpos, n) = at[n]
  BY DEF xmitw_skip_to_seq
<1> HIDE DEF at
<1>7. 0 \in 0 .. n /\ n \in 0 .. n /\ \A k \in 1 .. n : k \in 0 .. n /\ k # 0
  BY <1>1
<1>8. at[0] = g[0]
  <2>1. at[0] = firstpos
    BY <1>5, <1>7
  <2> QED
    BY <1>3, <1>7, <2>1
<1>9. \A k \in 1 .. n : at[k - 1] = g[k - 1] => at[k] = g[k]
  <2> SUFFICES ASSUME NEW k \in 1 .. n, at[k - 1] = g[k - 1] PROVE at[k] = g[k]
    OBVIOUS
  <2>1. at[k] = xmitw_skip_sample(at[k - 1])
    BY <1>5, <1>7
  <2>2. g[k] = Slot(firstpos, off[k])
    BY <1>7
  <2> HIDE DEF g
  <2> QED
    BY <1>2, <2>1, <2>2
<1>10. at[n] = g[n]
  <2> HIDE DEF g
  <2>1. SameSteps(at, g, n)
    BY <1>8, <1>9 DEF SameSteps
  <2>2. Same(at, g, n)
    BY <1>1, <2>1, SameWalk
  <2> QED
    BY <1>7, <2>2 DEF Same
<1> QED
  BY <1>6, <1>7, <1>10

-----------------------------------------------------------------------------
(* Storing a message. *)

\* the space that is left
LEMMA AvailIs ==
  ASSUME Types, NEW off, Layout(off)
  PROVE  zhe_xmitw_bytesavail = WB - SizePrefix - off[Len(held)]
<1> DEFINE o == off[Len(held)]
<1>1. o \in Nat /\ o + 2 <= WB /\ pos = Slot(firstpos, o + 2)
  <2>1. Len(held) \in 0 .. Len(held)
    BY LayoutHas
  <2> QED
    BY <2>1, LayoutHas, Consts DEF Layout
<1>2. firstpos \in Nat /\ firstpos < WB
  BY Consts DEF Types, Places
<1> HIDE DEF o
<1>3. pos = IF firstpos + o + 2 >= WB THEN firstpos + o + 2 - WB ELSE firstpos + o + 2
  BY <1>1, <1>2, Consts DEF Slot
<1> DEFINE d == firstpos + (IF firstpos < pos THEN WB ELSE 0) - pos
<1>4. d = WB - 2 - o /\ d \in 0 .. PosSpace - 1
  BY <1>1, <1>2, <1>3, Consts
<1>5. zhe_xmitw_bytesavail = d % PosSpace
  BY DEF zhe_xmitw_bytesavail
<1> HIDE DEF d
<1>6. d % PosSpace = d
  BY <1>4, Consts, SmallMod
<1> QED
  BY <1>4, <1>5, <1>6, Consts DEF o

Kept(buf2, buf, f, o) == \A x \in Places : x < o => buf2[Slot(f, x)] = buf[Slot(f, x)]

LEMMA HoldsKept ==
  ASSUME NEW buf, NEW buf2, NEW f, NEW a \in Nat, NEW o \in Nat, o <= WB, Kept(buf2, buf, f, o),
         NEW m \in Messages, Holds(buf, f, a, m), a + SizePrefix + m.len <= o
  PROVE  Holds(buf2, f, a, m)
<1> DEFINE l == m.len
<1>1. l \in Nat /\ a + 2 + l <= o /\ a + 2 + l <= WB
  BY MessageIs, Consts
<1> HIDE DEF l
<1>2. a \in Places /\ a < o /\ a + 1 \in Places /\ a + 1 < o
  BY <1>1, Consts DEF Places
<1>3. \A i \in 1 .. l : a + SizePrefix + i - 1 \in Places /\ a + SizePrefix + i - 1 < o
  BY <1>1, Consts DEF Places
<1>4. \A i \in 1 .. l : buf2[Slot(f, a + SizePrefix + i - 1)] = buf[Slot(f, a + SizePrefix + i - 1)]
  BY <1>3 DEF Kept
<1> QED
  BY <1>2, <1>4 DEF Kept, Holds, l

LEMMA StoreOK ==
  ASSUME SumsFit, WinInv, NEW len \in Sizes, NEW slack \in 0 .. Slack, Store(len, slack)
  PROVE  WinInv'
<1> PICK off : Layout(off)
  BY DEF WinInv
<1> DEFINE n == Len(held)
           o == off[n]
           C == Contents(nstored, len)
           m == [n |-> nstored, len |-> len]
           after == EndOfCopy(pos, len)
           sz == after - spos + (IF after < spos THEN WB ELSE 0) - SizePrefix
           buf1 == CopyTo(rbuf, pos, C)
           buf2 == xmitw_store_msgsize(buf1, spos, sz)
<1>1. Types
  BY DEF WinInv
<1>2. /\ nstored < MaxWrites
      /\ zhe_xmitw_hasspace(len + slack)
      /\ rbuf' = buf2
      /\ rbufidx' = IF SampleIndex THEN [rbufidx EXCEPT ![IndexOf(seq)] = spos] ELSE rbufidx
      /\ spos' = after /\ pos' = xmitw_pos_add(after, SizePrefix)
      /\ seq' = seq_add(seq, 1) /\ nstored' = nstored + 1
      /\ held' = Append(held, m)
      /\ firstpos' = firstpos /\ firstidx' = firstidx /\ seqbase' = seqbase
  BY DEF Store
<1> HIDE DEF C, m, after, sz, buf1, buf2
<1>3. /\ n \in Nat /\ n <= xmitw_samples /\ n = seq_sub(seq, seqbase) /\ n \in 0 .. n
      /\ held \in Seq(Messages)
      /\ off \in [0 .. n -> Nat] /\ off[0] = 0 /\ o \in Nat
      /\ \A i, k \in 0 .. n : i <= k => off[i] <= off[k]
      /\ spos = Slot(firstpos, o) /\ pos = Slot(firstpos, o + SizePrefix)
      /\ firstpos \in Places /\ nstored \in Nat
  <2>1. n \in Nat
    BY <1>1, LayoutHas
  <2>2. n \in 0 .. n
    BY <2>1
  <2> HIDE DEF n
  <2>3. off \in [0 .. n -> Nat] /\ off[0] = 0 /\ \A i, k \in 0 .. n : i <= k => off[i] <= off[k]
    BY DEF Layout, n
  <2>4. o \in Nat
    BY <2>2, <2>3
  <2> QED
    BY <1>1, <2>1, <2>2, <2>3, <2>4 DEF Types, Layout, n
<1>4. len \in Nat /\ len > 0 /\ m \in Messages /\ m.len = len /\ m.n = nstored
  <2>1. m \in Messages /\ m.len = len /\ m.n = nstored
    BY <1>3 DEF m, Messages
  <2> QED
    BY <2>1, MessageIs
<1>5. n # xmitw_samples /\ n < xmitw_samples
  <2>1. n # xmitw_samples
    BY <1>2, <1>3 DEF zhe_xmitw_hasspace, oc_get_nsamples
  <2> HIDE DEF n
  <2> QED
    BY <1>3, <2>1, Consts
<1>6. o + 4 + len <= WB
  <2>1. zhe_xmitw_bytesavail = WB - SizePrefix - o
    BY <1>1, AvailIs
  <2>2. WB - SizePrefix - o >= SizePrefix + (len + slack)
    BY <1>2, <2>1 DEF zhe_xmitw_hasspace
  <2>3. slack \in Nat
    <3>1. Slack \in Nat
      BY WindowAssumption
    <3> QED
      BY <3>1
  <2> HIDE DEF o, n
  <2> QED
    BY <1>3, <1>4, <2>2, <2>3, Consts
<1> HIDE DEF o
<1>7. after = Slot(firstpos, o + SizePrefix + len) /\ after \in Places
  <2>1. o + SizePrefix \in 0 .. WB /\ len \in 0 .. WB /\ o + SizePrefix \in Nat /\ (o + SizePrefix) + len <= WB
        /\ o + SizePrefix + len \in 0 .. WB
    BY <1>3, <1>4, <1>6, Consts
  <2>2. pos \in Places
    BY <1>3, <2>1, SlotIs
  <2>3. after = Slot(pos, len)
    BY <2>1, <2>2, EndIs DEF after
  <2>4. Slot(pos, len) = Slot(firstpos, (o + SizePrefix) + len)
    BY <1>3, <1>4, <2>1, SlotPlus
  <2> QED
    BY <1>3, <2>1, <2>3, <2>4, SlotIs
<1>8. pos' = Slot(firstpos, (o + SizePrefix + len) + SizePrefix)
  <2>1. SizePrefix \in 0 .. WB /\ SizePrefix \in Nat /\ o + SizePrefix + len \in Nat
        /\ (o + SizePrefix + len) + SizePrefix <= WB
    BY <1>3, <1>4, <1>6, Consts
  <2>2. pos' = Slot(after, SizePrefix)
    BY <1>2, <1>7, <2>1, PosAdd
  <2> QED
    BY <1>3, <1>7, <2>1, <2>2, SlotPlus
<1>9. sz = len
  <2>1. spos = IF firstpos + o >= WB THEN firstpos + o - WB ELSE firstpos + o
    BY <1>3 DEF Slot
  <2>2. after = IF firstpos + o + 2 + len >= WB THEN firstpos + o + 2 + len - WB ELSE firstpos + o + 2 + len
    BY <1>3, <1>4, <1>7, Consts DEF Slot, Places
  <2>3. firstpos \in Nat /\ firstpos < WB
    BY <1>3, Consts DEF Places
  <2> QED
    BY <1>3, <1>4, <1>6, <2>1, <2>2, <2>3, Consts DEF sz
<1>10. C \in Seq(Bytes) /\ Len(C) = len
  <2>1. \A i \in 1 .. len : (nstored + i) % ByteSpace \in Bytes
    <3> SUFFICES ASSUME NEW i \in 1 .. len PROVE (nstored + i) % ByteSpace \in Bytes
      OBVIOUS
    <3>1. nstored + i \in Nat
      BY <1>3, <1>4
    <3> QED
      BY <3>1, Consts, DivModOf DEF Bytes
  <2>2. C \in [1 .. len -> Bytes]
    BY <2>1 DEF C, Contents
  <2> QED
    BY <1>4, <2>2, IsASeq, LenProperties
<1>11. CopiedTo(buf1, rbuf, firstpos, o + SizePrefix, C)
  <2>1. o + SizePrefix \in 0 .. WB - 1 /\ (o + SizePrefix) + Len(C) <= WB
    BY <1>3, <1>4, <1>6, <1>10, Consts
  <2>2. rbuf \in [Places -> Bytes]
    BY <1>1 DEF Types
  <2> QED
    BY <1>3, <1>10, <2>1, <2>2, CopyIs DEF buf1
<1> DEFINE szs == <<len % ByteSpace, len \div ByteSpace>>
<1>12. szs \in Seq(Bytes) /\ Len(szs) = 2 /\ szs[1] = len % ByteSpace /\ szs[2] = len \div ByteSpace
  <2>1. len \in 0 .. WB
    BY <1>3, <1>4, <1>6, Consts
  <2>2. len % ByteSpace \in Bytes /\ len \div ByteSpace \in Bytes
    BY <2>1, HighByte
  <2> QED
    BY <2>2
<1> HIDE DEF szs
<1>13. CopiedTo(buf2, buf1, firstpos, o, szs)
  <2>1. o \in 0 .. WB - 1 /\ o + Len(szs) <= WB
    BY <1>3, <1>4, <1>6, <1>12, Consts
  <2>2. buf1 \in [Places -> Bytes]
    BY <1>11 DEF CopiedTo
  <2>3. buf2 = CopyTo(buf1, Slot(firstpos, o), szs)
    BY <1>3, <1>9 DEF buf2, xmitw_store_msgsize, szs
  <2> QED
    BY <1>3, <1>12, <2>1, <2>2, <2>3, CopyIs
<1>14. buf2 \in [Places -> Bytes]
  BY <1>13 DEF CopiedTo
<1>15. Kept(buf2, rbuf, firstpos, o)
  <2> SUFFICES ASSUME NEW x \in Places, x < o PROVE buf2[Slot(firstpos, x)] = rbuf[Slot(firstpos, x)]
    BY DEF Kept
  <2>1. x < o + SizePrefix
    BY <1>3, Consts DEF Places
  <2> QED
    BY <1>11, <1>13, <2>1 DEF CopiedTo
<1>16. Holds(buf2, firstpos, o, m)
  <2>1. buf2[Slot(firstpos, o)] = len % ByteSpace
    <3>1. o + 1 - 1 = o /\ 1 \in 1 .. Len(szs)
      BY <1>3, <1>12
    <3> QED
      BY <1>12, <1>13, <3>1 DEF CopiedTo
  <2>2. buf2[Slot(firstpos, o + 1)] = len \div ByteSpace
    <3>1. o + 2 - 1 = o + 1 /\ 2 \in 1 .. Len(szs)
      BY <1>3, <1>12
    <3> QED
      BY <1>12, <1>13, <3>1 DEF CopiedTo
  <2>3. ASSUME NEW i \in 1 .. len
        PROVE  buf2[Slot(firstpos, o + SizePrefix + i - 1)] = C[i]
    <3> DEFINE x == o + SizePrefix + i - 1
    <3>1. x \in Places /\ x >= o + Len(szs)
      BY <1>3, <1>4, <1>6, <1>12, Consts DEF Places
    <3>2. buf2[Slot(firstpos, x)] = buf1[Slot(firstpos, x)]
      BY <1>13, <3>1 DEF CopiedTo
    <3>3. buf1[Slot(firstpos, (o + SizePrefix) + i - 1)] = C[i]
      BY <1>10, <1>11 DEF CopiedTo
    <3> QED
      BY <3>2, <3>3
  <2> QED
    BY <1>4, <2>1, <2>2, <2>3 DEF Holds, C
<1>17. /\ held' \in Seq(Messages) /\ Len(held') = n + 1 /\ held'[n + 1] = m
       /\ \A k \in 1 .. n : held'[k] = held[k]
  BY <1>2, <1>3, <1>4, AppendProperties
<1>18. seq' \in Seqnums /\ seq_sub(seq', seqbase') = n + 1
  BY <1>1, <1>2, <1>3, <1>5, NextSeq DEF Types
<1>19. spos \in Places
  <2>1. o \in 0 .. WB
    BY <1>3, <1>4, <1>6, Consts
  <2> QED
    BY <1>3, <2>1, SlotIs
<1>20. IndexOf(seq) = xmitw_addindices(firstidx, n)
  BY <1>3 DEF IndexOf
<1>21. firstidx \in 0 .. xmitw_samples - 1 /\ n \in 0 .. xmitw_samples - 1 /\ n \in 0 .. xmitw_samples
  <2> HIDE DEF n
  <2> QED
    BY <1>1, <1>3, <1>5, Consts DEF Types
<1>22. IndexOf(seq) \in 0 .. xmitw_samples - 1
  BY <1>20, <1>21, IndexIs
<1>23. rbufidx' \in [0 .. xmitw_samples - 1 -> Places]
  BY <1>1, <1>2, <1>19, <1>22 DEF Types
<1>24. Types'
  <2>1. nstored' \in 0 .. MaxWrites
    BY <1>1, <1>2, Consts DEF Types
  <2>2. Len(held') <= xmitw_samples
    <3> HIDE DEF n
    <3> QED
      BY <1>3, <1>5, <1>17, Consts
  <2> QED
    BY <1>1, <1>2, <1>14, <1>17, <1>18, <1>23, <2>1, <2>2 DEF Types
<1> DEFINE o2 == o + SizePrefix + len
           noff == [k \in 0 .. n + 1 |-> IF k = n + 1 THEN o2 ELSE off[k]]
<1>25. o2 \in Nat /\ o <= o2 /\ o2 + SizePrefix <= WB
  BY <1>3, <1>4, <1>6, Consts
<1>26. noff \in [0 .. n + 1 -> Nat] /\ noff[n + 1] = o2 /\ \A k \in 0 .. n : noff[k] = off[k]
  <2> HIDE DEF n, o2
  <2>1. \A k \in 0 .. n + 1 : k # n + 1 => k \in 0 .. n
    BY <1>3
  <2>2. \A k \in 0 .. n : k \in 0 .. n + 1 /\ k # n + 1
    BY <1>3
  <2>3. n + 1 \in 0 .. n + 1
    BY <1>3
  <2> QED
    BY <1>3, <1>25, <2>1, <2>2, <2>3
<1> HIDE DEF noff, o2
<1>27. PICK off2 : off2 = noff
  OBVIOUS
<1>28. Layout(off2)'
  <2> DEFINE n2 == n + 1
  <2>1. Len(held') = n2 /\ n2 \in Nat
    BY <1>3, <1>17
  <2>2. off2 \in [0 .. n2 -> Nat] /\ off2[n2] = o2 /\ \A k \in 0 .. n : off2[k] = off[k]
    BY <1>26, <1>27
  <2>3. off2[0] = 0
    <3>1. 0 \in 0 .. n
      BY <1>3
    <3> QED
      BY <1>3, <2>2, <3>1
  <2>4. \A k \in 1 .. n2 : k = n2 \/ k \in 1 .. n
    <3> HIDE DEF n
    <3> QED
      BY <1>3
  <2>5. \A k \in 1 .. n : k \in 0 .. n /\ k - 1 \in 0 .. n
    <3> HIDE DEF n
    <3> QED
      BY <1>3
  <2>6. off2[n2 - 1] = o /\ n2 - 1 = n
    <3>1. n2 - 1 = n
      <4> HIDE DEF n
      <4> QED
        BY <1>3
    <3> QED
      BY <1>3, <2>2, <3>1 DEF o
  <2>7. ASSUME NEW k \in 1 .. n2
        PROVE  /\ off2[k] = off2[k - 1] + SizePrefix + held'[k].len
               /\ Holds(buf2, firstpos, off2[k - 1], held'[k])
    <3>1. CASE k = n2
      BY <1>4, <1>16, <1>17, <2>2, <2>6, <3>1 DEF o2
    <3>2. CASE k \in 1 .. n
      <4>1. /\ held[k] \in Messages /\ held[k].len \in Nat /\ off[k - 1] \in Nat /\ off[k] \in Nat
            /\ off[k] = off[k - 1] + SizePrefix + held[k].len
            /\ Holds(rbuf, firstpos, off[k - 1], held[k])
            /\ off[k] <= o
        BY <1>1, <2>5, <3>2, LayoutHas DEF o
      <4>2. off[k - 1] + SizePrefix + held[k].len <= o /\ o <= WB
        BY <1>3, <1>4, <1>6, <4>1, Consts
      <4>3. Holds(buf2, firstpos, off[k - 1], held[k])
        BY <1>3, <1>15, <4>1, <4>2, HoldsKept
      <4>4. off2[k] = off[k] /\ off2[k - 1] = off[k - 1] /\ held'[k] = held[k]
        BY <1>17, <2>2, <2>5, <3>2
      <4> QED
        BY <4>1, <4>3, <4>4
    <3> QED
      BY <2>4, <3>1, <3>2
  <2>8. ASSUME NEW i \in 0 .. n2, NEW k \in 0 .. n2, i <= k PROVE off2[i] <= off2[k]
    <3>1. \A j \in 0 .. n2 : j = n2 \/ j \in 0 .. n
      <4> HIDE DEF n
      <4> QED
        BY <1>3
    <3>2. CASE k \in 0 .. n
      <4>1. i \in 0 .. n
        <5> HIDE DEF n
        <5> QED
          BY <1>3, <2>8, <3>2
      <4> QED
        BY <1>3, <2>2, <2>8, <3>2, <4>1
    <3>3. CASE k = n2 /\ i \in 0 .. n
      <4>1. off[i] \in Nat /\ off[i] <= o
        BY <1>1, <3>3, LayoutHas DEF o
      <4> QED
        BY <1>3, <1>25, <2>2, <3>3, <4>1
    <3>4. CASE k = n2 /\ i = n2
      BY <1>25, <2>2, <3>4
    <3> QED
      BY <3>1, <3>2, <3>3, <3>4
  <2>9. spos' = Slot(firstpos, off2[n2]) /\ pos' = Slot(firstpos, off2[n2] + SizePrefix)
    BY <1>2, <1>7, <1>8, <2>2 DEF o2
  <2>10. ASSUME SampleIndex, NEW k \in 0 .. n2 - 1
         PROVE  rbufidx'[xmitw_addindices(firstidx, k)] = Slot(firstpos, off2[k])
    <3>1. rbufidx' = [rbufidx EXCEPT ![IndexOf(seq)] = spos]
      BY <1>2, <2>10
    <3>2. k \in 0 .. n /\ (k = n \/ k \in 0 .. n - 1) /\ k \in 0 .. xmitw_samples - 1 /\ k \in 0 .. xmitw_samples
      <4> HIDE DEF n
      <4> QED
        BY <1>3, <1>5, Consts
    <3>3. off2[k] = off[k]
      BY <2>2, <3>2
    <3>4. CASE k = n
      BY <1>1, <1>3, <1>20, <1>22, <3>1, <3>3, <3>4 DEF Types, o
    <3>5. CASE k \in 0 .. n - 1
      <4>1. k # n
        <5> HIDE DEF n
        <5> QED
          BY <1>3, <3>5
      <4>2. xmitw_addindices(firstidx, k) # IndexOf(seq)
        BY <1>20, <1>21, <3>2, <4>1, IndicesDiffer
      <4>3. xmitw_addindices(firstidx, k) \in 0 .. xmitw_samples - 1
        BY <1>21, <3>2, IndexIs
      <4>4. rbufidx'[xmitw_addindices(firstidx, k)] = rbufidx[xmitw_addindices(firstidx, k)]
        BY <1>1, <3>1, <4>2, <4>3 DEF Types
      <4>5. rbufidx[xmitw_addindices(firstidx, k)] = Slot(firstpos, off[k])
        BY <2>10, <3>5 DEF Layout
      <4> QED
        BY <3>3, <4>4, <4>5
    <3> QED
      BY <3>2, <3>4, <3>5
  <2>11. off2[n2] + SizePrefix <= WB
    BY <1>25, <2>2
  <2> HIDE DEF n2
  <2> QED
    BY <1>2, <2>1, <2>2, <2>3, <2>7, <2>8, <2>9, <2>10, <2>11 DEF Layout
<1> QED
  BY <1>24, <1>28 DEF WinInv

-----------------------------------------------------------------------------
(* Removing messages. *)

\* where message j of the window starts, by either way of finding it
LEMMA PositionIs ==
  ASSUME SumsFit, Types, NEW off, Layout(off), NEW s \in Seqnums, NEW j \in 0 .. Len(held),
         seq_sub(s, seqbase) = j, SampleIndex => j < Len(held)
  PROVE  PositionOf(s) = Slot(firstpos, off[j])
<1>1. CASE SampleIndex
  <2>1. Len(held) \in Nat
    BY LayoutHas
  <2>2. j \in 0 .. Len(held) - 1
    BY <1>1, <2>1
  <2>3. rbufidx[xmitw_addindices(firstidx, j)] = Slot(firstpos, off[j])
    BY <1>1, <2>2 DEF Layout
  <2> QED
    BY <1>1, <2>3 DEF PositionOf, xmitw_load_rbufidx, IndexOf
<1>2. CASE ~SampleIndex
  BY <1>2, WalkIs DEF PositionOf
<1> QED
  BY <1>1, <1>2, Consts

LEMMA HoldsMoved ==
  ASSUME NEW f \in Places, NEW a \in Nat, NEW b \in Nat, NEW m \in Messages,
         Holds(rbuf, f, b, m), a <= b, b + SizePrefix + m.len <= WB
  PROVE  Holds(rbuf, Slot(f, a), b - a, m)
<1> DEFINE l == m.len
<1>1. l \in Nat /\ b + 2 + l <= WB
  BY MessageIs, Consts
<1> HIDE DEF l
<1>2. b - a \in Nat /\ a + (b - a) = b /\ (b - a) + 1 \in Nat /\ a + ((b - a) + 1) = b + 1 /\ b <= WB /\ b + 1 <= WB
  BY <1>1, Consts
<1>3. Slot(Slot(f, a), b - a) = Slot(f, b) /\ Slot(Slot(f, a), (b - a) + 1) = Slot(f, b + 1)
  <2>1. Slot(Slot(f, a), b - a) = Slot(f, a + (b - a))
    BY <1>2, SlotPlus
  <2>2. Slot(Slot(f, a), (b - a) + 1) = Slot(f, a + ((b - a) + 1))
    BY <1>2, SlotPlus
  <2> QED
    BY <1>2, <2>1, <2>2
<1>4. ASSUME NEW i \in 1 .. l
      PROVE  Slot(Slot(f, a), (b - a) + SizePrefix + i - 1) = Slot(f, b + SizePrefix + i - 1)
  <2> DEFINE c == (b - a) + SizePrefix + i - 1
  <2>1. c \in Nat /\ a + c = b + SizePrefix + i - 1 /\ a + c <= WB
    BY <1>1, <1>2, Consts
  <2> HIDE DEF c
  <2>2. Slot(Slot(f, a), c) = Slot(f, a + c)
    BY <2>1, SlotPlus
  <2> QED
    BY <2>1, <2>2 DEF c
<1> QED
  BY <1>3, <1>4 DEF Holds, l

LEMMA AckOK ==
  ASSUME SumsFit, WinInv, NEW s \in Seqnums, remove_acked_messages(s)
  PROVE  WinInv'
<1> PICK off : Layout(off)
  BY DEF WinInv
<1> DEFINE n == Len(held)
           j == seq_sub(s, seqbase)
           f == firstpos
<1>1. Types
  BY DEF WinInv
<1>2. /\ ~zhe_seq_lt(seq, s) /\ zhe_seq_lt(seqbase, s)
      /\ firstpos' = IF SampleIndex /\ s = seq THEN spos ELSE PositionOf(s)
      /\ firstidx' = IF SampleIndex THEN xmitw_addindices(firstidx, j) ELSE firstidx
      /\ seqbase' = s
      /\ held' = SubSeq(held, j + 1, n)
      /\ rbuf' = rbuf /\ pos' = pos /\ spos' = spos /\ rbufidx' = rbufidx /\ seq' = seq /\ nstored' = nstored
  BY DEF remove_acked_messages
<1>3. /\ n \in Nat /\ n <= xmitw_samples /\ seq_sub(seq, seqbase) = n
      /\ seq \in Seqnums /\ seqbase \in Seqnums /\ f \in Places
  BY <1>1, LayoutHas DEF Types
<1>4. j \in 1 .. n /\ seq_sub(seq, s) = n - j /\ (s = seq <=> j = n)
  BY <1>2, <1>3, AckIs
<1> HIDE DEF j
<1>5. j \in 0 .. n /\ j \in Nat /\ j <= n /\ j \in 0 .. xmitw_samples /\ n - j \in Nat
  <2> HIDE DEF n
  <2> QED
    BY <1>3, <1>4, Consts
<1>6. firstpos' = Slot(f, off[j])
  <2>1. CASE SampleIndex /\ s = seq
    BY <1>2, <1>4, <2>1 DEF Layout
  <2>2. CASE ~ (SampleIndex /\ s = seq)
    <3>1. SampleIndex => j < n
      <4> HIDE DEF n
      <4> QED
        BY <1>4, <1>5, <1>3, <2>2
    <3>2. PositionOf(s) = Slot(f, off[j])
      BY <1>1, <1>5, <3>1, PositionIs DEF j
    <3> QED
      BY <1>2, <2>2, <3>2
  <2> QED
    BY <2>1, <2>2
<1>7. /\ \A k \in 0 .. n : off[k] \in Nat /\ off[k] + SizePrefix <= WB /\ off[k] <= WB
      /\ off[j] \in 0 .. WB
  <2>1. \A k \in 0 .. n : off[k] \in Nat /\ off[k] + SizePrefix <= WB
    BY <1>1, LayoutHas
  <2>2. \A k \in 0 .. n : off[k] <= WB
    <3> SUFFICES ASSUME NEW k \in 0 .. n PROVE off[k] <= WB
      OBVIOUS
    <3>1. off[k] \in Nat /\ off[k] + SizePrefix <= WB
      BY <2>1
    <3> QED
      BY <3>1, Consts
  <2> QED
    BY <1>5, <2>1, <2>2, Consts
<1>8. firstpos' \in Places
  BY <1>3, <1>6, <1>7, SlotIs
<1>9. /\ held' \in Seq(Messages) /\ Len(held') = n - j
      /\ \A k \in 1 .. n - j : held'[k] = held[k + j]
  <2>1. held \in Seq(Messages)
    BY <1>1 DEF Types
  <2> DEFINE q == SubSeq(held, j + 1, n)
  <2>2. j + 1 \in 1 .. n + 1 /\ n \in (j + 1) - 1 .. n
    <3> HIDE DEF n
    <3> QED
      BY <1>3, <1>5
  <2>3. /\ q \in Seq(Messages) /\ Len(q) = n - (j + 1) + 1
        /\ \A k \in 1 .. n - (j + 1) + 1 : q[k] = held[(j + 1) + k - 1]
    BY <2>1, <2>2, SubSeqProperties
  <2>4. n - (j + 1) + 1 = n - j /\ \A k \in 1 .. n - j : (j + 1) + k - 1 = k + j
    <3> HIDE DEF n
    <3> QED
      BY <1>3, <1>5
  <2>5. q \in Seq(Messages) /\ Len(q) = n - j /\ \A k \in 1 .. n - j : q[k] = held[k + j]
    BY <2>3, <2>4
  <2> QED
    BY <1>2, <2>5
<1>10. firstidx' \in 0 .. xmitw_samples - 1
  BY <1>1, <1>2, <1>5, IndexIs DEF Types
<1>11. Types'
  <2>1. Len(held') <= xmitw_samples
    <3> HIDE DEF n
    <3> QED
      BY <1>3, <1>5, <1>9, Consts
  <2> QED
    BY <1>1, <1>2, <1>4, <1>8, <1>9, <1>10, <2>1 DEF Types
<1> DEFINE noff == [k \in 0 .. n - j |-> off[k + j] - off[j]]
           n1 == n - j
<1>12. /\ n1 \in Nat /\ n1 + j = n
       /\ \A k \in 0 .. n1 : k + j \in 0 .. n /\ j <= k + j
       /\ \A k \in 1 .. n1 : k \in 0 .. n1 /\ k - 1 \in 0 .. n1 /\ k + j \in 1 .. n /\ (k - 1) + j = (k + j) - 1
       /\ 0 \in 0 .. n1 /\ n1 \in 0 .. n1 /\ 0 + j = j
  <2>1. n1 \in Nat /\ n1 + j = n
    <3> HIDE DEF n
    <3> QED
      BY <1>3, <1>5
  <2> HIDE DEF n, n1
  <2> QED
    BY <1>3, <1>5, <2>1
<1>13. /\ \A i, k \in 0 .. n : i <= k => off[i] <= off[k]
       /\ \A k \in 1 .. n : off[k] = off[k - 1] + SizePrefix + held[k].len
       /\ \A k \in 1 .. n : Holds(rbuf, f, off[k - 1], held[k])
       /\ \A k \in 1 .. n : held[k] \in Messages /\ held[k].len \in Nat
  <2>1. \A k \in 1 .. n : held[k] \in Messages /\ held[k].len \in Nat
    BY <1>1, LayoutHas
  <2> QED
    BY <2>1 DEF Layout
<1>14. \A k \in 0 .. n1 : off[k + j] - off[j] \in Nat /\ off[j] <= off[k + j]
  <2> SUFFICES ASSUME NEW k \in 0 .. n1 PROVE off[k + j] - off[j] \in Nat /\ off[j] <= off[k + j]
    OBVIOUS
  <2>1. off[k + j] \in Nat /\ off[j] \in Nat /\ off[j] <= off[k + j]
    BY <1>5, <1>7, <1>12, <1>13
  <2> QED
    BY <2>1
<1>15. noff \in [0 .. n1 -> Nat] /\ \A k \in 0 .. n1 : noff[k] = off[k + j] - off[j]
  BY <1>14
<1> HIDE DEF noff
<1>16. PICK off2 : off2 = noff
  OBVIOUS
<1>17. off2 \in [0 .. n1 -> Nat] /\ \A k \in 0 .. n1 : off2[k] = off[k + j] - off[j]
  BY <1>15, <1>16
<1> HIDE DEF n1
<1>18. Layout(off2)'
  <2>1. Len(held') = n1
    BY <1>9 DEF n1
  <2>2. off2[0] = 0
    <3>1. off2[0] = off[j] - off[j]
      BY <1>12, <1>17
    <3> QED
      BY <1>7, <3>1
  <2>3. ASSUME NEW k \in 1 .. n1
        PROVE  /\ off2[k] = off2[k - 1] + SizePrefix + held'[k].len
               /\ Holds(rbuf, firstpos', off2[k - 1], held'[k])
    <3> DEFINE a == off[j]
               b == off[(k + j) - 1]
               c == off[k + j]
               m == held[k + j]
    <3>1. k + j \in 1 .. n /\ (k + j) - 1 \in 0 .. n /\ k + j \in 0 .. n /\ k - 1 \in 0 .. n1 /\ (k - 1) + j = (k + j) - 1 /\ k \in 0 .. n1
      <4>1. k - 1 \in 0 .. n1 /\ (k - 1) + j \in 0 .. n /\ (k - 1) + j = (k + j) - 1 /\ k \in 0 .. n1 /\ k + j \in 0 .. n
        BY <1>12
      <4> QED
        BY <1>12, <4>1
    <3>2. a \in Nat /\ b \in Nat /\ c \in Nat /\ c + SizePrefix <= WB /\ c <= WB
      BY <1>5, <1>7, <3>1
    <3>3. c = b + SizePrefix + m.len /\ Holds(rbuf, f, b, m) /\ m \in Messages /\ m.len \in Nat
      BY <1>13, <3>1
    <3>4. off2[k] = c - a /\ off2[k - 1] = b - a /\ a <= b
      <4>1. off2[k - 1] = off[(k - 1) + j] - a /\ a <= off[(k - 1) + j]
        BY <1>14, <1>17, <3>1
      <4>2. off2[k] = c - a
        BY <1>17, <3>1
      <4> QED
        BY <3>1, <4>1, <4>2
    <3>5. held'[k] = m
      BY <1>9 DEF n1
    <3> HIDE DEF a, b, c, m
    <3>6. b + SizePrefix + m.len <= WB
      BY <3>2, <3>3
    <3>7. Holds(rbuf, Slot(f, a), b - a, m)
      BY <1>3, <3>2, <3>3, <3>4, <3>6, HoldsMoved
    <3>8. firstpos' = Slot(f, a)
      BY <1>6 DEF a
    <3>9. c - a = (b - a) + SizePrefix + m.len
      BY <3>2, <3>3, Consts
    <3> QED
      BY <3>4, <3>5, <3>7, <3>8, <3>9
  <2>4. ASSUME NEW i \in 0 .. n1, NEW k \in 0 .. n1, i <= k PROVE off2[i] <= off2[k]
    <3>1. i + j \in 0 .. n /\ k + j \in 0 .. n /\ i + j <= k + j
      BY <1>5, <1>12, <2>4
    <3>2. off[i + j] \in Nat /\ off[k + j] \in Nat /\ off[j] \in Nat /\ off[i + j] <= off[k + j]
      BY <1>5, <1>7, <1>13, <3>1
    <3>3. off2[i] = off[i + j] - off[j] /\ off2[k] = off[k + j] - off[j]
      BY <1>17
    <3> QED
      BY <3>2, <3>3
  <2>5. off2[n1] = off[n] - off[j]
    BY <1>12, <1>17
  <2>6. off[n] \in Nat /\ off[j] \in Nat /\ off[j] <= off[n] /\ off[n] + SizePrefix <= WB
    <3>1. n \in 0 .. n
      BY <1>3
    <3> QED
      BY <1>5, <1>7, <1>13, <3>1
  <2>7. off2[n1] + SizePrefix <= WB
    BY <2>5, <2>6, Consts
  <2>8. spos = Slot(firstpos', off2[n1]) /\ pos = Slot(firstpos', off2[n1] + SizePrefix)
    <3> DEFINE a == off[j]
               o == off[n]
    <3>1. a \in Nat /\ o - a \in Nat /\ o - a + SizePrefix \in Nat /\ a + (o - a) = o
          /\ a + (o - a + SizePrefix) = o + SizePrefix /\ o <= WB /\ o + SizePrefix <= WB
      BY <2>6, Consts
    <3>2. spos = Slot(f, o) /\ pos = Slot(f, o + SizePrefix)
      BY DEF Layout
    <3> HIDE DEF a, o
    <3>3. Slot(Slot(f, a), o - a) = Slot(f, a + (o - a))
      BY <1>3, <3>1, SlotPlus
    <3>4. Slot(Slot(f, a), o - a + SizePrefix) = Slot(f, a + (o - a + SizePrefix))
      BY <1>3, <3>1, SlotPlus
    <3> QED
      BY <1>6, <2>5, <3>1, <3>2, <3>3, <3>4 DEF a, o
  <2>9. ASSUME SampleIndex, NEW k \in 0 .. n1 - 1
        PROVE  rbufidx[xmitw_addindices(firstidx', k)] = Slot(firstpos', off2[k])
    <3>1. k \in Nat /\ k \in 0 .. n1 /\ k + j \in 0 .. n - 1 /\ j + k < xmitw_samples /\ j + k = k + j
      <4> HIDE DEF n
      <4> QED
        BY <1>3, <1>5, <1>12, Consts
    <3>2. xmitw_addindices(firstidx', k) = xmitw_addindices(firstidx, k + j)
      BY <1>1, <1>2, <1>5, <2>9, <3>1, IndexPlus DEF Types
    <3>3. rbufidx[xmitw_addindices(firstidx, k + j)] = Slot(f, off[k + j])
      BY <2>9, <3>1 DEF Layout
    <3> DEFINE a == off[j]
               c == off[k + j]
    <3>4. a \in Nat /\ c \in Nat /\ a <= c /\ c <= WB
      BY <1>5, <1>7, <1>12, <1>14, <3>1
    <3>5. off2[k] = c - a
      BY <1>17, <3>1
    <3> HIDE DEF a, c
    <3>6. c - a \in Nat /\ a + (c - a) = c
      BY <3>4
    <3>7. Slot(Slot(f, a), c - a) = Slot(f, a + (c - a))
      BY <1>3, <3>4, <3>6, SlotPlus
    <3> QED
      BY <1>6, <3>2, <3>3, <3>5, <3>6, <3>7 DEF a, c
  <2> QED
    BY <1>2, <1>17, <2>1, <2>2, <2>3, <2>4, <2>7, <2>8, <2>9 DEF Layout
<1> QED
  BY <1>11, <1>18 DEF WinInv

-----------------------------------------------------------------------------
(* The empty window. *)

LEMMA EmptyLayout ==
  ASSUME held = <<>>, firstpos = 0, spos = 0, pos = SizePrefix
  PROVE  Layout([k \in 0 .. 0 |-> 0])
<1>1. Len(held) = 0
  OBVIOUS
<1>2. Slot(0, 0) = 0 /\ Slot(0, SizePrefix) = SizePrefix /\ 0 + SizePrefix <= WB /\ 0 + SizePrefix = SizePrefix
  BY Consts DEF Slot
<1> DEFINE off == [k \in 0 .. 0 |-> 0]
<1>3. off \in [0 .. 0 -> Nat] /\ off[0] = 0
  OBVIOUS
<1> HIDE DEF off
<1>4. 0 .. 0 = {0} /\ 1 .. 0 = {} /\ 0 .. 0 - 1 = {}
  OBVIOUS
<1>5. \A i, k \in 0 .. 0 : i <= k => off[i] <= off[k]
  BY <1>3, <1>4
<1> QED
  BY <1>1, <1>2, <1>3, <1>4, <1>5 DEF Layout, off

LEMMA ZeroIs == 0 \in Seqnums /\ seq_sub(0, 0) = 0 /\ 0 \in Places /\ 0 \in 0 .. xmitw_samples - 1
<1>1. 0 \in Seqnums
  BY SpaceIs DEF Seqnums
<1>2. seq_sub(0, 0) = 0 - 0
  BY <1>1, SubIs
<1> QED
  BY <1>1, <1>2, Consts DEF Places

LEMMA InitOK == Init => WinInv
<1> SUFFICES ASSUME Init PROVE WinInv
  OBVIOUS
<1> USE DEF Init
<1>1. rbuf \in [Places -> Bytes]
  <2>1. {0, ByteSpace - 1} \subseteq Bytes
    BY Consts DEF Bytes
  <2>2. PICK b \in {0, ByteSpace - 1} : rbuf = [i \in 0 .. WB - 1 |-> b]
    OBVIOUS
  <2> QED
    BY <2>1, <2>2 DEF Places
<1>2. held \in Seq(Messages) /\ Len(held) = 0
  OBVIOUS
<1>3. Types
  BY <1>1, <1>2, ZeroIs, Consts DEF Types
<1>4. Layout([k \in 0 .. 0 |-> 0])
  BY EmptyLayout
<1> QED
  BY <1>3, <1>4 DEF WinInv

LEMMA ResetOK ==
  ASSUME WinInv, Reset
  PROVE  WinInv'
<1> USE DEF Reset
<1>1. held' \in Seq(Messages) /\ Len(held') = 0
  OBVIOUS
<1>2. Types'
  BY <1>1, ZeroIs, Consts DEF WinInv, Types
<1>3. (Layout([k \in 0 .. 0 |-> 0]))'
  <2>1. (held = <<>> /\ firstpos = 0 /\ spos = 0 /\ pos = SizePrefix)'
    OBVIOUS
  <2>2. (held = <<>> /\ firstpos = 0 /\ spos = 0 /\ pos = SizePrefix => Layout([k \in 0 .. 0 |-> 0]))'
    BY EmptyLayout, PTL
  <2> QED
    BY <2>1, <2>2
<1> QED
  BY <1>2, <1>3 DEF WinInv

-----------------------------------------------------------------------------
(* The theorems. *)

LEMMA NextOK ==
  ASSUME SumsFit
  PROVE  WinInv /\ [Next]_vars => WinInv'
<1> SUFFICES ASSUME WinInv, [Next]_vars PROVE WinInv'
  OBVIOUS
<1>1. ASSUME NEW len \in Sizes, NEW slack \in 0 .. Slack, Store(len, slack) PROVE WinInv'
  BY <1>1, StoreOK
<1>2. ASSUME NEW s \in Seqnums, remove_acked_messages(s) PROVE WinInv'
  BY <1>2, AckOK
<1>3. CASE Reset
  BY <1>3, ResetOK
<1>4. CASE UNCHANGED vars
  BY <1>4 DEF vars, WinInv, Types, Layout
<1> QED
  BY <1>1, <1>2, <1>3, <1>4 DEF Next

\* The messages in the window lie one behind the other from firstpos on, each
\* behind its size, however often the buffer and the index wrap around.
THEOREM WindowLaidOut ==
  ASSUME SumsFit
  PROVE  Spec => []WinInv
<1>1. Init => WinInv
  BY InitOK
<1>2. WinInv /\ [Next]_vars => WinInv'
  BY NextOK
<1> QED
  BY <1>1, <1>2, PTL DEF Spec

LEMMA TypesFollow == WinInv => TypeOK
<1> SUFFICES ASSUME WinInv PROVE TypeOK
  OBVIOUS
<1> PICK off : Layout(off)
  BY DEF WinInv
<1> DEFINE o == off[Len(held)]
<1>1. Types
  BY DEF WinInv
<1>2. o \in Nat /\ o + SizePrefix <= WB /\ spos = Slot(firstpos, o) /\ pos = Slot(firstpos, o + SizePrefix)
  <2>1. Len(held) \in 0 .. Len(held)
    BY <1>1, LayoutHas
  <2> QED
    BY <1>1, <2>1, LayoutHas DEF Layout
<1> HIDE DEF o
<1>3. o \in 0 .. WB /\ o + SizePrefix \in 0 .. WB /\ firstpos \in Places
  BY <1>1, <1>2, Consts DEF Types
<1>4. pos \in Places /\ spos \in Places
  BY <1>2, <1>3, SlotIs
<1> QED
  BY <1>1, <1>4 DEF Types, TypeOK, Places, Bytes

\* Positions stay within the buffer and the index, and no more messages are held
\* than the index has room for.
THEOREM PositionsWithin ==
  ASSUME SumsFit
  PROVE  Spec => []TypeOK
BY WindowLaidOut, TypesFollow, PTL

LEMMA SpaceFollows == WinInv => SpaceExact
<1> SUFFICES ASSUME WinInv PROVE SpaceExact
  OBVIOUS
<1> PICK off : Layout(off)
  BY DEF WinInv
<1> DEFINE n == Len(held)
           Step(f) == [k \in 0 .. n |-> IF k = 0 THEN 0 ELSE f[k - 1] + SizePrefix + held[k].len]
           taken == CHOOSE f : f = Step(f)
<1>1. Types
  BY DEF WinInv
<1>2. n \in Nat
  BY <1>1, LayoutHas
<1>3. off \in [0 .. n -> Nat] /\ off[0] = 0 /\ \A k \in 1 .. n : off[k] = off[k - 1] + SizePrefix + held[k].len
  BY DEF Layout
<1>4. off = Step(off)
  <2>1. \A k \in 0 .. n : k = 0 \/ k \in 1 .. n
    <3> HIDE DEF n
    <3> QED
      BY <1>2
  <2>2. \A k \in 0 .. n : off[k] = IF k = 0 THEN 0 ELSE off[k - 1] + SizePrefix + held[k].len
    BY <1>3, <2>1
  <2> QED
    BY <1>3, <2>2
<1>5. taken = Step(taken)
  BY <1>4
<1>6. SpaceExact <=> zhe_xmitw_bytesavail = WB - SizePrefix - taken[n]
  BY DEF SpaceExact
<1> HIDE DEF taken
<1>7. 0 \in 0 .. n /\ n \in 0 .. n /\ \A k \in 1 .. n : k \in 0 .. n /\ k # 0
  <2> HIDE DEF n
  <2> QED
    BY <1>2
<1>8. SameSteps(taken, off, n)
  <2>1. taken[0] = off[0]
    BY <1>3, <1>5, <1>7
  <2>2. \A k \in 1 .. n : taken[k] = taken[k - 1] + SizePrefix + held[k].len
    BY <1>5, <1>7
  <2> QED
    BY <1>3, <2>1, <2>2 DEF SameSteps
<1>9. taken[n] = off[n]
  BY <1>2, <1>7, <1>8, SameWalk DEF Same
<1> QED
  BY <1>1, <1>6, <1>9, AvailIs

\* The space computed from two positions is what the messages in the window leave.
THEOREM NoSpaceCountedTwice ==
  ASSUME SumsFit
  PROVE  Spec => []SpaceExact
BY WindowLaidOut, SpaceFollows, PTL

LEMMA NumberOf ==
  ASSUME Types, NEW k \in 0 .. Len(held)
  PROVE  seq_add(seqbase, k) \in Seqnums /\ seq_sub(seq_add(seqbase, k), seqbase) = k
<1>1. Len(held) \in Nat /\ Len(held) <= xmitw_samples /\ seqbase \in Seqnums
  BY LenProperties DEF Types
<1>2. k \in 0 .. SeqSpace - 1
  BY <1>1, Consts, SpaceIs
<1> QED
  BY <1>1, <1>2, AddSub

LEMMA RetransmittableFollows ==
  ASSUME SumsFit, WinInv
  PROVE  Retransmittable
<1> PICK off : Layout(off)
  BY DEF WinInv
<1>1. Types
  BY DEF WinInv
<1> SUFFICES ASSUME NEW k \in 1 .. Len(held)
             PROVE  LET p == PositionOf(seq_add(seqbase, k - 1))
                        m == held[k]
                    IN  /\ xmitw_load_msgsize(p) = m.len
                        /\ \A i \in 1 .. m.len :
                              rbuf[(p + SizePrefix + i - 1) % WB] = Contents(m.n, m.len)[i]
  BY DEF Retransmittable
<1> DEFINE s == seq_add(seqbase, k - 1)
           p == PositionOf(s)
           m == held[k]
           a == off[k - 1]
<1>2. /\ m \in Messages /\ m.len \in Nat /\ a \in Nat /\ off[k] + SizePrefix <= WB
      /\ off[k] = a + SizePrefix + m.len /\ Holds(rbuf, firstpos, a, m)
      /\ k - 1 \in 0 .. Len(held) /\ Len(held) \in Nat /\ off[k] \in Nat
  BY <1>1, LayoutHas
<1>3. s \in Seqnums /\ seq_sub(s, seqbase) = k - 1
  BY <1>1, <1>2, NumberOf
<1>4. k - 1 < Len(held)
  BY <1>2
<1> HIDE DEF s, m
<1>5. p = Slot(firstpos, a)
  BY <1>1, <1>2, <1>3, <1>4, PositionIs
<1> DEFINE l == m.len
<1>6. l \in Nat /\ a \in Nat /\ a + SizePrefix + l <= WB
  <2> DEFINE b == off[k]
  <2>1. b \in Nat /\ b + SizePrefix <= WB /\ b = a + SizePrefix + l /\ l \in Nat /\ a \in Nat
    BY <1>2
  <2> HIDE DEF a, b, l
  <2> QED
    BY <2>1, Consts
<1> HIDE DEF a, p
<1>7. xmitw_load_msgsize(p) = l
  BY <1>1, <1>2, <1>5, <1>6, LoadIs
<1>8. firstpos \in Places
  BY <1>1 DEF Types
<1>9. ASSUME NEW i \in 1 .. l
      PROVE  rbuf[(p + SizePrefix + i - 1) % WB] = Contents(m.n, m.len)[i]
  <2> HIDE DEF l
  <2> DEFINE x == p + SizePrefix + i - 1
             c == SizePrefix + i - 1
  <2>1. c \in Nat /\ a + c <= WB /\ a + c = a + SizePrefix + i - 1 /\ a \in 0 .. WB /\ c < WB
    BY <1>6, Consts
  <2>2. p \in Places
    BY <1>5, <1>8, <2>1, SlotIs
  <2>3. x = p + c /\ p \in Nat /\ p < WB
    BY <2>1, <2>2, Consts DEF Places
  <2> HIDE DEF x, c
  <2>4. x % WB = Slot(p, c)
    <3>1. CASE p + c < WB
      <4>1. x \in 0 .. WB - 1
        BY <2>1, <2>3, <3>1, Consts
      <4>2. x % WB = x
        BY <4>1, Consts, SmallMod
      <4> QED
        BY <2>1, <2>3, <3>1, <4>2, Consts DEF Slot
    <3>2. CASE ~ (p + c < WB)
      <4>1. x \in WB .. 2 * WB - 1
        BY <2>1, <2>3, <3>2, Consts
      <4>2. x % WB = x - WB
        BY <4>1, Consts, WrapMod
      <4> QED
        BY <2>1, <2>3, <3>2, <4>2, Consts DEF Slot
    <3> QED
      BY <3>1, <3>2
  <2>5. Slot(p, c) = Slot(firstpos, a + c)
    BY <1>5, <1>6, <1>8, <2>1, SlotPlus
  <2>6. rbuf[Slot(firstpos, a + SizePrefix + i - 1)] = Contents(m.n, m.len)[i]
    BY <1>2 DEF Holds, l, a
  <2> QED
    BY <2>1, <2>4, <2>5, <2>6 DEF x
<1> QED
  BY <1>7, <1>9 DEF p, s, m

\* Every message not yet acknowledged can be read back as it was written.
THEOREM NothingOverwritten ==
  ASSUME SumsFit
  PROVE  Spec => []Retransmittable
<1>1. WinInv => Retransmittable
  BY RetransmittableFollows
<1> QED
  BY <1>1, WindowLaidOut, PTL

LEMMA CheckFollows ==
  ASSUME SumsFit, WinInv
  PROVE  check_xmitw
<1> PICK off : Layout(off)
  BY DEF WinInv
<1> DEFINE n == Len(held)
           o == off[n]
<1>1. Types
  BY DEF WinInv
<1>2. n \in Nat /\ oc_get_nsamples = n /\ n \in 0 .. n /\ o \in Nat /\ o + SizePrefix <= WB
      /\ spos = Slot(firstpos, o) /\ pos = Slot(firstpos, o + SizePrefix) /\ firstpos \in Places
  <2>1. n \in Nat /\ n \in 0 .. n
    BY <1>1, LayoutHas
  <2> QED
    BY <1>1, <2>1, LayoutHas DEF Layout, Types, oc_get_nsamples
<1>3. xmitw_skip_to_seq(firstpos, oc_get_nsamples) = spos
  BY <1>1, <1>2, WalkIs
<1>4. ASSUME SampleIndex, NEW k \in 0 .. oc_get_nsamples - 1
      PROVE  xmitw_skip_to_seq(firstpos, k) = xmitw_load_rbufidx(seq_add(seqbase, k))
  <2>1. k \in 0 .. n /\ k \in 0 .. n - 1
    <3> HIDE DEF n
    <3> QED
      BY <1>2
  <2>2. xmitw_skip_to_seq(firstpos, k) = Slot(firstpos, off[k])
    BY <1>1, <2>1, WalkIs
  <2>3. seq_sub(seq_add(seqbase, k), seqbase) = k
    BY <1>1, <2>1, NumberOf
  <2>4. rbufidx[xmitw_addindices(firstidx, k)] = Slot(firstpos, off[k])
    BY <1>4, <2>1 DEF Layout
  <2> QED
    BY <2>2, <2>3, <2>4 DEF xmitw_load_rbufidx, IndexOf
<1>5. n = 0 <=> o = 0
  <2>1. n = 0 => o = 0
    BY DEF Layout
  <2>2. n # 0 => o # 0
    <3> SUFFICES ASSUME n # 0 PROVE o # 0
      OBVIOUS
    <3>1. n \in 1 .. n
      <4> HIDE DEF n
      <4> QED
        BY <1>2
    <3>2. off[n - 1] \in Nat /\ held[n].len \in Nat /\ off[n] = off[n - 1] + SizePrefix + held[n].len
      BY <1>1, <3>1, LayoutHas
    <3> DEFINE b == off[n - 1]
               l == held[n].len
    <3>3. b \in Nat /\ l \in Nat /\ o = b + SizePrefix + l
      BY <3>2
    <3> HIDE DEF b, l, o
    <3> QED
      BY <3>3, Consts
  <2> QED
    BY <2>1, <2>2
<1>6. seq = seqbase <=> n = 0
  <2>1. seq \in Seqnums /\ seqbase \in Seqnums /\ n = seq_sub(seq, seqbase)
    BY <1>1 DEF Types
  <2>2. seq_sub(seq, seqbase) = IF seq >= seqbase THEN seq - seqbase ELSE seq - seqbase + SeqSpace
    BY <2>1, SubIs
  <2> HIDE DEF n
  <2> QED
    BY <2>1, <2>2, SpaceIs DEF Seqnums
<1> HIDE DEF o, n
<1>7. firstpos \in Nat /\ firstpos < WB
  BY <1>2, Consts DEF Places
<1>8. (firstpos + SizePrefix) % WB = IF firstpos + 2 >= WB THEN firstpos + 2 - WB ELSE firstpos + 2
  <2> DEFINE x == firstpos + SizePrefix
  <2>0. x = firstpos + 2
    BY Consts
  <2> HIDE DEF x
  <2>1. CASE x < WB
    <3>1. x \in 0 .. WB - 1
      BY <1>7, <2>0, <2>1, Consts
    <3>2. x % WB = x
      BY <3>1, Consts, SmallMod
    <3> QED
      BY <1>7, <2>0, <2>1, <3>2, Consts DEF x
  <2>2. CASE ~ (x < WB)
    <3>1. x \in WB .. 2 * WB - 1
      BY <1>7, <2>0, <2>2, Consts
    <3>2. x % WB = x - WB
      BY <3>1, Consts, WrapMod
    <3> QED
      BY <1>7, <2>0, <2>2, <3>2, Consts DEF x
  <2> QED
    BY <2>1, <2>2
<1>9. pos = IF firstpos + o + 2 >= WB THEN firstpos + o + 2 - WB ELSE firstpos + o + 2
  BY <1>2, <1>7, Consts DEF Slot
<1>10. ((firstpos + SizePrefix) % WB = pos) <=> o = 0
  <2> DEFINE y == (firstpos + SizePrefix) % WB
  <2>1. y = IF firstpos + 2 >= WB THEN firstpos + 2 - WB ELSE firstpos + 2
    BY <1>8
  <2>2. o \in Nat /\ o + 2 <= WB
    BY <1>2, Consts
  <2> HIDE DEF y
  <2>3. y = pos <=> o = 0
    BY <1>7, <1>9, <2>1, <2>2, Consts
  <2> QED
    BY <2>3 DEF y
<1>11. pos = xmitw_pos_add(spos, SizePrefix)
  <2>1. o \in 0 .. WB /\ SizePrefix \in 0 .. WB /\ SizePrefix \in Nat
    BY <1>2, Consts
  <2>2. spos \in Places
    BY <1>2, <2>1, SlotIs
  <2>3. xmitw_pos_add(spos, SizePrefix) = Slot(spos, SizePrefix)
    BY <2>1, <2>2, PosAdd
  <2>4. Slot(Slot(firstpos, o), SizePrefix) = Slot(firstpos, o + SizePrefix)
    BY <1>2, <2>1, SlotPlus
  <2> QED
    BY <1>2, <2>3, <2>4
<1> QED
  BY <1>3, <1>4, <1>5, <1>6, <1>10, <1>11 DEF check_xmitw

\* The assertions of check_xmitw hold: a walk through the window by the sizes in it
\* meets the positions in the index and ends at spos, and pos is next to it.
THEOREM AssertionsHold ==
  ASSUME SumsFit
  PROVE  Spec => []check_xmitw
<1>1. WinInv => check_xmitw
  BY CheckFollows
<1> QED
  BY <1>1, WindowLaidOut, PTL

=============================================================================
