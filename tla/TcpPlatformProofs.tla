------------------------- MODULE TcpPlatformProofs -------------------------
(***************************************************************************)
(* The transport over TCP, for any nodes, addresses to connect to, numbers *)
(* of connections, socket buffers and packets, and any number of failures: *)
(* connections keep what is said of them, and streams keep their frames.   *)
(***************************************************************************)
EXTENDS TcpPlatform, SequenceTheorems, WellFoundedInduction, TLAPS

-----------------------------------------------------------------------------
(* Natural numbers. *)

\* A set of natural numbers that is not empty has a least element.
LEMMA NatHasMin ==
  ASSUME NEW S, S \subseteq Nat, S # {}
  PROVE  \E i \in S : \A j \in S : i <= j
<1> DEFINE R == {ss \in Nat \X Nat : ss[1] < ss[2]}
<1>1. IsWellFoundedOn(R, Nat)
  BY NatLessThanWellFounded DEF OpToRel
<1>2. \A p \in Nat, q \in Nat : <<p, q>> \in R <=> p < q
  OBVIOUS
<1> HIDE DEF R
<1>3. PICK x \in S : \A y \in S : ~ (<<y, x>> \in R)
  BY <1>1, WFMin
<1>4. ASSUME NEW y \in S PROVE x <= y
  <2>1. x \in Nat /\ y \in Nat
    OBVIOUS
  <2>2. ~ (y < x)
    BY <1>2, <1>3, <2>1
  <2> QED
    BY <2>1, <2>2
<1> QED
  BY <1>4

\* Induction: a set with 0 and the successors of its elements has them all.
LEMMA NatInSet ==
  ASSUME NEW T, 0 \in T, \A n \in Nat : n \in T => n + 1 \in T
  PROVE  Nat \subseteq T
<1> DEFINE S == {n \in Nat : n \notin T}
<1> SUFFICES ASSUME S # {} PROVE FALSE
  OBVIOUS
<1>1. PICK m \in S : \A j \in S : m <= j
  BY NatHasMin
<1>2. m # 0 /\ m - 1 \in Nat /\ m - 1 \notin S
  BY <1>1
<1>3. m - 1 \in T /\ (m - 1) + 1 = m
  BY <1>2
<1> QED
  BY <1>1, <1>2, <1>3

-----------------------------------------------------------------------------
(* Sequences cut in two. *)

LEMMA RestIs ==
  ASSUME NEW S, NEW q \in Seq(S), NEW k \in 0 .. Len(q)
  PROVE  /\ Rest(q, k) \in Seq(S) /\ Len(Rest(q, k)) = Len(q) - k
         /\ \A x \in 1 .. Len(q) - k : Rest(q, k)[x] = q[x + k]
<1>1. Len(q) \in Nat /\ k \in Nat
  OBVIOUS
<1>2. CASE k < Len(q)
  BY <1>1, <1>2, SubSeqProperties DEF Rest
<1>3. CASE k = Len(q)
  BY <1>1, <1>3, SubSeqProperties DEF Rest
<1> QED
  BY <1>1, <1>2, <1>3

LEMMA FirstIs ==
  ASSUME NEW S, NEW q \in Seq(S), NEW k \in 0 .. Len(q)
  PROVE  /\ SubSeq(q, 1, k) \in Seq(S) /\ Len(SubSeq(q, 1, k)) = k
         /\ \A x \in 1 .. k : SubSeq(q, 1, k)[x] = q[x]
<1>1. Len(q) \in Nat /\ k \in Nat
  OBVIOUS
<1> QED
  BY <1>1, SubSeqProperties

LEMMA ConcatIs ==
  ASSUME NEW S, NEW a \in Seq(S), NEW b \in Seq(S)
  PROVE  /\ a \o b \in Seq(S) /\ Len(a \o b) = Len(a) + Len(b)
         /\ Len(a) \in Nat /\ Len(b) \in Nat
         /\ \A x \in 1 .. Len(a) : (a \o b)[x] = a[x]
         /\ \A x \in 1 .. Len(b) : (a \o b)[x + Len(a)] = b[x]
<1>1. Len(a) \in Nat /\ Len(b) \in Nat
  BY LenProperties
<1>2. /\ a \o b \in Seq(S) /\ Len(a \o b) = Len(a) + Len(b)
      /\ \A i \in 1 .. Len(a) + Len(b) : (a \o b)[i] = IF i <= Len(a) THEN a[i] ELSE b[i - Len(a)]
  BY ConcatProperties
<1>3. \A x \in 1 .. Len(b) : x + Len(a) \in 1 .. Len(a) + Len(b) /\ (x + Len(a)) - Len(a) = x
                             /\ ~ (x + Len(a) <= Len(a))
  BY <1>1
<1> QED
  BY <1>1, <1>2, <1>3

LEMMA Cut ==
  ASSUME NEW S, NEW q \in Seq(S), NEW k \in 0 .. Len(q)
  PROVE  q = SubSeq(q, 1, k) \o Rest(q, k)
<1> DEFINE a == SubSeq(q, 1, k)
           b == Rest(q, k)
<1>1. /\ a \in Seq(S) /\ Len(a) = k /\ \A x \in 1 .. k : a[x] = q[x]
      /\ b \in Seq(S) /\ Len(b) = Len(q) - k /\ \A x \in 1 .. Len(q) - k : b[x] = q[x + k]
      /\ Len(q) \in Nat /\ k \in Nat
  BY FirstIs, RestIs
<1> HIDE DEF a, b
<1>2. /\ a \o b \in Seq(S) /\ Len(a \o b) = Len(q)
      /\ \A x \in 1 .. k : (a \o b)[x] = a[x]
      /\ \A x \in 1 .. Len(q) - k : (a \o b)[x + k] = b[x]
  BY <1>1, ConcatIs
<1>3. ASSUME NEW x \in 1 .. Len(q) PROVE (a \o b)[x] = q[x]
  <2>1. CASE x <= k
    BY <1>1, <1>2, <2>1
  <2>2. CASE x > k
    <3>1. \E y \in 1 .. Len(q) - k : x = y + k
      <4>1. x - k \in 1 .. Len(q) - k /\ x = (x - k) + k
        BY <1>1, <2>2
      <4> QED
        BY <4>1
    <3> QED
      BY <1>1, <1>2, <3>1
  <2> QED
    BY <1>1, <2>1, <2>2
<1>4. q = a \o b
  BY <1>1, <1>2, <1>3, SeqEqual
<1> QED
  BY <1>4 DEF a, b

\* Two ways of putting the same sequence together, the first cut being later.
LEMMA Cancel ==
  ASSUME NEW S, NEW a \in Seq(S), NEW b \in Seq(S), NEW c \in Seq(S), NEW d \in Seq(S)
  PROVE  a \o b = c \o d /\ Len(c) <= Len(a) =>
            a = c \o Rest(a, Len(c)) /\ Rest(a, Len(c)) \o b = d
<1>1. \A r \in Seq(S) : (c \o r) \o b = c \o (r \o b)
  BY ConcatAssociative
<1> SUFFICES ASSUME a \o b = c \o d, Len(c) <= Len(a)
             PROVE  a = c \o Rest(a, Len(c)) /\ Rest(a, Len(c)) \o b = d
  OBVIOUS
<1>2. Len(a) \in Nat /\ Len(b) \in Nat /\ Len(c) \in Nat /\ Len(d) \in Nat
  BY LenProperties
<1> DEFINE r == Rest(a, Len(c))
<1>3. r \in Seq(S) /\ Len(r) = Len(a) - Len(c)
      /\ \A x \in 1 .. Len(a) - Len(c) : r[x] = a[x + Len(c)]
  BY <1>2, RestIs
<1>4. a = SubSeq(a, 1, Len(c)) \o r
  BY <1>2, Cut
<1>5. SubSeq(a, 1, Len(c)) = c
  <2>1. /\ SubSeq(a, 1, Len(c)) \in Seq(S) /\ Len(SubSeq(a, 1, Len(c))) = Len(c)
        /\ \A x \in 1 .. Len(c) : SubSeq(a, 1, Len(c))[x] = a[x]
    BY <1>2, FirstIs
  <2>2. \A x \in 1 .. Len(c) : x \in 1 .. Len(a)
    BY <1>2
  <2>3. \A x \in 1 .. Len(a) : (a \o b)[x] = a[x]
    BY ConcatIs
  <2>4. \A x \in 1 .. Len(c) : (c \o d)[x] = c[x]
    BY ConcatIs
  <2> QED
    BY <2>1, <2>2, <2>3, <2>4, SeqEqual
<1> HIDE DEF r
<1>6. a = c \o r
  BY <1>4, <1>5
<1>7. c \o (r \o b) = c \o d
  <2>1. r \in Seq(S)
    BY <1>3
  <2>2. (c \o r) \o b = c \o (r \o b)
    BY <1>1, <2>1
  <2> QED
    BY <1>6, <2>2
<1>8. r \o b \in Seq(S)
  BY <1>3, ConcatIs
<1>9. r \o b = d
  BY <1>7, <1>8, ConcatSimplifications
<1> QED
  BY <1>6, <1>9 DEF r

LEMMA RestOfAppend ==
  ASSUME NEW S, NEW q \in Seq(S), NEW e \in S, NEW k \in 0 .. Len(q)
  PROVE  Rest(Append(q, e), k) = Append(Rest(q, k), e)
<1> DEFINE a == Append(q, e)
           r == Rest(q, k)
<1>1. /\ a \in Seq(S) /\ Len(a) = Len(q) + 1 /\ Len(q) \in Nat /\ k \in Nat
      /\ \A x \in 1 .. Len(q) : a[x] = q[x]
      /\ a[Len(q) + 1] = e
  BY AppendProperties, LenProperties
<1>2. r \in Seq(S) /\ Len(r) = Len(q) - k /\ \A x \in 1 .. Len(q) - k : r[x] = q[x + k]
  BY RestIs
<1> HIDE DEF a, r
<1>3. /\ Rest(a, k) \in Seq(S) /\ Len(Rest(a, k)) = Len(q) + 1 - k
      /\ \A x \in 1 .. Len(q) + 1 - k : Rest(a, k)[x] = a[x + k]
  <2>1. k \in 0 .. Len(a) /\ Len(a) - k = Len(q) + 1 - k /\ a \in Seq(S)
    BY <1>1
  <2>2. /\ Rest(a, k) \in Seq(S) /\ Len(Rest(a, k)) = Len(a) - k
        /\ \A x \in 1 .. Len(a) - k : Rest(a, k)[x] = a[x + k]
    BY <2>1, RestIs
  <2> QED
    BY <2>1, <2>2
<1>4. /\ Append(r, e) \in Seq(S) /\ Len(Append(r, e)) = Len(q) - k + 1
      /\ \A x \in 1 .. Len(q) - k : Append(r, e)[x] = r[x]
      /\ Append(r, e)[Len(q) - k + 1] = e
  BY <1>2, AppendProperties
<1>5. ASSUME NEW x \in 1 .. Len(q) + 1 - k PROVE Rest(a, k)[x] = Append(r, e)[x]
  <2>1. CASE x <= Len(q) - k
    <3>1. x \in 1 .. Len(q) - k /\ x + k \in 1 .. Len(q)
      BY <1>1, <2>1
    <3> QED
      BY <1>1, <1>2, <1>3, <1>4, <3>1
  <2>2. CASE x = Len(q) - k + 1
    <3>1. Rest(a, k)[x] = a[x + k] /\ x + k = Len(q) + 1
      BY <1>1, <1>3, <2>2
    <3>2. Append(r, e)[x] = e
      BY <1>4, <2>2
    <3> QED
      BY <1>1, <3>1, <3>2
  <2>3. Len(q) \in Nat /\ k \in Nat
    BY <1>1
  <2>4. x <= Len(q) - k \/ x = Len(q) - k + 1
    BY <2>3
  <2> QED
    BY <2>1, <2>2, <2>4
<1>6. Len(Rest(a, k)) = Len(Append(r, e)) /\ Len(q) + 1 - k = Len(Rest(a, k))
  BY <1>1, <1>3, <1>4
<1>7. Rest(a, k) = Append(r, e)
  BY <1>3, <1>4, <1>5, <1>6, SeqEqual
<1> QED
  BY <1>7 DEF a, r

LEMMA RestStep ==
  ASSUME NEW S, NEW q \in Seq(S), NEW k \in 0 .. Len(q) - 1
  PROVE  Rest(q, k) = <<q[k + 1]>> \o Rest(q, k + 1) /\ q[k + 1] \in S
<1>0. Len(q) \in Nat /\ k \in Nat /\ k + 1 \in 1 .. Len(q)
  BY LenProperties
<1>1. q[k + 1] \in S
  BY <1>0, ElementOfSeq
<1> DEFINE r == Rest(q, k)
<1>2. r \in Seq(S) /\ Len(r) = Len(q) - k /\ \A x \in 1 .. Len(q) - k : r[x] = q[x + k]
  <2>1. k \in 0 .. Len(q)
    BY <1>0
  <2> QED
    BY <2>1, RestIs
<1>3. /\ Rest(q, k + 1) \in Seq(S) /\ Len(Rest(q, k + 1)) = Len(q) - (k + 1)
      /\ \A x \in 1 .. Len(q) - (k + 1) : Rest(q, k + 1)[x] = q[x + (k + 1)]
  <2>1. k + 1 \in 0 .. Len(q)
    BY <1>0
  <2> QED
    BY <2>1, RestIs
<1>4. /\ Rest(r, 1) \in Seq(S) /\ Len(Rest(r, 1)) = Len(r) - 1
      /\ \A x \in 1 .. Len(r) - 1 : Rest(r, 1)[x] = r[x + 1]
  <2>1. 1 \in 0 .. Len(r)
    BY <1>0, <1>2
  <2> QED
    BY <1>2, <2>1, RestIs
<1> HIDE DEF r
<1>5. Rest(r, 1) = Rest(q, k + 1)
  <2>1. Len(Rest(r, 1)) = Len(Rest(q, k + 1))
    BY <1>0, <1>2, <1>3, <1>4
  <2>2. ASSUME NEW x \in 1 .. Len(Rest(r, 1)) PROVE Rest(r, 1)[x] = Rest(q, k + 1)[x]
    <3>1. x \in 1 .. Len(r) - 1 /\ x + 1 \in 1 .. Len(q) - k /\ (x + 1) + k = x + (k + 1)
          /\ x \in 1 .. Len(q) - (k + 1)
      BY <1>0, <1>2, <1>4
    <3> QED
      BY <1>2, <1>3, <1>4, <3>1
  <2> QED
    BY <1>3, <1>4, <2>1, <2>2, SeqEqual
<1>6. SubSeq(r, 1, 1) = <<q[k + 1]>>
  <2>1. 1 \in 0 .. Len(r) /\ 1 \in 1 .. Len(q) - k /\ 1 + k = k + 1
    BY <1>0, <1>2
  <2>2. /\ SubSeq(r, 1, 1) \in Seq(S) /\ Len(SubSeq(r, 1, 1)) = 1
        /\ SubSeq(r, 1, 1)[1] = r[1]
    BY <1>2, <2>1, FirstIs
  <2>3. r[1] = q[k + 1]
    BY <1>2, <2>1
  <2>4. <<q[k + 1]>> \in Seq(S) /\ Len(<<q[k + 1]>>) = 1 /\ <<q[k + 1]>>[1] = q[k + 1]
    BY <1>1
  <2> QED
    <3>1. \A x \in 1 .. 1 : x = 1
      OBVIOUS
    <3> QED
      BY <2>2, <2>3, <2>4, <3>1, SeqEqual
<1>7. r = SubSeq(r, 1, 1) \o Rest(r, 1)
  <2>1. 1 \in 0 .. Len(r)
    BY <1>0, <1>2
  <2> QED
    BY <1>2, <2>1, Cut
<1> QED
  BY <1>1, <1>5, <1>6, <1>7 DEF r

-----------------------------------------------------------------------------
(* FlattenSeq. *)

Bytes == Seq(Nat)

\* f puts the first sequences of s together, up to the k-th
Joins(s, f, k) == f = [i \in 1 .. k |-> IF i = 1 THEN s[i] ELSE f[i - 1] \o s[i]]

LEMMA JoinsExist == ASSUME NEW s PROVE \A n \in Nat : \E f : Joins(s, f, n)
<1> DEFINE T == {n \in Nat : \E f : Joins(s, f, n)}
<1>1. 0 \in T
  <2>1. Joins(s, [i \in 1 .. 0 |-> 0], 0)
    BY DEF Joins
  <2> QED
    BY <2>1
<1>2. ASSUME NEW n \in Nat, n \in T PROVE n + 1 \in T
  <2>1. PICK f : Joins(s, f, n)
    BY <1>2
  <2> DEFINE g == [i \in 1 .. n + 1 |-> IF i <= n THEN f[i] ELSE IF i = 1 THEN s[i] ELSE f[i - 1] \o s[i]]
  <2>2. \A i \in 1 .. n : f[i] = IF i = 1 THEN s[i] ELSE f[i - 1] \o s[i]
    BY <2>1 DEF Joins
  <2>3. \A i \in 1 .. n + 1 : g[i] = IF i = 1 THEN s[i] ELSE g[i - 1] \o s[i]
    BY <2>2
  <2>4. g = [i \in 1 .. n + 1 |-> g[i]]
    OBVIOUS
  <2> HIDE DEF g
  <2>5. Joins(s, g, n + 1)
    BY <2>3, <2>4, Zenon DEF Joins
  <2> QED
    BY <2>5
<1> HIDE DEF T
<1>3. Nat \subseteq T
  BY <1>1, <1>2, NatInSet
<1> QED
  BY <1>3 DEF T

LEMMA FlattenJoins ==
  ASSUME NEW s, Len(s) \in Nat \ {0}
  PROVE  \E f : Joins(s, f, Len(s)) /\ FlattenSeq(s) = f[Len(s)]
<1> DEFINE f == CHOOSE flatten :
                  flatten = [i \in 1 .. Len(s) |-> IF i = 1 THEN s[i] ELSE flatten[i - 1] \o s[i]]
<1>1. FlattenSeq(s) = f[Len(s)]
  BY DEF FlattenSeq
<1>2. Joins(s, f, Len(s))
  <2>1. \E g : Joins(s, g, Len(s))
    BY JoinsExist
  <2>2. \E g : g = [i \in 1 .. Len(s) |-> IF i = 1 THEN s[i] ELSE g[i - 1] \o s[i]]
    BY <2>1 DEF Joins
  <2>3. f = [i \in 1 .. Len(s) |-> IF i = 1 THEN s[i] ELSE f[i - 1] \o s[i]]
    BY <2>2, Zenon
  <2> QED
    BY <2>3 DEF Joins
<1> QED
  BY <1>1, <1>2

LEMMA FlattenEmpty == FlattenSeq(<<>>) = <<>>
BY DEF FlattenSeq

LEMMA FlattenType == ASSUME NEW s \in Seq(Bytes) PROVE FlattenSeq(s) \in Bytes
<1>0. Len(s) \in Nat /\ \A i \in 1 .. Len(s) : s[i] \in Bytes
  BY LenProperties, ElementOfSeq
<1>1. CASE Len(s) = 0
  BY <1>1, FlattenEmpty, EmptySeq DEF FlattenSeq, Bytes
<1>2. CASE Len(s) # 0
  <2>1. PICK f : Joins(s, f, Len(s)) /\ FlattenSeq(s) = f[Len(s)]
    BY <1>0, <1>2, FlattenJoins
  <2>2. \A i \in 1 .. Len(s) : f[i] = IF i = 1 THEN s[i] ELSE f[i - 1] \o s[i]
    BY <2>1 DEF Joins
  <2> DEFINE T == {n \in Nat : n \in 1 .. Len(s) => f[n] \in Bytes}
  <2>3. 0 \in T
    OBVIOUS
  <2>4. ASSUME NEW n \in Nat, n \in T PROVE n + 1 \in T
    <3> SUFFICES ASSUME n + 1 \in 1 .. Len(s) PROVE f[n + 1] \in Bytes
      OBVIOUS
    <3>1. CASE n = 0
      BY <1>0, <2>2, <3>1
    <3>2. CASE n # 0
      <4>1. f[n] \in Bytes /\ s[n + 1] \in Bytes
        BY <1>0, <2>4, <3>2
      <4>0. n + 1 # 1 /\ (n + 1) - 1 = n
        BY <3>2
      <4>2. f[n + 1] = f[n] \o s[n + 1]
        BY <2>2, <4>0
      <4> QED
        BY <4>1, <4>2, ConcatIs DEF Bytes
    <3> QED
      BY <3>1, <3>2
  <2> HIDE DEF T
  <2>5. Nat \subseteq T
    BY <2>3, <2>4, NatInSet
  <2> QED
    BY <1>0, <1>2, <2>1, <2>5 DEF T
<1> QED
  BY <1>1, <1>2

\* One more sequence at the end.
LEMMA FlattenAppend ==
  ASSUME NEW s \in Seq(Bytes), NEW e \in Bytes
  PROVE  FlattenSeq(Append(s, e)) = FlattenSeq(s) \o e
<1> DEFINE a == Append(s, e)
<1>1. /\ a \in Seq(Bytes) /\ Len(a) = Len(s) + 1 /\ Len(s) \in Nat
      /\ a[Len(s) + 1] = e /\ \A i \in 1 .. Len(s) : a[i] = s[i]
  BY AppendProperties, LenProperties
<1> HIDE DEF a
<1>2. PICK g : Joins(a, g, Len(a)) /\ FlattenSeq(a) = g[Len(a)]
  <2>1. Len(a) \in Nat \ {0}
    BY <1>1
  <2> QED
    BY <2>1, FlattenJoins
<1>3. \A i \in 1 .. Len(s) + 1 : g[i] = IF i = 1 THEN a[i] ELSE g[i - 1] \o a[i]
  BY <1>1, <1>2 DEF Joins
<1>4. CASE Len(s) = 0
  <2>1. g[1] = e
    BY <1>1, <1>3, <1>4
  <2>2. FlattenSeq(s) = <<>>
    BY <1>4, EmptySeq DEF FlattenSeq
  <2>3. <<>> \o e = e
    BY ConcatEmptySeq DEF Bytes
  <2> QED
    BY <1>1, <1>2, <1>4, <2>1, <2>2, <2>3 DEF a
<1>5. CASE Len(s) # 0
  <2>1. PICK f : Joins(s, f, Len(s)) /\ FlattenSeq(s) = f[Len(s)]
    BY <1>1, <1>5, FlattenJoins
  <2>2. \A i \in 1 .. Len(s) : f[i] = IF i = 1 THEN s[i] ELSE f[i - 1] \o s[i]
    BY <2>1 DEF Joins
  <2> DEFINE T == {n \in Nat : n \in 1 .. Len(s) => f[n] = g[n]}
  <2>3. 0 \in T
    OBVIOUS
  <2>4. ASSUME NEW n \in Nat, n \in T PROVE n + 1 \in T
    <3> SUFFICES ASSUME n + 1 \in 1 .. Len(s) PROVE f[n + 1] = g[n + 1]
      OBVIOUS
    <3>0. a[n + 1] = s[n + 1] /\ n + 1 \in 1 .. Len(s) + 1
      BY <1>1
    <3>1. CASE n = 0
      BY <1>3, <2>2, <3>0, <3>1
    <3>2. CASE n # 0
      <4>1. f[n] = g[n]
        BY <1>1, <2>4, <3>2
      <4>0. n + 1 # 1 /\ (n + 1) - 1 = n
        BY <3>2
      <4>2. f[n + 1] = f[n] \o s[n + 1] /\ g[n + 1] = g[n] \o a[n + 1]
        BY <1>3, <2>2, <3>0, <4>0
      <4> QED
        BY <3>0, <4>1, <4>2
    <3> QED
      BY <3>1, <3>2
  <2> HIDE DEF T
  <2>5. Nat \subseteq T
    BY <2>3, <2>4, NatInSet
  <2>6. f[Len(s)] = g[Len(s)]
    BY <1>1, <1>5, <2>5 DEF T
  <2>7. g[Len(s) + 1] = g[Len(s)] \o e
    <3>1. Len(s) + 1 \in 1 .. Len(s) + 1 /\ Len(s) + 1 # 1 /\ (Len(s) + 1) - 1 = Len(s)
      BY <1>1, <1>5
    <3>2. g[Len(s) + 1] = g[Len(s)] \o a[Len(s) + 1]
      BY <1>3, <3>1
    <3> QED
      BY <1>1, <3>2
  <2> QED
    BY <1>1, <1>2, <2>1, <2>6, <2>7 DEF a
<1> QED
  BY <1>1, <1>4, <1>5

\* One more sequence at the start.
LEMMA FlattenFirst ==
  ASSUME NEW e \in Bytes
  PROVE  \A s \in Seq(Bytes) : FlattenSeq(<<e>> \o s) = e \o FlattenSeq(s)
<1> DEFINE P(s) == FlattenSeq(<<e>> \o s) = e \o FlattenSeq(s)
           T == {n \in Nat : \A s \in Seq(Bytes) : Len(s) = n => P(s)}
<1>0. <<e>> \in Seq(Bytes)
  OBVIOUS
<1>1. 0 \in T
  <2> SUFFICES P(<<>>)
    BY EmptySeq
  <2>1. <<e>> \o <<>> = Append(<<>>, e)
    <3>1. <<e>> \o <<>> = <<e>>
      BY <1>0, ConcatEmptySeq
    <3>2. Append(<<>>, e) = <<e>>
      OBVIOUS
    <3> QED
      BY <3>1, <3>2
  <2>2. FlattenSeq(Append(<<>>, e)) = <<>> \o e
    BY EmptySeq, FlattenEmpty, FlattenAppend
  <2>3. <<>> \o e = e /\ e \o <<>> = e
    BY ConcatEmptySeq DEF Bytes
  <2> QED
    BY <2>1, <2>2, <2>3, FlattenEmpty
<1>2. ASSUME NEW n \in Nat, n \in T PROVE n + 1 \in T
  <2> SUFFICES ASSUME NEW s \in Seq(Bytes), Len(s) = n + 1 PROVE P(s)
    OBVIOUS
  <2>1. PICK t \in Seq(Bytes), x \in Bytes : s = Append(t, x)
    <3>1. s # <<>>
      OBVIOUS
    <3> QED
      BY <3>1, SequenceEmptyOrAppend
  <2>2. Len(t) = n
    <3>1. Len(s) = Len(t) + 1 /\ Len(t) \in Nat
      BY <2>1, AppendProperties, LenProperties
    <3> QED
      BY <3>1
  <2>3. P(t)
    BY <1>2, <2>2
  <2>4. <<e>> \o s = Append(<<e>> \o t, x) /\ <<e>> \o t \in Seq(Bytes)
    <3>1. s = t \o <<x>> /\ <<x>> \in Seq(Bytes)
      BY <2>1, AppendIsConcat
    <3>2. (<<e>> \o t) \o <<x>> = <<e>> \o (t \o <<x>>) /\ <<e>> \o t \in Seq(Bytes)
      BY <1>0, <3>1, ConcatAssociative, ConcatIs
    <3>3. Append(<<e>> \o t, x) = (<<e>> \o t) \o <<x>>
      BY <3>2, AppendIsConcat
    <3> QED
      BY <3>1, <3>2, <3>3
  <2>5. FlattenSeq(<<e>> \o s) = FlattenSeq(<<e>> \o t) \o x
    BY <2>4, FlattenAppend
  <2>6. FlattenSeq(s) = FlattenSeq(t) \o x
    BY <2>1, FlattenAppend
  <2>7. (e \o FlattenSeq(t)) \o x = e \o (FlattenSeq(t) \o x)
    <3>1. FlattenSeq(t) \in Seq(Nat) /\ e \in Seq(Nat) /\ x \in Seq(Nat)
      BY FlattenType DEF Bytes
    <3> QED
      BY <3>1, ConcatAssociative
  <2> QED
    BY <2>3, <2>5, <2>6, <2>7
<1> HIDE DEF T, P
<1>3. Nat \subseteq T
  BY <1>1, <1>2, NatInSet
<1> QED
  BY <1>3, LenProperties DEF T, P

-----------------------------------------------------------------------------
(* The least and the greatest. *)

LEMMA MinIs ==
  ASSUME NEW S, S \subseteq Nat, S # {}
  PROVE  Min(S) \in S /\ \A x \in S : Min(S) <= x
BY NatHasMin DEF Min

LEMMA MaxIs ==
  ASSUME NEW N \in Nat, NEW S, S \subseteq 1 .. N, S # {}
  PROVE  Max(S) \in S
<1> DEFINE T == {N - x : x \in S}
<1>1. T \subseteq Nat /\ T # {}
  <2>1. PICK x : x \in S
    OBVIOUS
  <2>2. N - x \in T
    BY <2>1
  <2> QED
    BY <2>2
<1>2. PICK m \in T : \A y \in T : m <= y
  BY <1>1, NatHasMin
<1>3. PICK x \in S : m = N - x
  BY <1>2
<1>4. \A y \in S : x >= y
  <2> SUFFICES ASSUME NEW y \in S PROVE x >= y
    OBVIOUS
  <2>1. N - x <= N - y
    BY <1>2, <1>3
  <2>2. x \in Nat /\ y \in Nat
    OBVIOUS
  <2> QED
    BY <2>1, <2>2
<1> QED
  BY <1>4 DEF Max

LEMMA MinOfTwo == ASSUME NEW a \in Nat, NEW b \in Nat
                  PROVE  Min({a, b}) \in Nat /\ Min({a, b}) <= a /\ Min({a, b}) <= b
                         /\ (Min({a, b}) = a \/ Min({a, b}) = b)
<1>1. {a, b} \subseteq Nat /\ {a, b} # {}
  OBVIOUS
<1>2. Min({a, b}) \in {a, b} /\ \A x \in {a, b} : Min({a, b}) <= x
  BY <1>1, MinIs
<1> QED
  BY <1>2

-----------------------------------------------------------------------------
(* What connections and links are. *)

\* what buffers hold
InBuf == {b \in Seq(Nat) : Len(b) <= BufSize}
OutBuf == {b \in Seq(Nat) : Len(b) < BufSize}

Conn ==
    [state : {"CLOSED", "TCPCONNECT", "WAITDATA", "LIVE"}, serial : Nat, sock : Nat,
     datawaiting : BOOLEAN, in : InBuf, out : OutBuf, pingprogeny : Nodes \cup {NONE}]

Packets == {SCOUT, HELLO, DATA}

\* what a socket takes
Stream == {b \in Seq(Nat) : Len(b) <= Cap}

LinkOf(f, t) ==
    [from : {f}, to : {t}, open : SUBSET {f, t}, accepted : BOOLEAN,
     wire : [{f, t} -> Stream], sent : [{f, t} -> Seq(Packets)], got : [{f, t} -> Seq(Bytes)]]

Link == UNION {LinkOf(e[1], e[2]) : e \in {d \in Nodes \X Nodes : d[1] # d[2]}}

LEMMA LinkIs ==
  ASSUME NEW k
  PROVE  k \in Link <=> \E f, t \in Nodes : f # t /\ k \in LinkOf(f, t)
<1>1. ASSUME k \in Link PROVE \E f, t \in Nodes : f # t /\ k \in LinkOf(f, t)
  BY <1>1 DEF Link
<1>2. ASSUME NEW f \in Nodes, NEW t \in Nodes, f # t, k \in LinkOf(f, t) PROVE k \in Link
  <2> DEFINE e == <<f, t>>
  <2>1. e \in {d \in Nodes \X Nodes : d[1] # d[2]} /\ e[1] = f /\ e[2] = t
    BY <1>2
  <2> HIDE DEF e
  <2>2. k \in LinkOf(e[1], e[2])
    BY <1>2, <2>1
  <2> QED
    BY <2>1, <2>2 DEF Link
<1> QED
  BY <1>1, <1>2

LEMMA LinkHas ==
  ASSUME NEW k \in Link
  PROVE  /\ k.from \in Nodes /\ k.to \in Nodes /\ k.from # k.to
         /\ k.open \subseteq {k.from, k.to} /\ k.accepted \in BOOLEAN
         /\ k.wire \in [{k.from, k.to} -> Stream]
         /\ k.sent \in [{k.from, k.to} -> Seq(Packets)]
         /\ k.got \in [{k.from, k.to} -> Seq(Bytes)]
         /\ k \in LinkOf(k.from, k.to)
<1>1. PICK f, t \in Nodes : f # t /\ k \in LinkOf(f, t)
  BY LinkIs
<1> QED
  BY <1>1 DEF LinkOf

LEMMA SizesAre ==
  TRANSPORT_MTU \in Nat /\ Cap \in Nat \ {0} /\ BufSize \in Nat /\ BufSize = TRANSPORT_MTU + 2
<1>1. TRANSPORT_MTU \in Nat /\ Cap \in Nat \ {0}
  BY TcpAssumption
<1> QED
  BY <1>1 DEF BufSize

LEMMA EmptyStream == <<>> \in Bytes /\ <<>> \in Stream /\ <<>> \in InBuf /\ <<>> \in OutBuf
BY EmptySeq, SizesAre DEF Bytes, Stream, InBuf, OutBuf

\* The same link with other contents.
LEMMA LinkWith ==
  ASSUME NEW k \in Link, NEW d \in LinkOf(k.from, k.to)
  PROVE  d \in Link
<1>1. k.from \in Nodes /\ k.to \in Nodes /\ k.from # k.to
  BY LinkHas
<1> QED
  BY <1>1, LinkIs

LEMMA ClosedLink ==
  ASSUME NEW k \in Link, NEW n \in {k.from, k.to}
  PROVE  /\ ClosedAt(k, n) \in Link
         /\ ClosedAt(k, n) = [k EXCEPT !.open = k.open \ {n}, !.wire = [k.wire EXCEPT ![n] = <<>>]]
         /\ ClosedAt(k, n).from = k.from /\ ClosedAt(k, n).to = k.to
         /\ ClosedAt(k, n).accepted = k.accepted /\ ClosedAt(k, n).open = k.open \ {n}
<1>1. k \in LinkOf(k.from, k.to)
  BY LinkHas
<1>2. <<>> \in Stream
  BY EmptyStream
<1>3. ClosedAt(k, n) = [k EXCEPT !.open = k.open \ {n}, !.wire = [k.wire EXCEPT ![n] = <<>>]]
  BY <1>1 DEF ClosedAt, LinkOf
<1>4. k.wire \in [{k.from, k.to} -> Stream] /\ k.open \subseteq {k.from, k.to}
  BY LinkHas
<1>5. [k.wire EXCEPT ![n] = <<>>] \in [{k.from, k.to} -> Stream]
  BY <1>2, <1>4
<1>6. ClosedAt(k, n) \in LinkOf(k.from, k.to)
  BY <1>1, <1>3, <1>4, <1>5 DEF LinkOf
<1> QED
  BY <1>1, <1>3, <1>6, LinkWith DEF LinkOf

\* What is said of an end of a link: bytes on the way to the other end, a packet sent.
Written(k, n, bytes, c, q) == [WrittenAt(k, n, bytes, c) EXCEPT !.sent[n] = q]

WrittenAs(d, k, n, bytes, c, q) ==
  /\ d \in Link /\ d.from = k.from /\ d.to = k.to
  /\ d.accepted = k.accepted /\ d.open = k.open /\ d.got = k.got
  /\ Other(k, n) \in {k.from, k.to} \ {n}
  /\ d.wire[Other(k, n)] = k.wire[Other(k, n)] \o SubSeq(bytes, 1, c)
  /\ d.wire[n] = k.wire[n]
  /\ d.sent[n] = q /\ d.sent[Other(k, n)] = k.sent[Other(k, n)]

LEMMA WrittenLink ==
  ASSUME NEW k \in Link, NEW n \in {k.from, k.to}, NEW bytes \in Bytes,
         NEW c \in 0 .. Len(bytes), NEW q \in Seq(Packets),
         Len(k.wire[Other(k, n)]) + c <= Cap
  PROVE  WrittenAs(Written(k, n, bytes, c, q), k, n, bytes, c, q)
<1> DEFINE m == Other(k, n)
           w == k.wire[m] \o SubSeq(bytes, 1, c)
           d == Written(k, n, bytes, c, q)
<1>1. /\ k \in LinkOf(k.from, k.to) /\ k.from # k.to
      /\ k.wire \in [{k.from, k.to} -> Stream] /\ k.sent \in [{k.from, k.to} -> Seq(Packets)]
  BY LinkHas
<1>2. m \in {k.from, k.to} /\ m # n
  BY <1>1 DEF Other
<1>3. w \in Stream
  <2>1. /\ SubSeq(bytes, 1, c) \in Seq(Nat) /\ Len(SubSeq(bytes, 1, c)) = c
        /\ k.wire[m] \in Seq(Nat)
    BY <1>1, <1>2, FirstIs DEF Bytes, Stream
  <2>2. w \in Seq(Nat) /\ Len(w) = Len(k.wire[m]) + c
    BY <2>1, ConcatIs
  <2> QED
    BY <2>2 DEF Stream
<1>4. d = [k EXCEPT !.wire = [k.wire EXCEPT ![m] = w], !.sent = [k.sent EXCEPT ![n] = q]]
  BY <1>1 DEF Written, WrittenAt, LinkOf
<1> HIDE DEF m, w, d
<1>5. [k.wire EXCEPT ![m] = w] \in [{k.from, k.to} -> Stream]
  BY <1>1, <1>2, <1>3
<1>6. [k.sent EXCEPT ![n] = q] \in [{k.from, k.to} -> Seq(Packets)]
  BY <1>1
<1>7. d \in LinkOf(k.from, k.to)
  BY <1>1, <1>4, <1>5, <1>6 DEF LinkOf
<1>8. /\ d.from = k.from /\ d.to = k.to /\ d.accepted = k.accepted /\ d.open = k.open
      /\ d.got = k.got /\ d.wire = [k.wire EXCEPT ![m] = w]
      /\ d.sent = [k.sent EXCEPT ![n] = q]
  BY <1>1, <1>4 DEF LinkOf
<1>9. d \in Link
  BY <1>7, LinkWith
<1>10. d.wire[m] = w /\ d.wire[n] = k.wire[n] /\ d.sent[n] = q /\ d.sent[m] = k.sent[m]
  BY <1>1, <1>2, <1>8
<1> QED
  BY <1>2, <1>8, <1>9, <1>10 DEF m, w, d, WrittenAs

ReadFrom(d, k, n, w) ==
  /\ d \in Link /\ d.from = k.from /\ d.to = k.to
  /\ d.accepted = k.accepted /\ d.open = k.open /\ d.sent = k.sent
  /\ d.wire = [k.wire EXCEPT ![n] = w]

LEMMA ReadLink ==
  ASSUME NEW k \in Link, NEW n \in {k.from, k.to}, NEW w \in Stream, NEW g \in Seq(Bytes)
  PROVE  /\ ReadFrom([[k EXCEPT !.wire[n] = w] EXCEPT !.got[n] = g], k, n, w)
         /\ [[k EXCEPT !.wire[n] = w] EXCEPT !.got[n] = g].got = [k.got EXCEPT ![n] = g]
         /\ ReadFrom([k EXCEPT !.wire[n] = w], k, n, w)
         /\ [k EXCEPT !.wire[n] = w].got = k.got
<1> DEFINE d == [[k EXCEPT !.wire[n] = w] EXCEPT !.got[n] = g]
           r == [k EXCEPT !.wire[n] = w]
<1>1. /\ k \in LinkOf(k.from, k.to)
      /\ k.wire \in [{k.from, k.to} -> Stream] /\ k.got \in [{k.from, k.to} -> Seq(Bytes)]
  BY LinkHas
<1>2. /\ r = [k EXCEPT !.wire = [k.wire EXCEPT ![n] = w]]
      /\ d = [k EXCEPT !.wire = [k.wire EXCEPT ![n] = w], !.got = [k.got EXCEPT ![n] = g]]
  BY <1>1 DEF LinkOf
<1> HIDE DEF d, r
<1>3. [k.wire EXCEPT ![n] = w] \in [{k.from, k.to} -> Stream]
      /\ [k.got EXCEPT ![n] = g] \in [{k.from, k.to} -> Seq(Bytes)]
  BY <1>1
<1>4. r \in LinkOf(k.from, k.to) /\ d \in LinkOf(k.from, k.to)
  BY <1>1, <1>2, <1>3 DEF LinkOf
<1>5. r \in Link /\ d \in Link
  BY <1>4, LinkWith
<1>6. /\ d.from = k.from /\ d.to = k.to /\ d.accepted = k.accepted /\ d.open = k.open
      /\ d.sent = k.sent /\ d.wire = [k.wire EXCEPT ![n] = w] /\ d.got = [k.got EXCEPT ![n] = g]
      /\ r.from = k.from /\ r.to = k.to /\ r.accepted = k.accepted /\ r.open = k.open
      /\ r.sent = k.sent /\ r.wire = [k.wire EXCEPT ![n] = w] /\ r.got = k.got
  BY <1>1, <1>2 DEF LinkOf
<1> QED
  BY <1>5, <1>6 DEF d, r, ReadFrom

\* k is a new link from f to t
Made(k, f, t) == k \in Link /\ k.from = f /\ k.to = t /\ k.open = {f, t} /\ k.accepted = FALSE

LEMMA LinkMade ==
  ASSUME NEW f \in Nodes, NEW t \in Nodes, f # t
  PROVE  Made(NewLink(f, t), f, t)
<1>1. <<>> \in Stream /\ <<>> \in Seq(Packets) /\ <<>> \in Seq(Bytes)
  BY EmptySeq, EmptyStream
<1>2. NewLink(f, t) \in LinkOf(f, t)
  BY <1>1 DEF NewLink, LinkOf
<1> QED
  BY <1>2, LinkIs DEF NewLink, Made

LEMMA LinkAccepted ==
  ASSUME NEW k \in Link
  PROVE  LET d == [k EXCEPT !.accepted = TRUE]
         IN  /\ d \in Link /\ d.from = k.from /\ d.to = k.to /\ d.open = k.open
             /\ d.accepted = TRUE /\ d.wire = k.wire /\ d.sent = k.sent /\ d.got = k.got
<1>1. k \in LinkOf(k.from, k.to)
  BY LinkHas
<1>2. [k EXCEPT !.accepted = TRUE] \in LinkOf(k.from, k.to)
  BY <1>1 DEF LinkOf
<1>3. [k EXCEPT !.accepted = TRUE] \in Link
  BY <1>2, LinkWith
<1> QED
  BY <1>1, <1>3 DEF LinkOf

-----------------------------------------------------------------------------
(* The invariant of the connections. *)

Tables ==
  /\ conns \in [Nodes -> UNION {[Idx(n) -> Conn] : n \in Nodes}]
  /\ \A n \in Nodes : conns[n] \in [Idx(n) -> Conn]
  /\ links \in Seq(Link)
  /\ known \in [Nodes -> SUBSET ((Nat \X Nat) \X Nat)]
  /\ \A n \in Nodes : \A k \in known[n] : k[1][1] \in Idx(n)

\* a whole frame in the buffer is known of
FrameDue(c) ==
  decvle14(c.in).n > 0 /\ Len(c.in) >= decvle14(c.in).n + decvle14(c.in).val =>
     c.datawaiting

\* a link over which the end that connects has said nothing yet
Silent(link) == link.sent[link.from] = <<>> /\ link.wire[link.to] = <<>>

\* n has connection c, over one of the links ls, and only data when it is live
EndOK(n, c, ls) ==
  /\ c.state = "CLOSED" => c = ClosedConn(c.serial)
  /\ c.state # "LIVE" => c.in = <<>> /\ c.out = <<>> /\ ~c.datawaiting
  /\ FrameDue(c)
  /\ c.state # "CLOSED" =>
        /\ c.sock \in DOMAIN ls /\ n \in ls[c.sock].open
        /\ n = ls[c.sock].to => ls[c.sock].accepted
  /\ c.state = "TCPCONNECT" => n = ls[c.sock].from /\ Silent(ls[c.sock])

\* the connections of a node do not share a socket, or an address they were made for
Apart(ids, cs) ==
  \A i, j \in ids :
     cs[i].state # "CLOSED" /\ cs[j].state # "CLOSED" /\ i # j =>
        /\ cs[i].sock # cs[j].sock
        /\ cs[i].pingprogeny # NONE => cs[i].pingprogeny # cs[j].pingprogeny

\* an address tells the connection it came with from the later ones
KnownOK(k, cs) ==
  LET c == cs[k[1][1]]
  IN  k[1][2] <= c.serial /\ (c.state = "LIVE" /\ c.serial = k[1][2] => c.sock = k[2])

\* a link that waits to be accepted waits for an end that is open
Waits(link) == ~link.accepted => link.to \in link.open

ConnInv ==
  /\ Tables
  /\ \A n \in Nodes : \A i \in Idx(n) : EndOK(n, conns[n][i], links)
  /\ \A n \in Nodes : Apart(Idx(n), conns[n])
  /\ \A n \in Nodes : \A k \in known[n] : KnownOK(k, conns[n])
  /\ \A l \in DOMAIN links : Waits(links[l])

-----------------------------------------------------------------------------
(* Steps of one node. *)

\* n does to the links ls what it may, and they become ms.
LinksGo(n, ls, ms) ==
  /\ ms \in Seq(Link) /\ DOMAIN ls \subseteq DOMAIN ms
  /\ \A l \in DOMAIN ls : /\ ms[l].from = ls[l].from /\ ms[l].to = ls[l].to
                          /\ ls[l].accepted => ms[l].accepted
                          /\ ls[l].open \ {n} \subseteq ms[l].open
                          /\ ls[l].from # n /\ Silent(ls[l]) => Silent(ms[l])
  /\ \A l \in DOMAIN ms : Waits(ms[l])

\* a connection that is live was live before over the same link, or it has a new serial
Moves(c, d) ==
  /\ d.serial >= c.serial
  /\ d.state = "LIVE" =>
        d.serial > c.serial \/ (c.state = "LIVE" /\ d.serial = c.serial /\ d.sock = c.sock)

LEMMA StepOfNode ==
  ASSUME ConnInv, NEW n \in Nodes, NEW ds \in [Idx(n) -> Conn],
         conns' = [conns EXCEPT ![n] = ds],
         LinksGo(n, links, links'),
         \A i \in Idx(n) : EndOK(n, ds[i], links') /\ Moves(conns[n][i], ds[i]),
         Apart(Idx(n), ds),
         known' \in [Nodes -> SUBSET ((Nat \X Nat) \X Nat)],
         \A m \in Nodes \ {n} : known'[m] = known[m],
         \A k \in known'[n] : k[1][1] \in Idx(n) /\ (k \in known[n] \/ KnownOK(k, ds))
  PROVE  ConnInv'
<1>1. /\ conns' \in [Nodes -> UNION {[Idx(m) -> Conn] : m \in Nodes}]
      /\ conns'[n] = ds
      /\ \A m \in Nodes : m # n => conns'[m] = conns[m]
  BY DEF ConnInv, Tables
<1>2. \A m \in Nodes : conns[m] \in [Idx(m) -> Conn] /\ conns'[m] \in [Idx(m) -> Conn]
  BY <1>1 DEF ConnInv, Tables
<1>3. Tables'
  <2>1. ASSUME NEW m \in Nodes, NEW k \in known'[m] PROVE k[1][1] \in Idx(m)
    BY DEF ConnInv, Tables
  <2>2. links' \in Seq(Link)
    BY DEF LinksGo
  <2> QED
    BY <1>1, <1>2, <2>1, <2>2 DEF Tables, Idx
<1>4. ASSUME NEW m \in Nodes, NEW i \in Idx(m) PROVE EndOK(m, conns'[m][i], links')
  <2>1. CASE m = n
    BY <1>1, <2>1
  <2>2. CASE m # n
    <3>1. EndOK(m, conns[m][i], links) /\ conns'[m][i] = conns[m][i]
      BY <1>1, <2>2 DEF ConnInv
    <3> DEFINE c == conns[m][i]
    <3>2. EndOK(m, c, links) => EndOK(m, c, links')
      <4> HIDE DEF c
      <4> QED
        BY <2>2 DEF EndOK, LinksGo
    <3> QED
      BY <3>1, <3>2
  <2> QED
    BY <2>1, <2>2
<1>5. ASSUME NEW m \in Nodes PROVE Apart(Idx(m), conns'[m])
  BY <1>1 DEF ConnInv
<1>6. ASSUME NEW m \in Nodes, NEW k \in known'[m] PROVE KnownOK(k, conns'[m])
  <2>1. CASE m = n /\ k \in known[n]
    <3> DEFINE c == conns[n][k[1][1]]
               d == ds[k[1][1]]
    <3>1. KnownOK(k, conns[n]) /\ k[1][1] \in Idx(n) /\ k[1][2] \in Nat
      BY <2>1 DEF ConnInv, Tables
    <3>2. Moves(c, d) /\ c \in Conn /\ d \in Conn
      BY <1>2, <3>1
    <3>3. c.serial \in Nat /\ d.serial \in Nat
      BY <3>2 DEF Conn
    <3>4. k[1][2] <= c.serial /\ (c.state = "LIVE" /\ c.serial = k[1][2] => c.sock = k[2])
      BY <3>1 DEF KnownOK
    <3> HIDE DEF c, d
    <3>5. k[1][2] <= d.serial /\ (d.state = "LIVE" /\ d.serial = k[1][2] => d.sock = k[2])
      BY <3>1, <3>2, <3>3, <3>4 DEF Moves
    <3> QED
      BY <1>1, <2>1, <3>5 DEF KnownOK, d
  <2>2. CASE m = n /\ k \notin known[n]
    BY <1>1, <2>2
  <2>3. CASE m # n
    BY <1>1, <2>3 DEF ConnInv
  <2> QED
    BY <2>1, <2>2, <2>3
<1>7. \A l \in DOMAIN links' : Waits(links'[l])
  BY DEF LinksGo
<1>8. \A m \in Nodes : \A i \in (Idx(m))' : EndOK(m, conns'[m][i], links')
  BY <1>4 DEF Idx
<1> QED
  BY <1>3, <1>5, <1>6, <1>7, <1>8 DEF ConnInv, Idx

\* a connection in use keeps its socket and the address it was made for
Stays(c, d) ==
  d.state # "CLOSED" =>
     c.state # "CLOSED" /\ d.sock = c.sock /\ d.pingprogeny = c.pingprogeny

LEMMA ApartKept ==
  ASSUME NEW ids, NEW cs, NEW ds, Apart(ids, cs), \A i \in ids : Stays(cs[i], ds[i])
  PROVE  Apart(ids, ds)
BY DEF Apart, Stays

\* what EndOK says of the connection alone
DataOK(c) ==
  /\ c.state = "CLOSED" => c = ClosedConn(c.serial)
  /\ c.state # "LIVE" => c.in = <<>> /\ c.out = <<>> /\ ~c.datawaiting
  /\ FrameDue(c)

LEMMA ClosedIs ==
  ASSUME NEW c \in Conn
  PROVE  /\ make_closed(c) \in Conn /\ make_closed(c).state = "CLOSED"
         /\ make_closed(c).serial = c.serial
         /\ DataOK(make_closed(c)) /\ Stays(c, make_closed(c)) /\ Moves(c, make_closed(c))
<1>1. c.serial \in Nat
  BY DEF Conn
<1>2. decvle14(<<>>).n = -1
  BY DEF decvle14
<1> QED
  BY <1>1, <1>2, EmptyStream DEF make_closed, ClosedConn, Conn, DataOK, FrameDue, Stays, Moves

\* A step of one connection in use and its link.
LEMMA OneConnection ==
  ASSUME ConnInv, NEW n \in Nodes, NEW i \in Idx(n), NEW d \in Conn, NEW k \in Link,
         conns[n][i].state \in {"WAITDATA", "LIVE"},
         conns' = [conns EXCEPT ![n][i] = d],
         links' = [links EXCEPT ![conns[n][i].sock] = k],
         LET o == links[conns[n][i].sock]
         IN  /\ k.from = o.from /\ k.to = o.to /\ k.accepted = o.accepted
             /\ o.open \ {n} \subseteq k.open
             /\ o.from # n /\ Silent(o) => Silent(k)
             /\ d.state # "CLOSED" => n \in k.open,
         d.state # "TCPCONNECT",
         DataOK(d), Stays(conns[n][i], d), Moves(conns[n][i], d),
         known' \in [Nodes -> SUBSET ((Nat \X Nat) \X Nat)],
         \A m \in Nodes \ {n} : known'[m] = known[m],
         \A x \in known'[n] : x \in known[n] \/ (x[1][1] = i /\ KnownOK(x, conns'[n]))
  PROVE  ConnInv'
<1> DEFINE ds == [conns[n] EXCEPT ![i] = d]
           l == conns[n][i].sock
<1>0. conns[n] \in [Idx(n) -> Conn] /\ links \in Seq(Link) /\ DOMAIN links = 1 .. Len(links)
  BY DEF ConnInv, Tables
<1>1. conns' = [conns EXCEPT ![n] = ds] /\ conns'[n] = ds
  BY DEF ConnInv, Tables
<1>2. ds \in [Idx(n) -> Conn] /\ ds[i] = d /\ \A j \in Idx(n) : j # i => ds[j] = conns[n][j]
  BY <1>0
<1>3. /\ EndOK(n, conns[n][i], links) /\ l \in DOMAIN links /\ n \in links[l].open
      /\ n = links[l].to => links[l].accepted
  BY DEF ConnInv, EndOK
<1>4. links' \in Seq(Link) /\ DOMAIN links' = DOMAIN links
      /\ links'[l] = k /\ \A q \in DOMAIN links : q # l => links'[q] = links[q]
  BY <1>0, <1>3
<1> HIDE DEF l, ds
<1>5. \A q \in DOMAIN links : Waits(links[q]) /\ Waits(links'[q])
  <2>1. \A q \in DOMAIN links : Waits(links[q])
    BY DEF ConnInv
  <2>2. Waits(k)
    BY <1>3, <2>1 DEF Waits, l
  <2> QED
    BY <1>4, <2>1, <2>2
<1>6. LinksGo(n, links, links')
  BY <1>4, <1>5 DEF LinksGo, l
<1>7. ASSUME NEW j \in Idx(n) PROVE EndOK(n, ds[j], links') /\ Moves(conns[n][j], ds[j])
  <2>1. CASE j = i
    BY <1>2, <1>3, <1>4, <2>1 DEF EndOK, DataOK, Stays, l
  <2>2. CASE j # i
    <3>1. ds[j] = conns[n][j] /\ EndOK(n, conns[n][j], links) /\ conns[n][j] \in Conn
      BY <1>0, <1>2, <2>2 DEF ConnInv
    <3>2. Apart(Idx(n), conns[n])
      BY DEF ConnInv
    <3>3. conns[n][j].state # "CLOSED" => conns[n][j].sock # l /\ conns[n][j].sock \in DOMAIN links
      BY <2>2, <3>1, <3>2 DEF Apart, EndOK, l
    <3>4. EndOK(n, conns[n][j], links')
      <4> DEFINE c == conns[n][j]
      <4>1. /\ EndOK(n, c, links)
            /\ c.state # "CLOSED" => c.sock \in DOMAIN links /\ links'[c.sock] = links[c.sock]
        BY <1>4, <3>1, <3>3
      <4> HIDE DEF c
      <4>2. EndOK(n, c, links')
        BY <1>4, <4>1 DEF EndOK
      <4> QED
        BY <4>2 DEF c
    <3>5. Moves(conns[n][j], ds[j])
      BY <3>1 DEF Moves, Conn
    <3> QED
      BY <3>1, <3>4, <3>5
  <2> QED
    BY <2>1, <2>2
<1>8. Apart(Idx(n), ds)
  <2>1. Apart(Idx(n), conns[n])
    BY DEF ConnInv
  <2>2. \A j \in Idx(n) : Stays(conns[n][j], ds[j])
    BY <1>2 DEF Stays
  <2> QED
    BY <2>1, <2>2, ApartKept
<1>9. \A x \in known'[n] : x[1][1] \in Idx(n) /\ (x \in known[n] \/ KnownOK(x, ds))
  BY <1>1 DEF ConnInv, Tables
<1> QED
  BY <1>1, <1>2, <1>6, <1>7, <1>8, <1>9, StepOfNode

-----------------------------------------------------------------------------
(* Closing, sending and receiving. *)

LEMMA CloseStep ==
  ASSUME ConnInv, NEW n \in Nodes, NEW i \in Idx(n), NEW throttle \in BOOLEAN,
         conns[n][i].state \in {"WAITDATA", "LIVE"}, Close(n, i, throttle)
  PROVE  ConnInv'
<1> DEFINE c == conns[n][i]
           o == links[c.sock]
<1>1. c \in Conn /\ o \in Link /\ n \in o.open /\ c.sock \in DOMAIN links
  BY DEF ConnInv, Tables, EndOK
<1>2. n \in {o.from, o.to}
  BY <1>1, LinkHas
<1>3. conns' = [conns EXCEPT ![n][i] = make_closed(c)]
      /\ links' = [links EXCEPT ![c.sock] = ClosedAt(o, n)] /\ known' = known
  BY DEF Close
<1>4. /\ ClosedAt(o, n) \in Link /\ ClosedAt(o, n).from = o.from /\ ClosedAt(o, n).to = o.to
      /\ ClosedAt(o, n).accepted = o.accepted /\ ClosedAt(o, n).open = o.open \ {n}
      /\ ClosedAt(o, n) = [o EXCEPT !.open = o.open \ {n}, !.wire = [o.wire EXCEPT ![n] = <<>>]]
  BY <1>1, <1>2, ClosedLink
<1>5. /\ make_closed(c) \in Conn /\ make_closed(c).state = "CLOSED"
      /\ DataOK(make_closed(c)) /\ Stays(c, make_closed(c)) /\ Moves(c, make_closed(c))
  BY <1>1, ClosedIs
<1>6. o.from # n /\ Silent(o) => Silent(ClosedAt(o, n))
  <2>1. /\ o.to = n => o.wire \in [{o.from, o.to} -> Stream]
        /\ o \in LinkOf(o.from, o.to)
    BY <1>1, LinkHas
  <2>2. o.from # n => o.to = n
    BY <1>2
  <2> HIDE DEF o
  <2>3. /\ ClosedAt(o, n).sent = o.sent /\ ClosedAt(o, n).wire = [o.wire EXCEPT ![n] = <<>>]
    BY <1>4, <2>1 DEF LinkOf
  <2> QED
    BY <1>4, <2>1, <2>2, <2>3 DEF Silent
<1>7. known \in [Nodes -> SUBSET ((Nat \X Nat) \X Nat)]
  BY DEF ConnInv, Tables
<1>8. o.open \ {n} \subseteq ClosedAt(o, n).open
  BY <1>4
<1> HIDE DEF c, o
<1>9. ASSUME NEW d, NEW k, d = make_closed(c), k = ClosedAt(o, n) PROVE ConnInv'
  BY <1>1, <1>3, <1>4, <1>5, <1>6, <1>7, <1>8, <1>9, OneConnection, Zenon DEF c, o
<1> QED
  BY <1>9

\* What zhe_platform_send_conn does to a connection and its link.
LEMMA BaseIsNotZero == Base \in Nat \ {0}
<1>1. {TRANSPORT_MTU, Base} \subseteq Nat /\ TRANSPORT_MTU < Base * Base
  BY TcpAssumption
<1>2. CASE Base = 0
  <2>1. Base * Base = 0
    BY <1>2
  <2> QED
    BY <1>1, <2>1
<1> QED
  BY <1>1, <1>2

LEMMA FrameIs ==
  ASSUME NEW pkt \in Seq(Nat)
  PROVE  /\ Frame(pkt) \in Bytes /\ Len(Frame(pkt)) >= Len(pkt) + 1
         /\ Len(Frame(pkt)) <= Len(pkt) + 2
<1>1. Len(pkt) \in Nat /\ Base \in Nat
  BY TcpAssumption, LenProperties
<1>2. encvle14(Len(pkt)) \in Seq(Nat) /\ Len(encvle14(Len(pkt))) \in {1, 2}
  <2>1. CASE Len(pkt) < Base
    BY <1>1, <2>1 DEF encvle14
  <2>2. CASE ~ (Len(pkt) < Base)
    <3>1. Base # 0
      BY BaseIsNotZero
    <3>2. Len(pkt) % Base \in Nat /\ Len(pkt) \div Base \in Nat
      BY <1>1, <3>1
    <3> QED
      BY <1>1, <2>2, <3>2 DEF encvle14
  <2> QED
    BY <2>1, <2>2
<1> DEFINE e == encvle14(Len(pkt))
<1> HIDE DEF e
<1>3. e \o pkt \in Seq(Nat) /\ Len(e \o pkt) = Len(e) + Len(pkt)
  BY <1>2, ConcatIs DEF e
<1>4. Len(e) + Len(pkt) >= Len(pkt) + 1 /\ Len(e) + Len(pkt) <= Len(pkt) + 2
  <2>1. Len(e) = 1 \/ Len(e) = 2
    BY <1>2 DEF e
  <2>2. \A a, b \in Nat : a = 1 \/ a = 2 => a + b >= b + 1 /\ a + b <= b + 2
    OBVIOUS
  <2> QED
    BY <1>1, <2>1, <2>2
<1>5. Frame(pkt) = e \o pkt
  BY DEF Frame, e
<1> QED
  BY <1>3, <1>4, <1>5 DEF Bytes

LEMMA PacketIs == ASSUME NEW pkt \in Packets
                  PROVE  /\ pkt \in Seq(Nat) /\ Len(pkt) \in 1 .. TRANSPORT_MTU
                         /\ Len(pkt) < Base * Base
                         /\ Frame(pkt) \in Bytes /\ Len(Frame(pkt)) \in Nat
<1>1. pkt \in Seq(Nat) /\ Len(pkt) \in 1 .. TRANSPORT_MTU
  BY TcpAssumption DEF Packets
<1>2. TRANSPORT_MTU \in Nat /\ Base * Base \in Int /\ TRANSPORT_MTU < Base * Base
  BY TcpAssumption
<1> DEFINE bb == Base * Base
<1>3. Len(pkt) < bb
  <2> HIDE DEF bb
  <2> QED
    BY <1>1, <1>2 DEF bb
<1> QED
  BY <1>1, <1>3, FrameIs DEF Bytes

\* How much is written of what was left and of the frame.
LEMMA AmountIs ==
  ASSUME NEW c \in Conn, NEW k \in Link, NEW n \in {k.from, k.to}, NEW pkt \in Packets
  PROVE  LET fo == FromOut(c, k, n)
             ff == FromFrame(c, k, n, pkt)
         IN  /\ fo \in 0 .. Len(c.out) /\ ff \in 0 .. Len(Frame(pkt))
             /\ fo < Len(c.out) => ff = 0
             /\ c.out \o Frame(pkt) \in Bytes
             /\ fo + ff \in 0 .. Len(c.out \o Frame(pkt))
             /\ Len(k.wire[Other(k, n)]) + (fo + ff) <= Cap
<1> DEFINE out == c.out
           w == k.wire[Other(k, n)]
           f == Frame(pkt)
           fo == FromOut(c, k, n)
           ff == FromFrame(c, k, n, pkt)
<1>1. out \in Seq(Nat) /\ Len(out) \in Nat
  BY LenProperties DEF Conn, OutBuf
<1>2. w \in Seq(Nat) /\ Len(w) \in Nat /\ Len(w) <= Cap /\ Cap \in Nat
  <2>1. w \in Stream
    BY LinkHas DEF Other
  <2> QED
    BY <2>1, LenProperties, TcpAssumption DEF Stream
<1>3. f \in Seq(Nat) /\ Len(f) \in Nat
  BY PacketIs DEF Bytes
<1>4. out \o f \in Seq(Nat) /\ Len(out \o f) = Len(out) + Len(f)
  BY <1>1, <1>3, ConcatIs
<1>5. /\ fo = Min({Len(out), Cap - Len(w)})
      /\ ff = IF fo < Len(out) THEN 0 ELSE Min({Len(f), (Cap - Len(w)) - Len(out)})
  BY DEF FromOut, FromFrame, SpaceLeft
<1> HIDE DEF out, w, f, fo, ff
<1>6. Cap - Len(w) \in Nat
  BY <1>2
<1>7. fo \in Nat /\ fo <= Len(out) /\ fo <= Cap - Len(w) /\ (fo = Len(out) \/ fo = Cap - Len(w))
  BY <1>1, <1>5, <1>6, MinOfTwo
<1>8. CASE fo < Len(out)
  <2>1. ff = 0
    BY <1>5, <1>8
  <2>2. fo + ff = fo /\ fo \in 0 .. Len(out) + Len(f) /\ Len(w) + fo <= Cap
    BY <1>1, <1>2, <1>3, <1>7, <2>1
  <2> QED
    BY <1>1, <1>2, <1>3, <1>4, <1>7, <2>1, <2>2 DEF out, w, f, fo, ff, Bytes
<1>9. CASE ~ (fo < Len(out))
  <2>1. fo = Len(out) /\ (Cap - Len(w)) - Len(out) \in Nat
    BY <1>1, <1>2, <1>7, <1>9
  <2>2. ff \in Nat /\ ff <= Len(f) /\ ff <= (Cap - Len(w)) - Len(out)
    BY <1>3, <1>5, <1>9, <2>1, MinOfTwo
  <2>3. fo + ff \in 0 .. Len(out) + Len(f) /\ Len(w) + (fo + ff) <= Cap
    BY <1>1, <1>2, <1>3, <2>1, <2>2
  <2> QED
    BY <1>1, <1>2, <1>3, <1>4, <1>7, <1>9, <2>1, <2>2, <2>3 DEF out, w, f, fo, ff, Bytes
<1> QED
  BY <1>8, <1>9

\* what is left over then, and the packets sent
Left(c, k, n, pkt) ==
  IF FromFrame(c, k, n, pkt) = 0 THEN Rest(c.out, FromOut(c, k, n))
  ELSE Leftover(Frame(pkt), FromFrame(c, k, n, pkt))
Sends(c, k, n, pkt) ==
  IF FromFrame(c, k, n, pkt) = 0 THEN k.sent[n] ELSE Append(k.sent[n], pkt)

SentOn(d, e, c, k, n, pkt) ==
  /\ d = [c EXCEPT !.out = Left(c, k, n, pkt)] /\ Left(c, k, n, pkt) \in OutBuf
  /\ WrittenAs(e, k, n, c.out \o Frame(pkt),
               FromOut(c, k, n) + FromFrame(c, k, n, pkt), Sends(c, k, n, pkt))

LEMMA SentParts ==
  ASSUME NEW c \in Conn, NEW k \in Link, NEW n \in {k.from, k.to}, NEW pkt \in Packets,
         ~ HungUp(k, n)
  PROVE  SentOn(SentConn(c, k, n, pkt), SentLink(c, k, n, pkt), c, k, n, pkt)
<1> DEFINE d == SentConn(c, k, n, pkt)
           e == SentLink(c, k, n, pkt)
           fo == FromOut(c, k, n)
           ff == FromFrame(c, k, n, pkt)
           q == IF ff = 0 THEN k.sent[n] ELSE Append(k.sent[n], pkt)
           x == IF ff = 0 THEN Rest(c.out, fo) ELSE Leftover(Frame(pkt), ff)
           bytes == c.out \o Frame(pkt)
           count == fo + ff
           g == Written(k, n, bytes, count, q)
<1>1. /\ fo \in 0 .. Len(c.out) /\ ff \in 0 .. Len(Frame(pkt))
      /\ c.out \o Frame(pkt) \in Bytes
      /\ fo + ff \in 0 .. Len(c.out \o Frame(pkt))
      /\ Len(k.wire[Other(k, n)]) + (fo + ff) <= Cap
  BY AmountIs
<1>2. Frame(pkt) \in Seq(Nat) /\ c.out \in Seq(Nat)
  BY PacketIs DEF Bytes, Conn, OutBuf
<1>3. x \in OutBuf
  <2>1. Len(Frame(pkt)) \in Nat /\ Len(Frame(pkt)) <= BufSize /\ BufSize \in Nat
    <3>1. pkt \in Seq(Nat) /\ Len(pkt) \in 1 .. TRANSPORT_MTU /\ Len(Frame(pkt)) \in Nat
          /\ TRANSPORT_MTU \in Nat
      BY PacketIs, TcpAssumption
    <3>2. Len(Frame(pkt)) <= Len(pkt) + 2
      BY <3>1, FrameIs
    <3> QED
      BY <3>1, <3>2 DEF BufSize
  <2>2. Len(c.out) \in Nat /\ Len(c.out) < BufSize
    BY <1>2, LenProperties DEF Conn, OutBuf
  <2> DEFINE f == Frame(pkt)
  <2> HIDE DEF fo, ff, f
  <2>3. CASE ff = 0
    <3>1. Rest(c.out, fo) \in Seq(Nat) /\ Len(Rest(c.out, fo)) = Len(c.out) - fo
      BY <1>1, <1>2, RestIs
    <3>2. Len(c.out) - fo < BufSize
      BY <1>1, <2>1, <2>2
    <3> QED
      BY <2>3, <3>1, <3>2 DEF OutBuf
  <2>4. CASE ff # 0
    <3>1. f \in Seq(Nat) /\ ff \in 0 .. Len(f) /\ Len(f) \in Nat /\ Len(f) <= BufSize
      BY <1>1, <1>2, <2>1 DEF f
    <3>2. Rest(f, ff) \in Seq(Nat) /\ Len(Rest(f, ff)) = Len(f) - ff
      BY <3>1, RestIs
    <3>3. Len(f) - ff < BufSize
      BY <2>1, <2>4, <3>1
    <3> QED
      BY <2>4, <3>2, <3>3 DEF OutBuf, Leftover, f
  <2> QED
    BY <2>3, <2>4
<1>4. q \in Seq(Packets)
  BY LinkHas, AppendProperties
<1>5. d = [c EXCEPT !.out = x]
  BY DEF SentConn, Conn
<1>6. k \in LinkOf(k.from, k.to)
  BY LinkHas
<1>7. e = g
  <2>1. WrittenAt(k, n, c.out \o Frame(pkt), fo + ff).sent = k.sent
    BY <1>6 DEF WrittenAt, LinkOf
  <2> DEFINE wr == WrittenAt(k, n, c.out \o Frame(pkt), fo + ff)
  <2>2. e = [wr EXCEPT !.sent[n] = IF ff = 0 THEN @ ELSE Append(@, pkt)]
    BY DEF SentLink
  <2> QED
    BY <2>1, <2>2 DEF Written
<1> HIDE DEF x
<1>8. bytes \in Bytes /\ count \in 0 .. Len(bytes) /\ Len(k.wire[Other(k, n)]) + count <= Cap
  BY <1>1
<1> HIDE DEF fo, ff, q, bytes, count
<1>9. WrittenAs(g, k, n, bytes, count, q)
  BY <1>4, <1>8, WrittenLink
<1> HIDE DEF g, d, e
<1>10. Left(c, k, n, pkt) = x /\ Sends(c, k, n, pkt) = q
  BY DEF Left, Sends, x, q, fo, ff
<1>11. WrittenAs(e, k, n, bytes, count, Sends(c, k, n, pkt))
  BY <1>7, <1>9, <1>10
<1>12. d = [c EXCEPT !.out = Left(c, k, n, pkt)] /\ Left(c, k, n, pkt) \in OutBuf
  BY <1>3, <1>5, <1>10
<1> QED
  BY <1>11, <1>12 DEF d, e, fo, ff, bytes, count, SentOn

\* connection c over link k becomes d over e
SentAs(d, e, c, k, n) ==
  /\ d \in Conn /\ e \in Link
  /\ e.from = k.from /\ e.to = k.to /\ e.accepted = k.accepted
  /\ \/ d = make_closed(c) /\ e.open = k.open \ {n}
     \/ /\ d.state = "LIVE" /\ d.serial = c.serial
        /\ d.sock = c.sock /\ d.pingprogeny = c.pingprogeny
        /\ d.in = c.in /\ d.datawaiting = c.datawaiting /\ e.open = k.open
  /\ k.from # n /\ Silent(k) => Silent(e)

LEMMA SentIs ==
  ASSUME NEW c \in Conn, c.state = "LIVE", NEW k \in Link, NEW n \in {k.from, k.to},
         NEW pkt \in Packets
  PROVE  SentAs(SentConn(c, k, n, pkt), SentLink(c, k, n, pkt), c, k, n)
<1> DEFINE d == SentConn(c, k, n, pkt)
           e == SentLink(c, k, n, pkt)
<1>0. /\ k.wire \in [{k.from, k.to} -> Stream] /\ k.sent \in [{k.from, k.to} -> Seq(Packets)]
      /\ k.from # k.to
  BY LinkHas
<1>1. CASE HungUp(k, n) /\ c.out # <<>>
  <2>1. d = c /\ e = k
    BY <1>1 DEF SentConn, SentLink
  <2> QED
    BY <2>1 DEF SentAs
<1>2. CASE HungUp(k, n) /\ ~ (c.out # <<>>)
  <2>1. d = make_closed(c) /\ e = ClosedAt(k, n)
    BY <1>2 DEF SentConn, SentLink
  <2>2. d \in Conn
    BY <2>1, ClosedIs
  <2>3. /\ e \in Link /\ e.from = k.from /\ e.to = k.to /\ e.accepted = k.accepted
        /\ e.open = k.open \ {n}
        /\ e = [k EXCEPT !.open = k.open \ {n}, !.wire = [k.wire EXCEPT ![n] = <<>>]]
    <3>1. /\ ClosedAt(k, n) \in Link
          /\ ClosedAt(k, n) = [k EXCEPT !.open = k.open \ {n}, !.wire = [k.wire EXCEPT ![n] = <<>>]]
          /\ ClosedAt(k, n).from = k.from /\ ClosedAt(k, n).to = k.to
          /\ ClosedAt(k, n).accepted = k.accepted /\ ClosedAt(k, n).open = k.open \ {n}
      BY ClosedLink
    <3> HIDE DEF e
    <3> QED
      BY <2>1, <3>1
  <2>4. k \in LinkOf(k.from, k.to)
    BY LinkHas
  <2>5. e.sent = k.sent /\ e.wire = [k.wire EXCEPT ![n] = <<>>]
    BY <2>3, <2>4 DEF LinkOf
  <2>6. k.from # n /\ Silent(k) => Silent(e)
    BY <1>0, <2>3, <2>5 DEF Silent
  <2> QED
    BY <2>1, <2>2, <2>3, <2>6 DEF SentAs
<1>3. CASE ~ HungUp(k, n)
  <2> DEFINE x == Left(c, k, n, pkt)
             bytes == c.out \o Frame(pkt)
             count == FromOut(c, k, n) + FromFrame(c, k, n, pkt)
             q == Sends(c, k, n, pkt)
  <2>0. SentOn(d, e, c, k, n, pkt)
    BY <1>3, SentParts
  <2> HIDE DEF d, e
  <2>1. d = [c EXCEPT !.out = x] /\ x \in OutBuf /\ WrittenAs(e, k, n, bytes, count, q)
    BY <2>0 DEF SentOn
  <2> HIDE DEF x, bytes, count, q
  <2>2. /\ e \in Link /\ e.from = k.from /\ e.to = k.to
        /\ e.accepted = k.accepted /\ e.open = k.open
        /\ Other(k, n) \in {k.from, k.to} \ {n}
        /\ e.wire[n] = k.wire[n] /\ e.sent[Other(k, n)] = k.sent[Other(k, n)]
    BY <2>1 DEF WrittenAs
  <2>3. k.from # n /\ Silent(k) => Silent(e)
    <3>1. k.from # n => n = k.to /\ Other(k, n) = k.from
      BY <2>2
    <3> QED
      BY <1>0, <2>2, <3>1 DEF Silent
  <2>4. /\ d \in Conn /\ d.state = "LIVE" /\ d.serial = c.serial
        /\ d.sock = c.sock /\ d.pingprogeny = c.pingprogeny
        /\ d.in = c.in /\ d.datawaiting = c.datawaiting
    BY <2>1 DEF Conn
  <2> QED
    BY <2>2, <2>3, <2>4 DEF SentAs, d, e
<1> QED
  BY <1>1, <1>2, <1>3

\* A connection after a send is a connection as it should be.
LEMMA SentGood ==
  ASSUME NEW c \in Conn, c.state = "LIVE", DataOK(c), NEW d, NEW e, NEW k, NEW n, SentAs(d, e, c, k, n)
  PROVE  DataOK(d) /\ Stays(c, d) /\ Moves(c, d) /\ d.state # "TCPCONNECT"
         /\ (d.state # "CLOSED" => e.open = k.open) /\ k.open \ {n} \subseteq e.open
<1>0. c.serial \in Nat
  BY DEF Conn
<1>1. CASE d = make_closed(c) /\ e.open = k.open \ {n}
  BY <1>1, ClosedIs
<1>2. CASE ~ (d = make_closed(c) /\ e.open = k.open \ {n})
  BY <1>0, <1>2 DEF SentAs, DataOK, FrameDue, Stays, Moves
<1> QED
  BY <1>1, <1>2

LEMMA SendStep ==
  ASSUME ConnInv, NEW n \in Nodes, NEW dsts, dsts \subseteq Live(n), NEW pkt \in Packets,
         SendOver(n, dsts, pkt)
  PROVE  ConnInv'
<1> DEFINE cs == conns[n]
           D(i) == SentConn(cs[i], links[cs[i].sock], n, pkt)
           E(i) == SentLink(cs[i], links[cs[i].sock], n, pkt)
           ds == [i \in Idx(n) |-> IF i \in dsts THEN D(i) ELSE cs[i]]
<1>0. /\ cs \in [Idx(n) -> Conn] /\ links \in Seq(Link) /\ DOMAIN links = 1 .. Len(links)
      /\ Apart(Idx(n), cs) /\ \A i \in Idx(n) : EndOK(n, cs[i], links)
      /\ known \in [Nodes -> SUBSET ((Nat \X Nat) \X Nat)]
      /\ \A l \in DOMAIN links : Waits(links[l]) /\ links[l] \in Link
  BY DEF ConnInv, Tables
<1>1. \A i \in dsts : i \in Idx(n) /\ cs[i].state = "LIVE"
  BY DEF Live
<1>2. /\ conns' = [conns EXCEPT ![n] = ds] /\ known' = known
      /\ links' = [l \in DOMAIN links |->
                    IF \E i \in dsts : cs[i].sock = l
                    THEN SentLink(cs[CHOOSE i \in dsts : cs[i].sock = l], links[l], n, pkt)
                    ELSE links[l]]
  BY DEF SendOver, ConnInv, Tables
<1>3. ASSUME NEW i \in dsts
      PROVE  /\ cs[i].sock \in DOMAIN links /\ n \in links[cs[i].sock].open
             /\ links'[cs[i].sock] = E(i)
             /\ n = links[cs[i].sock].to => links[cs[i].sock].accepted
  <2>1. /\ cs[i].sock \in DOMAIN links /\ n \in links[cs[i].sock].open
        /\ n = links[cs[i].sock].to => links[cs[i].sock].accepted
    BY <1>0, <1>1 DEF EndOK
  <2>2. \A j \in dsts : cs[j].sock = cs[i].sock => j = i
    BY <1>0, <1>1 DEF Apart
  <2>3. (CHOOSE j \in dsts : cs[j].sock = cs[i].sock) = i
    BY <2>2
  <2> QED
    BY <1>2, <2>1, <2>3
<1>4. ASSUME NEW i \in dsts PROVE SentAs(D(i), E(i), cs[i], links[cs[i].sock], n)
  <2>1. cs[i] \in Conn /\ cs[i].state = "LIVE" /\ links[cs[i].sock] \in Link
        /\ n \in {links[cs[i].sock].from, links[cs[i].sock].to}
    BY <1>0, <1>1, <1>3, LinkHas
  <2> QED
    BY <2>1, SentIs
<1>5. ASSUME NEW i \in dsts
      PROVE  /\ DataOK(D(i)) /\ Stays(cs[i], D(i)) /\ Moves(cs[i], D(i)) /\ D(i).state # "TCPCONNECT"
             /\ (D(i).state # "CLOSED" => E(i).open = links[cs[i].sock].open)
             /\ links[cs[i].sock].open \ {n} \subseteq E(i).open
  <2>1. cs[i] \in Conn /\ cs[i].state = "LIVE" /\ DataOK(cs[i])
    BY <1>0, <1>1 DEF EndOK, DataOK
  <2> HIDE DEF D, E
  <2> QED
    BY <1>4, <2>1, SentGood
<1> HIDE DEF D, E
<1>6. ds \in [Idx(n) -> Conn]
  BY <1>0, <1>4 DEF SentAs
<1>7. ASSUME NEW l \in DOMAIN links, \A i \in dsts : cs[i].sock # l PROVE links'[l] = links[l]
  BY <1>2, <1>7
<1>8. ASSUME NEW l \in DOMAIN links
      PROVE  /\ links'[l] \in Link /\ Waits(links'[l])
             /\ links'[l].from = links[l].from /\ links'[l].to = links[l].to
             /\ links'[l].accepted = links[l].accepted
             /\ links[l].open \ {n} \subseteq links'[l].open
             /\ links[l].from # n /\ Silent(links[l]) => Silent(links'[l])
  <2>1. CASE \A i \in dsts : cs[i].sock # l
    BY <1>0, <1>7, <2>1
  <2>2. ASSUME NEW i \in dsts, cs[i].sock = l PROVE <1>8!2
    BY <1>0, <1>3, <1>4, <1>5, <2>2 DEF SentAs, Waits
  <2> QED
    BY <2>1, <2>2
<1>9. LinksGo(n, links, links')
  <2>1. links' \in Seq(Link) /\ DOMAIN links' = DOMAIN links
    <3>1. links' \in [1 .. Len(links) -> Link] /\ Len(links) \in Nat
      BY <1>0, <1>2, <1>8
    <3> QED
      BY <1>0, <3>1, SeqDef
  <2> QED
    BY <1>8, <2>1 DEF LinksGo
<1>10. ASSUME NEW i \in Idx(n) PROVE EndOK(n, ds[i], links') /\ Moves(cs[i], ds[i]) /\ Stays(cs[i], ds[i])
  <2>1. CASE i \in dsts
    <3>1. ds[i] = D(i) /\ cs[i].sock \in DOMAIN links'
      BY <1>2, <1>3, <2>1
    <3>2. D(i).state # "CLOSED" => D(i).sock = cs[i].sock
      BY <1>5, <2>1 DEF Stays
    <3> QED
      BY <1>3, <1>5, <1>8, <2>1, <3>1, <3>2 DEF EndOK, DataOK
  <2>2. CASE i \notin dsts
    <3>1. ds[i] = cs[i] /\ cs[i].serial \in Nat
      BY <1>0, <2>2 DEF Conn
    <3>2. cs[i].state # "CLOSED" => cs[i].sock \in DOMAIN links /\ \A j \in dsts : cs[j].sock # cs[i].sock
      BY <1>0, <1>1, <2>2 DEF Apart, EndOK
    <3>3. cs[i].state # "CLOSED" => links'[cs[i].sock] = links[cs[i].sock] /\ cs[i].sock \in DOMAIN links'
      BY <1>2, <1>7, <3>2
    <3>4. EndOK(n, cs[i], links')
      BY <1>0, <3>2, <3>3 DEF EndOK
    <3> QED
      BY <3>1, <3>4 DEF Moves, Stays
  <2> QED
    BY <2>1, <2>2
<1>11. Apart(Idx(n), ds)
  BY <1>0, <1>10, ApartKept
<1>12. \A k \in known'[n] : k[1][1] \in Idx(n) /\ k \in known[n]
  BY <1>2 DEF ConnInv, Tables
<1> HIDE DEF ds, cs
<1>13. \A i \in Idx(n) : EndOK(n, ds[i], links') /\ Moves(conns[n][i], ds[i])
  BY <1>10 DEF cs
<1> QED
  BY <1>0, <1>2, <1>6, <1>9, <1>11, <1>12, <1>13, StepOfNode

LEMMA DecodedIs ==
  ASSUME NEW b \in Bytes
  PROVE  decvle14(b).n \in {-1, 0, 1, 2} /\ decvle14(b).val \in Nat
         /\ (decvle14(b).n > 0 => decvle14(b).n <= Len(b))
<1>1. b \in Seq(Nat) /\ Len(b) \in Nat /\ Base \in Nat \ {0}
  BY BaseIsNotZero, LenProperties DEF Bytes
<1>2. CASE b = <<>>
  BY <1>2 DEF decvle14
<1>3. CASE b # <<>> /\ Len(b) = 1
  <2>1. b[1] \in Nat
    BY <1>1, <1>3, ElementOfSeq
  <2> QED
    BY <1>1, <1>3, <2>1 DEF decvle14
<1>4. CASE b # <<>> /\ Len(b) > 1
  <2>1. b[1] \in Nat /\ b[2] \in Nat
    BY <1>1, <1>4, ElementOfSeq
  <2>2. b[1] % Base \in Nat
    BY <1>1, <2>1
  <2>3. \A p, q, r \in Nat : p * q + r \in Nat
    OBVIOUS
  <2>4. b[2] * Base + (b[1] % Base) \in Nat
    BY <1>1, <2>1, <2>2, <2>3
  <2> QED
    BY <1>1, <1>4, <2>1, <2>4 DEF decvle14
<1>5. b # <<>> => Len(b) = 1 \/ Len(b) > 1
  BY <1>1, EmptySeq
<1> QED
  BY <1>2, <1>3, <1>4, <1>5

LEMMA MovesOn ==
  ASSUME NEW c \in Conn, NEW d \in Conn, NEW e \in Conn
  PROVE  /\ Moves(c, d) /\ Moves(d, e) => Moves(c, e)
         /\ Stays(c, d) /\ Stays(d, e) => Stays(c, e)
BY DEF Moves, Stays, Conn

LEMMA LiveIs ==
  ASSUME NEW c \in Conn, c.state \in {"WAITDATA", "LIVE"}
  PROVE  /\ make_live(c) \in Conn /\ make_live(c).state = "LIVE" /\ make_live(c).sock = c.sock
         /\ make_live(c).in = c.in /\ make_live(c).out = c.out
         /\ Stays(c, make_live(c)) /\ Moves(c, make_live(c))
<1>1. c.serial \in Nat /\ c.serial + 1 \in Nat /\ c.serial + 1 > c.serial
  BY DEF Conn
<1>2. CASE c.state = "LIVE"
  BY <1>1, <1>2 DEF make_live, Stays, Moves
<1>3. CASE c.state # "LIVE"
  <2> DEFINE d == [c EXCEPT !.state = "LIVE", !.serial = c.serial + 1]
  <2>1. make_live(c) = d
    BY <1>3 DEF make_live
  <2>2. /\ d \in Conn /\ d.state = "LIVE" /\ d.sock = c.sock /\ d.in = c.in /\ d.out = c.out
        /\ d.serial = c.serial + 1 /\ d.pingprogeny = c.pingprogeny
    BY <1>1 DEF Conn
  <2> HIDE DEF d
  <2> QED
    BY <1>1, <2>1, <2>2 DEF Stays, Moves
<1> QED
  BY <1>2, <1>3

\* What is read from the link and kept, and the link without it.
LEMMA ReadIs ==
  ASSUME NEW k \in Link, NEW n \in {k.from, k.to}, NEW c \in 0 .. Len(k.wire[n])
  PROVE  /\ [k EXCEPT !.wire[n] = Rest(@, c)] = [k EXCEPT !.wire[n] = Rest(k.wire[n], c)]
         /\ Rest(k.wire[n], c) \in Stream /\ SubSeq(k.wire[n], 1, c) \in Bytes
         /\ k.from # n /\ Silent(k) => Rest(k.wire[k.to], c) = <<>>
<1>1. k.wire[n] \in Stream /\ k.from # k.to
  BY LinkHas
<1> DEFINE w == k.wire[n]
<1>2. w \in Seq(Nat) /\ Len(w) <= Cap /\ Len(w) \in Nat /\ Cap \in Nat /\ c \in Nat
  BY <1>1, LenProperties, TcpAssumption DEF Stream
<1>3. Rest(w, c) \in Seq(Nat) /\ Len(Rest(w, c)) = Len(w) - c
  BY <1>2, RestIs
<1>4. SubSeq(w, 1, c) \in Seq(Nat)
  BY <1>2, FirstIs
<1> HIDE DEF w
<1>5. Rest(w, c) \in Stream
  BY <1>2, <1>3 DEF Stream
<1>6. w = <<>> => Rest(w, c) = <<>>
  <2> SUFFICES ASSUME w = <<>> PROVE Rest(w, c) = <<>>
    OBVIOUS
  <2>1. Len(w) = 0 /\ c = 0
    BY <1>2 DEF w
  <2> QED
    BY <1>3, <2>1, EmptySeq
<1>7. k.from # n /\ Silent(k) => w = <<>> /\ n = k.to
  BY <1>1 DEF Silent, w
<1> QED
  BY <1>4, <1>5, <1>6, <1>7 DEF w, Bytes

-----------------------------------------------------------------------------
(* The bytes between the two ends of a link, and what they should be. *)

Frames(ps) == [k \in DOMAIN ps |-> Frame(ps[k])]

\* the frames of the packets that were sent and not yet received
Pending(sent, got) == FlattenSeq(Frames(Rest(sent, Len(got))))

\* the packets received are the first of those sent
FirstOf(got, sent) == Len(got) <= Len(sent) /\ \A i \in 1 .. Len(got) : got[i] = sent[i]

\* between the packets sent and those received are the bytes in the buffer at the
\* receiver, on the way, and left over at the sender
Flow(buf, wire, out, sent, got) ==
  FirstOf(got, sent) /\ (buf \o wire) \o out = Pending(sent, got)

LEMMA FramesAre ==
  ASSUME NEW ps \in Seq(Packets)
  PROVE  /\ Frames(ps) \in Seq(Bytes) /\ Len(Frames(ps)) = Len(ps)
         /\ \A i \in 1 .. Len(ps) : Frames(ps)[i] = Frame(ps[i])
<1>1. Len(ps) \in Nat /\ DOMAIN ps = 1 .. Len(ps) /\ \A i \in 1 .. Len(ps) : ps[i] \in Packets
  BY LenProperties, ElementOfSeq
<1>2. \A i \in 1 .. Len(ps) : Frame(ps[i]) \in Bytes
  BY <1>1, PacketIs
<1>3. Frames(ps) \in [1 .. Len(ps) -> Bytes]
  BY <1>1, <1>2 DEF Frames
<1>4. Frames(ps) \in Seq(Bytes)
  BY <1>1, <1>3, SeqDef
<1>5. Len(Frames(ps)) = Len(ps)
  BY <1>1, <1>3, <1>4, LenProperties
<1> QED
  BY <1>1, <1>4, <1>5 DEF Frames

LEMMA FramesAppend ==
  ASSUME NEW ps \in Seq(Packets), NEW p \in Packets
  PROVE  Frames(Append(ps, p)) = Append(Frames(ps), Frame(p))
<1> DEFINE a == Append(ps, p)
           f == Frames(ps)
           b == Append(f, Frame(p))
<1>0. Frame(p) \in Bytes
  BY PacketIs
<1>1. /\ a \in Seq(Packets) /\ Len(a) = Len(ps) + 1 /\ Len(ps) \in Nat
      /\ \A i \in 1 .. Len(ps) : a[i] = ps[i]
      /\ a[Len(ps) + 1] = p
  BY AppendProperties, LenProperties
<1>2. f \in Seq(Bytes) /\ Len(f) = Len(ps) /\ \A i \in 1 .. Len(ps) : f[i] = Frame(ps[i])
  BY FramesAre
<1> HIDE DEF a, f
<1>3. /\ b \in Seq(Bytes) /\ Len(b) = Len(ps) + 1
      /\ \A i \in 1 .. Len(ps) : b[i] = f[i]
      /\ b[Len(ps) + 1] = Frame(p)
  BY <1>0, <1>2, AppendProperties
<1>4. Frames(a) \in Seq(Bytes) /\ Len(Frames(a)) = Len(a) /\ \A i \in 1 .. Len(a) : Frames(a)[i] = Frame(a[i])
  BY <1>1, FramesAre
<1> HIDE DEF b
<1>5. ASSUME NEW i \in 1 .. Len(b) PROVE Frames(a)[i] = b[i]
  <2>1. i \in 1 .. Len(a) /\ (i \in 1 .. Len(ps) \/ i = Len(ps) + 1)
    BY <1>1, <1>3
  <2> QED
    BY <1>1, <1>2, <1>3, <1>4, <2>1
<1>6. Frames(a) = b
  BY <1>1, <1>3, <1>4, <1>5, SeqEqual
<1> QED
  BY <1>6 DEF a, b, f

LEMMA FramesFirst ==
  ASSUME NEW ps \in Seq(Packets), NEW p \in Packets
  PROVE  Frames(<<p>> \o ps) = <<Frame(p)>> \o Frames(ps)
<1> DEFINE o == <<p>>
           g == <<Frame(p)>>
           a == o \o ps
           f == Frames(ps)
           b == g \o f
<1>0. o \in Seq(Packets) /\ Len(o) = 1 /\ o[1] = p
  OBVIOUS
<1>1. Frame(p) \in Bytes
  BY PacketIs
<1>2. g \in Seq(Bytes) /\ Len(g) = 1 /\ g[1] = Frame(p)
  BY <1>1
<1>3. f \in Seq(Bytes) /\ Len(f) = Len(ps) /\ \A i \in 1 .. Len(ps) : f[i] = Frame(ps[i])
  BY FramesAre
<1> HIDE DEF o, g, f
<1>4. /\ a \in Seq(Packets) /\ Len(a) = Len(o) + Len(ps) /\ Len(ps) \in Nat
      /\ \A i \in 1 .. Len(o) : a[i] = o[i]
      /\ \A i \in 1 .. Len(ps) : a[i + Len(o)] = ps[i]
  BY <1>0, ConcatIs
<1>5. /\ b \in Seq(Bytes) /\ Len(b) = Len(g) + Len(f)
      /\ \A i \in 1 .. Len(g) : b[i] = g[i]
      /\ \A i \in 1 .. Len(f) : b[i + Len(g)] = f[i]
  <2>1. g \in Seq(Bytes) /\ f \in Seq(Bytes)
    BY <1>2, <1>3
  <2> QED
    BY <2>1, ConcatIs
<1>6. Frames(a) \in Seq(Bytes) /\ Len(Frames(a)) = Len(a) /\ \A i \in 1 .. Len(a) : Frames(a)[i] = Frame(a[i])
  BY <1>4, FramesAre
<1> HIDE DEF a, b
<1>7. ASSUME NEW i \in 1 .. Len(b) PROVE Frames(a)[i] = b[i]
  <2>1. i \in 1 .. Len(a)
    BY <1>0, <1>2, <1>3, <1>4, <1>5
  <2>2. CASE i = 1
    BY <1>0, <1>2, <1>4, <1>5, <1>6, <2>1, <2>2
  <2>3. CASE i # 1
    <3>1. PICK j \in 1 .. Len(ps) : i = j + 1
      <4>1. i - 1 \in 1 .. Len(ps) /\ i = (i - 1) + 1
        BY <1>2, <1>3, <1>4, <1>5, <2>3
      <4> QED
        BY <4>1
    <3> QED
      BY <1>0, <1>2, <1>3, <1>4, <1>5, <1>6, <2>1, <3>1
  <2> QED
    BY <2>2, <2>3
<1>8. Len(a) = Len(b)
  BY <1>0, <1>2, <1>3, <1>4, <1>5
<1>9. Frames(a) = b
  BY <1>5, <1>6, <1>7, <1>8, SeqEqual
<1> QED
  BY <1>9 DEF a, b, f, o, g

\* One more packet is sent.
LEMMA PendingSent ==
  ASSUME NEW sent \in Seq(Packets), NEW got \in Seq(Bytes), FirstOf(got, sent), NEW p \in Packets
  PROVE  /\ Pending(Append(sent, p), got) = Pending(sent, got) \o Frame(p)
         /\ FirstOf(got, Append(sent, p)) /\ Pending(sent, got) \in Bytes
<1> DEFINE n == Len(got)
<1>1. n \in Nat /\ Len(sent) \in Nat /\ n \in 0 .. Len(sent)
  BY LenProperties DEF FirstOf
<1>2. /\ Append(sent, p) \in Seq(Packets) /\ Len(Append(sent, p)) = Len(sent) + 1
      /\ \A i \in 1 .. Len(sent) : Append(sent, p)[i] = sent[i]
  BY AppendProperties
<1> HIDE DEF n
<1>3. Rest(Append(sent, p), n) = Append(Rest(sent, n), p) /\ Rest(sent, n) \in Seq(Packets)
  BY <1>1, RestOfAppend, RestIs
<1>4. Frames(Append(Rest(sent, n), p)) = Append(Frames(Rest(sent, n)), Frame(p))
  BY <1>3, FramesAppend
<1>5. Frames(Rest(sent, n)) \in Seq(Bytes) /\ Frame(p) \in Bytes
  BY <1>3, FramesAre, PacketIs
<1>6. FlattenSeq(Append(Frames(Rest(sent, n)), Frame(p))) = FlattenSeq(Frames(Rest(sent, n))) \o Frame(p)
  BY <1>5, FlattenAppend
<1>7. FlattenSeq(Frames(Rest(sent, n))) \in Bytes
  BY <1>5, FlattenType
<1>8. FirstOf(got, Append(sent, p))
  <2>1. \A i \in 1 .. n : i \in 1 .. Len(sent)
    BY <1>1
  <2> QED
    BY <1>1, <1>2, <2>1 DEF FirstOf, n
<1> QED
  BY <1>3, <1>4, <1>6, <1>7, <1>8 DEF Pending, n

LEMMA PendingNone ==
  ASSUME NEW sent \in Seq(Packets), NEW got, Len(got) = Len(sent)
  PROVE  Pending(sent, got) = <<>>
<1>1. Len(sent) \in Nat /\ Len(sent) \in 0 .. Len(sent)
  BY LenProperties
<1>2. Rest(sent, Len(sent)) \in Seq(Packets) /\ Len(Rest(sent, Len(sent))) = 0
  BY <1>1, RestIs
<1>3. Frames(Rest(sent, Len(sent))) \in Seq(Bytes) /\ Len(Frames(Rest(sent, Len(sent)))) = 0
  BY <1>2, FramesAre
<1>4. Frames(Rest(sent, Len(sent))) = <<>>
  BY <1>3, EmptySeq
<1> QED
  BY <1>4, FlattenEmpty DEF Pending

\* One more packet is received.
LEMMA PendingFirst ==
  ASSUME NEW sent \in Seq(Packets), NEW got \in Seq(Bytes), FirstOf(got, sent),
         Len(got) # Len(sent)
  PROVE  \E p \in Packets :
            /\ Pending(sent, got) = Frame(p) \o Pending(sent, Append(got, p))
            /\ FirstOf(Append(got, p), sent) /\ Append(got, p) \in Seq(Bytes)
            /\ Pending(sent, Append(got, p)) \in Bytes
<1> DEFINE n == Len(got)
           p == sent[n + 1]
           g == Append(got, p)
<1>1. n \in Nat /\ Len(sent) \in Nat /\ n \in 0 .. Len(sent) - 1 /\ n + 1 \in 0 .. Len(sent)
  BY LenProperties DEF FirstOf
<1> HIDE DEF n
<1>2. Rest(sent, n) = <<p>> \o Rest(sent, n + 1) /\ p \in Packets
  BY <1>1, RestStep
<1>3. p \in Bytes
  BY <1>2, PacketIs DEF Bytes
<1> HIDE DEF p
<1>4. /\ g \in Seq(Bytes) /\ Len(g) = n + 1 /\ \A i \in 1 .. n : g[i] = got[i]
      /\ g[n + 1] = p
  BY <1>3, AppendProperties DEF n
<1> HIDE DEF g
<1>5. Rest(sent, n + 1) \in Seq(Packets)
  BY <1>1, RestIs
<1>6. Frames(Rest(sent, n)) = <<Frame(p)>> \o Frames(Rest(sent, n + 1))
  BY <1>2, <1>5, FramesFirst
<1>7. Frame(p) \in Bytes /\ Frames(Rest(sent, n + 1)) \in Seq(Bytes)
  BY <1>2, <1>5, FramesAre, PacketIs
<1>8. FlattenSeq(Frames(Rest(sent, n))) = Frame(p) \o FlattenSeq(Frames(Rest(sent, n + 1)))
      /\ FlattenSeq(Frames(Rest(sent, n + 1))) \in Bytes
  BY <1>6, <1>7, FlattenFirst, FlattenType
<1>9. FirstOf(g, sent)
  <2>1. \A i \in 1 .. n + 1 : i \in 1 .. n \/ i = n + 1
    BY <1>1
  <2>2. \A i \in 1 .. n : got[i] = sent[i]
    BY DEF FirstOf, n
  <2> QED
    BY <1>1, <1>4, <2>1, <2>2 DEF FirstOf, p
<1> QED
  BY <1>2, <1>4, <1>8, <1>9 DEF Pending, n, g

LEMMA Joined == \A x, y \in Bytes : x \o y \in Bytes
BY ConcatProperties DEF Bytes

LEMMA Grouped == \A x, y, z \in Bytes : (x \o y) \o z = x \o (y \o z)
<1> SUFFICES ASSUME NEW x \in Seq(Nat), NEW y \in Seq(Nat), NEW z \in Seq(Nat)
             PROVE  (x \o y) \o z = x \o (y \o z)
  BY Zenon DEF Bytes
<1> QED
  BY ConcatAssociative, SMTT(30)

\* The same bytes cut at another place.
LEMMA Regroup ==
  ASSUME NEW buf \in Bytes, NEW wire \in Bytes, NEW a \in Bytes, NEW b \in Bytes
  PROVE  (buf \o (wire \o a)) \o b = (buf \o wire) \o (a \o b)
<1>2. (buf \o wire) \o a = buf \o (wire \o a)
  BY Grouped, Zenon
<1>3. buf \o wire \in Bytes
  BY Joined, Zenon
<1> DEFINE s == buf \o wire
<1> HIDE DEF s
<1>4. s \in Bytes
  BY <1>3 DEF s
<1>5. (s \o a) \o b = s \o (a \o b)
  BY <1>4, Grouped, Zenon
<1> QED
  BY <1>2, <1>5 DEF s

LEMMA PartsAre ==
  ASSUME NEW q \in Bytes, NEW c \in 0 .. Len(q)
  PROVE  SubSeq(q, 1, c) \in Bytes /\ Rest(q, c) \in Bytes /\ SubSeq(q, 1, c) \o Rest(q, c) = q
<1>1. q \in Seq(Nat)
  BY DEF Bytes
<1> QED
  BY <1>1, FirstIs, RestIs, Cut DEF Bytes

\* Some of the bytes of the sender go on their way.
LEMMA FlowKeep ==
  ASSUME NEW buf \in Bytes, NEW wire \in Bytes, NEW out \in Bytes, NEW sent, NEW got,
         Flow(buf, wire, out, sent, got), NEW c \in 0 .. Len(out)
  PROVE  Flow(buf, wire \o SubSeq(out, 1, c), Rest(out, c), sent, got)
<1> DEFINE a == SubSeq(out, 1, c)
           b == Rest(out, c)
<1>1. a \in Bytes /\ b \in Bytes /\ a \o b = out
  BY PartsAre
<1> HIDE DEF a, b
<1>2. \A x, y \in Bytes : (buf \o (wire \o x)) \o y = (buf \o wire) \o (x \o y)
  BY Regroup
<1>3. (buf \o (wire \o a)) \o b = (buf \o wire) \o (a \o b)
  BY <1>2, <1>1
<1>4. Flow(buf, wire \o a, b, sent, got)
  BY <1>1, <1>3 DEF Flow
<1> QED
  BY <1>4 DEF a, b

LEMMA FlowSend ==
  ASSUME NEW buf \in Bytes, NEW wire \in Bytes, NEW out \in Bytes,
         NEW sent \in Seq(Packets), NEW got \in Seq(Bytes),
         Flow(buf, wire, out, sent, got), NEW p \in Packets,
         NEW c \in 0 .. Len(out \o Frame(p))
  PROVE  Flow(buf, wire \o SubSeq(out \o Frame(p), 1, c), Rest(out \o Frame(p), c), Append(sent, p), got)
<1>0. Frame(p) \in Bytes
  BY PacketIs
<1>1. Flow(buf, wire, out \o Frame(p), Append(sent, p), got) /\ out \o Frame(p) \in Bytes
  <2>1. /\ Pending(Append(sent, p), got) = Pending(sent, got) \o Frame(p)
        /\ FirstOf(got, Append(sent, p))
    BY PendingSent DEF Flow
  <2>2. buf \o wire \in Bytes
    BY Joined
  <2> DEFINE s == buf \o wire
  <2> HIDE DEF s
  <2>3. (s \o out) \o Frame(p) = s \o (out \o Frame(p)) /\ out \o Frame(p) \in Bytes
    <3>1. s \in Bytes
      BY <2>2 DEF s
    <3> QED
      BY <1>0, <3>1, Joined, Grouped, Zenon
  <2> QED
    BY <2>1, <2>3 DEF Flow, s
<1> DEFINE b == out \o Frame(p)
<1> HIDE DEF b
<1>2. Flow(buf, wire \o SubSeq(b, 1, c), Rest(b, c), Append(sent, p), got)
  BY <1>1, FlowKeep DEF b
<1> QED
  BY <1>2 DEF b

\* Some of the bytes on their way come to the receiver.
LEMMA FlowRead ==
  ASSUME NEW buf \in Bytes, NEW wire \in Bytes, NEW out \in Bytes, NEW sent, NEW got,
         Flow(buf, wire, out, sent, got), NEW c \in 0 .. Len(wire)
  PROVE  Flow(buf \o SubSeq(wire, 1, c), Rest(wire, c), out, sent, got)
<1> DEFINE a == SubSeq(wire, 1, c)
           b == Rest(wire, c)
<1>1. a \in Bytes /\ b \in Bytes /\ a \o b = wire
  BY PartsAre
<1> HIDE DEF a, b
<1>2. (buf \o a) \o b = buf \o wire
  <2>1. (buf \o a) \o b = buf \o (a \o b)
    BY <1>1, Grouped, Zenon
  <2> QED
    BY <1>1, <2>1
<1>3. Flow(buf \o a, b, out, sent, got)
  BY <1>2 DEF Flow
<1> QED
  BY <1>3 DEF a, b

\* encvle14 followed by decvle14
LEMMA LengthBack ==
  ASSUME NEW x \in Nat
  PROVE  /\ Base + (x % Base) >= Base
         /\ (x \div Base) * Base + ((Base + (x % Base)) % Base) = x
<1>1. Base \in Nat /\ Base > 0
  BY BaseIsNotZero
<1> DEFINE b == Base
           r == x % b
           q == x \div b
<1>2. r \in 0 .. (b - 1) /\ q \in Int /\ x = q * b + r
  BY <1>1
<1>3. (b + r) % b = r
  <2>1. \A y \in Nat, z \in Nat : z > 0 /\ y < z => (z + y) % z = y
    OBVIOUS
  <2> HIDE DEF b, r
  <2>2. r \in Nat /\ b \in Nat /\ b > 0 /\ r < b
    BY <1>1, <1>2 DEF b
  <2> QED
    BY <2>1, <2>2
<1>4. b + r >= b /\ q * b + r = x
  <2> HIDE DEF b, r, q
  <2>1. r \in Nat /\ b \in Nat
    BY <1>1, <1>2 DEF b
  <2> QED
    BY <1>2, <2>1
<1> QED
  BY <1>3, <1>4

\* decvle14 finds the length that encvle14 put in front of a packet.
LEMMA LengthRead ==
  ASSUME NEW p \in Packets, NEW buf \in Bytes, Len(buf) >= 1, decvle14(buf).n > 0,
         buf[1] = encvle14(Len(p))[1],
         Len(encvle14(Len(p))) = 2 /\ Len(buf) > 1 => buf[2] = encvle14(Len(p))[2]
  PROVE  decvle14(buf).n = Len(encvle14(Len(p))) /\ decvle14(buf).val = Len(p)
<1>1. Len(p) \in Nat /\ Base \in Nat /\ Len(buf) \in Nat /\ buf # <<>>
  BY PacketIs, BaseIsNotZero, LenProperties DEF Bytes
<1>2. CASE Len(p) < Base
  <2>1. encvle14(Len(p)) = <<Len(p)>>
    BY <1>2 DEF encvle14
  <2>2. buf[1] = Len(p) /\ Len(encvle14(Len(p))) = 1
    BY <2>1
  <2>3. decvle14(buf) = [n |-> 1, val |-> Len(p)]
    BY <1>1, <1>2, <2>2 DEF decvle14
  <2> QED
    BY <2>2, <2>3
<1>3. CASE ~ (Len(p) < Base)
  <2> DEFINE x == Len(p)
             a == Base + (x % Base)
             b == x \div Base
  <2>1. encvle14(x) = <<a, b>>
    BY <1>3 DEF encvle14
  <2>2. a >= Base /\ b * Base + (a % Base) = x
    BY <1>1, LengthBack
  <2> HIDE DEF a, b, x
  <2>3. encvle14(x)[1] = a /\ encvle14(x)[2] = b /\ Len(encvle14(x)) = 2
    BY <2>1
  <2>4. buf[1] = a /\ ~ (buf[1] < Base) /\ buf[1] >= Base
    <3>1. buf[1] = a
      BY <2>3 DEF x
    <3>2. buf[1] \in Nat
      BY <1>1, ElementOfSeq DEF Bytes
    <3> QED
      BY <1>1, <2>2, <3>1, <3>2
  <2>5. Len(buf) > 1
    <3>1. CASE Len(buf) = 1
      <4>1. decvle14(buf) = [n |-> 0, val |-> 0]
        BY <1>1, <2>4, <3>1 DEF decvle14
      <4> QED
        BY <4>1
    <3> DEFINE k == Len(buf)
    <3>2. k \in Nat /\ k >= 1 /\ (k = 1 => k > 1)
      <4>1. k \in Nat
        BY <1>1
      <4>2. k >= 1
        OBVIOUS
      <4> HIDE DEF k
      <4>3. k = 1 => k > 1
        BY <3>1 DEF k
      <4> QED
        BY <4>1, <4>2, <4>3
    <3> HIDE DEF k
    <3>3. k > 1
      BY <3>2
    <3> QED
      BY <3>3 DEF k
  <2>6. buf[2] = b
    BY <2>3, <2>5 DEF x
  <2>7. CASE buf[2] < Base
    <3>1. decvle14(buf) = [n |-> 2, val |-> buf[2] * Base + (buf[1] % Base)]
      BY <1>1, <2>4, <2>5, <2>7 DEF decvle14
    <3> QED
      BY <2>2, <2>3, <2>4, <2>6, <3>1 DEF x
  <2>8. CASE ~ (buf[2] < Base)
    <3>1. decvle14(buf) = [n |-> -1, val |-> 0]
      BY <1>1, <2>4, <2>5, <2>8 DEF decvle14
    <3> QED
      BY <3>1
  <2> QED
    BY <2>7, <2>8
<1> QED
  BY <1>2, <1>3

\* A whole frame at the start of what is to come is found and taken out.
LEMMA FrameRead ==
  ASSUME NEW buf \in Bytes, NEW more \in Bytes, NEW p \in Packets, NEW rest \in Bytes,
         buf \o more = Frame(p) \o rest,
         decvle14(buf).n > 0, Len(buf) >= decvle14(buf).n + decvle14(buf).val
  PROVE  LET end == decvle14(buf).n + decvle14(buf).val
         IN  SubSeq(buf, decvle14(buf).n + 1, end) = p /\ Rest(buf, end) \o more = rest
<1> DEFINE e == encvle14(Len(p))
           f == Frame(p)
           d == decvle14(buf)
<1>1. /\ buf \in Seq(Nat) /\ Len(buf) \in Nat /\ more \in Seq(Nat) /\ rest \in Seq(Nat)
      /\ f \in Seq(Nat) /\ Len(f) \in Nat /\ p \in Seq(Nat) /\ Len(p) \in Nat
  BY PacketIs, LenProperties DEF Bytes
<1>2. e \in Seq(Nat) /\ Len(e) \in {1, 2} /\ f = e \o p
  <2>1. Base \in Nat \ {0}
    BY BaseIsNotZero
  <2>2. CASE Len(p) < Base
    BY <1>1, <2>2 DEF encvle14, Frame
  <2>3. CASE ~ (Len(p) < Base)
    <3> DEFINE x == Len(p)
               b == Base
               a == b + (x % b)
               q == x \div b
    <3>1. x \in Nat /\ b \in Nat /\ b > 0
      BY <1>1, <2>1
    <3>2. e = <<a, q>> /\ f = e \o p
      BY <2>3 DEF encvle14, Frame
    <3>3. a \in Nat /\ q \in Nat
      <4> HIDE DEF x, b
      <4> QED
        BY <3>1
    <3> HIDE DEF a, q
    <3> QED
      BY <3>2, <3>3
  <2> QED
    BY <2>2, <2>3
<1>3. d.n \in {1, 2} /\ d.val \in Nat /\ d.n <= Len(buf)
  BY DecodedIs
<1> HIDE DEF e, f, d
<1>4. Len(f) = Len(e) + Len(p) /\ (\A i \in 1 .. Len(e) : f[i] = e[i])
      /\ (\A i \in 1 .. Len(p) : f[i + Len(e)] = p[i])
  BY <1>1, <1>2, ConcatIs
<1>5. /\ \A i \in 1 .. Len(buf) : (buf \o more)[i] = buf[i]
      /\ \A i \in 1 .. Len(f) : (f \o rest)[i] = f[i]
  BY <1>1, ConcatIs
<1>6. \A i \in Nat : i \in 1 .. Len(buf) /\ i \in 1 .. Len(e) => buf[i] = e[i]
  <2>1. \A i \in 1 .. Len(e) : i \in 1 .. Len(f)
    BY <1>1, <1>2, <1>4
  <2>2. buf \o more = f \o rest
    BY DEF f
  <2> QED
    BY <1>4, <1>5, <2>1, <2>2
<1>7. d.n = Len(e) /\ d.val = Len(p)
  <2>0. \A k \in Nat, n \in {1, 2} : n <= k => k >= 1
    OBVIOUS
  <2>1. 1 \in 1 .. Len(buf) /\ 1 \in 1 .. Len(e)
    <3>1. Len(buf) >= 1 /\ Len(buf) \in Nat
      BY <1>1, <1>3, <2>0, Zenon
    <3>0. \A k \in {1, 2} : 1 \in 1 .. k
      OBVIOUS
    <3>2. 1 \in 1 .. Len(e)
      BY <1>2, <3>0, Zenon
    <3> QED
      BY <3>1, <3>2
  <2>2. Len(e) = 2 /\ Len(buf) > 1 => 2 \in 1 .. Len(buf) /\ 2 \in 1 .. Len(e)
    BY <1>1
  <2>3. buf[1] = e[1] /\ (Len(e) = 2 /\ Len(buf) > 1 => buf[2] = e[2])
    BY <1>6, <2>1, <2>2
  <2>4. Len(buf) >= 1
    BY <1>1, <2>1
  <2> QED
    BY <2>3, <2>4, LengthRead DEF d, e
<1>8. d.n + d.val = Len(f) /\ Len(f) <= Len(buf)
  BY <1>1, <1>2, <1>3, <1>4, <1>7 DEF d
<1>9. buf = f \o Rest(buf, Len(f)) /\ Rest(buf, Len(f)) \o more = rest
  BY <1>1, <1>8, Cancel DEF f
<1>10. SubSeq(buf, Len(e) + 1, Len(f)) = p
  <2>1. \A i \in 1 .. Len(f) : buf[i] = f[i]
    <3>1. \A i \in 1 .. Len(f) : i \in 1 .. Len(buf)
      BY <1>1, <1>8
    <3>2. buf \o more = f \o rest
      BY DEF f
    <3> QED
      BY <1>5, <3>1, <3>2
  <2> DEFINE s == SubSeq(buf, Len(e) + 1, Len(f))
  <2>2. /\ s \in Seq(Nat) /\ Len(s) = Len(p)
        /\ \A i \in 1 .. Len(p) : s[i] = buf[i + Len(e)]
    <3> DEFINE m == Len(e) + 1
               n == Len(f)
    <3>1. m \in Nat /\ n \in Nat /\ m >= 1 /\ n <= Len(buf) /\ n - m + 1 = Len(p) /\ n >= m - 1
      BY <1>1, <1>2, <1>4, <1>8
    <3> HIDE DEF m, n
    <3>0. \A i \in m .. n : buf[i] \in Nat
      <4>1. \A i \in m .. n : i \in 1 .. Len(buf)
        BY <1>1, <3>1
      <4> QED
        BY <1>1, <4>1, ElementOfSeq
    <3>2. SubSeq(buf, m, n) \in Seq(Nat)
      BY <1>1, <3>0, <3>1, SubSeqProperties
    <3>3. Len(SubSeq(buf, m, n)) = Len(p)
      <4>1. Len(SubSeq(buf, m, n)) = IF m <= n THEN n - m + 1 ELSE 0
        BY <1>1, <3>0, <3>1, SubSeqProperties
      <4> DEFINE k == Len(p)
      <4>2. (IF m <= n THEN n - m + 1 ELSE 0) = k
        <5>1. k \in Nat /\ n - m + 1 = k
          BY <1>1, <3>1
        <5> HIDE DEF k
        <5> QED
          BY <3>1, <5>1
      <4> QED
        BY <4>1, <4>2
    <3>4. \A i \in 1 .. Len(p) : SubSeq(buf, m, n)[i] = buf[m + i - 1]
      BY <1>1, <3>1, SubSeqProperties
    <3>5. \A i \in 1 .. Len(p) : m + i - 1 = i + Len(e)
      BY <1>2 DEF m
    <3> QED
      BY <3>2, <3>3, <3>4, <3>5 DEF m, n
  <2> HIDE DEF s
  <2>3. \A i \in 1 .. Len(p) : i + Len(e) \in 1 .. Len(f)
    BY <1>1, <1>2, <1>4
  <2>4. \A i \in 1 .. Len(p) : s[i] = p[i]
    BY <1>4, <2>1, <2>2, <2>3
  <2>5. s = p
    BY <1>1, <2>2, <2>4, SeqEqual
  <2> QED
    BY <2>5 DEF s
<1> QED
  BY <1>7, <1>8, <1>9, <1>10 DEF d

LEMMA NotEmpty ==
  ASSUME NEW x \in Bytes, NEW y \in Bytes, x \o y = <<>>
  PROVE  x = <<>>
<1>1. x \in Seq(Nat) /\ y \in Seq(Nat) /\ Len(x) \in Nat /\ Len(y) \in Nat
  BY LenProperties DEF Bytes
<1>2. Len(x \o y) = Len(x) + Len(y) /\ Len(x \o y) = 0
  BY <1>1, ConcatProperties
<1>3. Len(x) = 0
  BY <1>1, <1>2
<1> QED
  BY <1>1, <1>3, EmptySeq

\* The receiver takes a packet out of its buffer, which is the next that was sent.
LEMMA FlowDeliver ==
  ASSUME NEW buf \in Bytes, NEW wire \in Bytes, NEW out \in Bytes,
         NEW sent \in Seq(Packets), NEW got \in Seq(Bytes),
         Flow(buf, wire, out, sent, got),
         decvle14(buf).n > 0, Len(buf) >= decvle14(buf).n + decvle14(buf).val
  PROVE  LET end == decvle14(buf).n + decvle14(buf).val
         IN  Flow(Rest(buf, end), wire, out, sent, Append(got, SubSeq(buf, decvle14(buf).n + 1, end)))
<1> DEFINE end == decvle14(buf).n + decvle14(buf).val
           more == wire \o out
           b == Rest(buf, end)
<1>1. buf # <<>>
  BY DEF decvle14
<1>2. more \in Bytes /\ buf \o wire \in Bytes
  BY Joined, Zenon
<1>3. (buf \o wire) \o out = buf \o more
  BY Grouped, Zenon
<1>4. buf \o more = Pending(sent, got) /\ FirstOf(got, sent)
  BY <1>3, Zenon DEF Flow
<1> HIDE DEF more
<1>5. Len(got) # Len(sent)
  BY <1>1, <1>2, <1>4, NotEmpty, PendingNone, Zenon
<1>6. PICK p \in Packets :
         /\ Pending(sent, got) = Frame(p) \o Pending(sent, Append(got, p))
         /\ FirstOf(Append(got, p), sent) /\ Append(got, p) \in Seq(Bytes)
         /\ Pending(sent, Append(got, p)) \in Bytes
  BY <1>4, <1>5, PendingFirst
<1> DEFINE rest == Pending(sent, Append(got, p))
<1> HIDE DEF rest
<1>7. SubSeq(buf, decvle14(buf).n + 1, end) = p /\ b \o more = rest
  <2>1. buf \o more = Frame(p) \o rest /\ rest \in Bytes
    BY <1>4, <1>6 DEF rest
  <2> QED
    BY <1>2, <2>1, FrameRead
<1>8. b \in Bytes
  <2>1. /\ decvle14(buf).n \in {-1, 0, 1, 2} /\ decvle14(buf).val \in Nat
        /\ Len(buf) \in Nat
    BY DecodedIs, LenProperties DEF Bytes
  <2> DEFINE k == Len(buf)
  <2>2. end \in 0 .. k
    <3>1. k >= end
      OBVIOUS
    <3> DEFINE x == decvle14(buf).n
               y == decvle14(buf).val
    <3>2. x \in {-1, 0, 1, 2} /\ y \in Nat /\ k \in Nat /\ x > 0 /\ k >= x + y
      BY <2>1
    <3> HIDE DEF x, y, k
    <3>3. x + y \in 0 .. k
      BY <3>2
    <3> QED
      BY <3>3 DEF x, y, k
  <2> HIDE DEF end
  <2> QED
    BY <2>2, PartsAre
<1> HIDE DEF b, end
<1>9. (b \o wire) \o out = b \o more
  BY <1>8, Grouped, Zenon DEF more
<1>10. Flow(b, wire, out, sent, Append(got, p))
  BY <1>6, <1>7, <1>9 DEF Flow, rest
<1> QED
  BY <1>7, <1>10 DEF b, end

-----------------------------------------------------------------------------
(* What one end of a link does to either direction. *)

\* From end s of link k, with buf in the buffer at the other end and out left over.
Dir(k, s, buf, out) ==
  s \in k.open =>
     LET m == Other(k, s)
     IN  /\ FirstOf(k.got[m], k.sent[s])
         /\ m \in k.open => Flow(buf, k.wire[m], out, k.sent[s], k.got[m])

\* Node n makes link e of k, and connection d of c: both directions keep their frames.
Good(k, e, n, c, d) ==
  /\ e.from = k.from /\ e.to = k.to
  /\ d.state = "CLOSED" => n \notin e.open
  /\ \A buf \in Bytes : Dir(k, n, buf, c.out) => Dir(e, n, buf, d.out)
  /\ \A out \in Bytes : Dir(k, Other(k, n), c.in, out) => Dir(e, Other(k, n), d.in, out)

\* the parts of a link that Dir is about
SameFlow(k, e) ==
  /\ e.from = k.from /\ e.to = k.to /\ e.open = k.open
  /\ e.wire = k.wire /\ e.sent = k.sent /\ e.got = k.got

LEMMA DirSame ==
  ASSUME NEW k, NEW e, SameFlow(k, e), NEW s, NEW buf, NEW out, Dir(k, s, buf, out)
  PROVE  Dir(e, s, buf, out)
BY DEF SameFlow, Dir, Other

LEMMA OtherIs ==
  ASSUME NEW k \in Link, NEW n \in {k.from, k.to}
  PROVE  Other(k, n) \in {k.from, k.to} /\ Other(k, n) # n /\ Other(k, Other(k, n)) = n
BY LinkHas DEF Other

LEMMA EndsAre ==
  ASSUME NEW k \in Link, NEW n \in {k.from, k.to}
  PROVE  /\ k.wire[n] \in Stream /\ k.wire[n] \in Bytes
         /\ k.sent[n] \in Seq(Packets) /\ k.got[n] \in Seq(Bytes)
BY LinkHas DEF Stream, Bytes

LEMMA BuffersAre ==
  ASSUME NEW c \in Conn
  PROVE  c.in \in Bytes /\ c.out \in Bytes
BY DEF Conn, InBuf, OutBuf, Bytes

LEMMA GoodSame ==
  ASSUME NEW k, NEW n, NEW c, c.state # "CLOSED"
  PROVE  Good(k, k, n, c, c)
BY DEF Good

LEMMA GoodTwice ==
  ASSUME NEW k \in Link, NEW e \in Link, NEW g, NEW n \in {k.from, k.to}, NEW c, NEW t, NEW d,
         Good(k, e, n, c, t), Good(e, g, n, t, d)
  PROVE  Good(k, g, n, c, d)
<1>1. Other(e, n) = Other(k, n)
  BY DEF Good, Other
<1> QED
  BY <1>1 DEF Good

\* The node closes its end.
LEMMA GoodClosed ==
  ASSUME NEW k \in Link, NEW n \in {k.from, k.to}, NEW c, NEW d
  PROVE  Good(k, ClosedAt(k, n), n, c, d)
<1> DEFINE e == ClosedAt(k, n)
<1>1. /\ e = [k EXCEPT !.open = k.open \ {n}, !.wire = [k.wire EXCEPT ![n] = <<>>]]
      /\ e.from = k.from /\ e.to = k.to /\ e.open = k.open \ {n}
  BY ClosedLink
<1>2. k \in LinkOf(k.from, k.to)
  BY LinkHas
<1>3. e.sent = k.sent /\ e.got = k.got
  <2> HIDE DEF e
  <2> QED
    BY <1>1, <1>2 DEF LinkOf
<1> HIDE DEF e
<1>4. Other(k, Other(k, n)) = n /\ Other(e, Other(k, n)) = n
  BY <1>1, OtherIs DEF Other
<1>5. Good(k, e, n, c, d)
  BY <1>1, <1>3, <1>4 DEF Good, Dir
<1> QED
  BY <1>5 DEF e

\* The node writes.
LEMMA GoodWritten ==
  ASSUME NEW k \in Link, NEW n \in {k.from, k.to}, NEW c, NEW d, NEW e, NEW bytes, NEW x, NEW q,
         WrittenAs(e, k, n, bytes, x, q), d.state # "CLOSED", d.in = c.in,
         \A buf \in Bytes :
            Flow(buf, k.wire[Other(k, n)], c.out, k.sent[n], k.got[Other(k, n)])
            => Flow(buf, k.wire[Other(k, n)] \o SubSeq(bytes, 1, x), d.out, q, k.got[Other(k, n)]),
         FirstOf(k.got[Other(k, n)], k.sent[n]) => FirstOf(k.got[Other(k, n)], q)
  PROVE  Good(k, e, n, c, d)
<1> DEFINE m == Other(k, n)
<1>1. /\ e.from = k.from /\ e.to = k.to /\ e.open = k.open /\ e.got = k.got
      /\ e.wire[m] = k.wire[m] \o SubSeq(bytes, 1, x)
      /\ e.wire[n] = k.wire[n] /\ e.sent[n] = q /\ e.sent[m] = k.sent[m]
  BY DEF WrittenAs
<1>2. Other(k, m) = n /\ Other(e, m) = n /\ Other(e, n) = m
  BY <1>1, OtherIs DEF Other
<1> HIDE DEF m
<1>3. ASSUME NEW buf \in Bytes, Dir(k, n, buf, c.out) PROVE Dir(e, n, buf, d.out)
  BY <1>1, <1>2, <1>3 DEF Dir, m
<1>4. ASSUME NEW out \in Bytes, Dir(k, m, c.in, out) PROVE Dir(e, m, d.in, out)
  BY <1>1, <1>2, <1>4 DEF Dir
<1> QED
  BY <1>1, <1>3, <1>4 DEF Good, m

\* The first bytes of two strings are of the first of them, the last of the second.
LEMMA JoinedFirst ==
  ASSUME NEW a \in Bytes, NEW b \in Bytes, NEW c \in 0 .. Len(a)
  PROVE  SubSeq(a \o b, 1, c) = SubSeq(a, 1, c)
<1> DEFINE j == a \o b
           s == SubSeq(j, 1, c)
           t == SubSeq(a, 1, c)
<1>1. a \in Seq(Nat) /\ b \in Seq(Nat) /\ Len(a) \in Nat /\ Len(b) \in Nat /\ c \in Nat
  BY LenProperties DEF Bytes
<1>2. j \in Seq(Nat) /\ Len(j) = Len(a) + Len(b) /\ \A i \in 1 .. Len(a) : j[i] = a[i]
  BY <1>1, ConcatIs
<1> HIDE DEF j
<1>3. c \in 0 .. Len(j)
  BY <1>1, <1>2
<1>4. /\ s \in Seq(Nat) /\ Len(s) = c /\ \A i \in 1 .. c : s[i] = j[i]
      /\ t \in Seq(Nat) /\ Len(t) = c /\ \A i \in 1 .. c : t[i] = a[i]
  BY <1>1, <1>2, <1>3, FirstIs
<1> HIDE DEF s, t
<1>5. \A i \in 1 .. c : i \in 1 .. Len(a)
  BY <1>1
<1>6. s = t
  BY <1>2, <1>4, <1>5, SeqEqual
<1> QED
  BY <1>6 DEF s, t, j

LEMMA JoinedRest ==
  ASSUME NEW a \in Bytes, NEW b \in Bytes, NEW c \in 0 .. Len(b)
  PROVE  Rest(a \o b, Len(a) + c) = Rest(b, c)
<1> DEFINE j == a \o b
           s == Rest(j, Len(a) + c)
           t == Rest(b, c)
<1>1. a \in Seq(Nat) /\ b \in Seq(Nat) /\ Len(a) \in Nat /\ Len(b) \in Nat /\ c \in Nat /\ c <= Len(b)
  BY LenProperties DEF Bytes
<1>2. j \in Seq(Nat) /\ Len(j) = Len(a) + Len(b) /\ \A i \in 1 .. Len(b) : j[i + Len(a)] = b[i]
  BY <1>1, ConcatIs
<1> HIDE DEF j
<1>3. Len(a) + c \in 0 .. Len(j)
  BY <1>1, <1>2
<1>4. /\ s \in Seq(Nat) /\ Len(s) = Len(j) - (Len(a) + c)
      /\ \A i \in 1 .. Len(j) - (Len(a) + c) : s[i] = j[i + (Len(a) + c)]
  BY <1>2, <1>3, RestIs
<1>5. t \in Seq(Nat) /\ Len(t) = Len(b) - c /\ \A i \in 1 .. Len(b) - c : t[i] = b[i + c]
  BY <1>1, RestIs
<1> HIDE DEF s, t
<1>6. Len(j) - (Len(a) + c) = Len(b) - c
  BY <1>1, <1>2
<1>7. ASSUME NEW i \in 1 .. Len(b) - c PROVE s[i] = t[i]
  <2>1. i + c \in 1 .. Len(b) /\ i + (Len(a) + c) = (i + c) + Len(a)
    BY <1>1
  <2> QED
    BY <1>2, <1>4, <1>5, <1>6, <2>1
<1>8. s = t
  BY <1>4, <1>5, <1>6, <1>7, SeqEqual
<1> QED
  BY <1>8 DEF s, t, j

\* What zhe_platform_send_conn writes keeps the frames whole.
LEMMA FlowSent ==
  ASSUME NEW c \in Conn, NEW k \in Link, NEW n \in {k.from, k.to}, NEW pkt \in Packets,
         NEW buf \in Bytes,
         Flow(buf, k.wire[Other(k, n)], c.out, k.sent[n], k.got[Other(k, n)])
  PROVE  Flow(buf, k.wire[Other(k, n)] \o SubSeq(c.out \o Frame(pkt), 1,
                                                FromOut(c, k, n) + FromFrame(c, k, n, pkt)),
              Left(c, k, n, pkt), Sends(c, k, n, pkt), k.got[Other(k, n)])
<1> DEFINE fo == FromOut(c, k, n)
           ff == FromFrame(c, k, n, pkt)
           f == Frame(pkt)
           out == c.out
           wire == k.wire[Other(k, n)]
           got == k.got[Other(k, n)]
           sent == k.sent[n]
<1>1. /\ fo \in 0 .. Len(out) /\ ff \in 0 .. Len(f)
      /\ fo < Len(out) => ff = 0
      /\ fo + ff \in 0 .. Len(out \o f)
  BY AmountIs
<1>2. f \in Bytes /\ out \in Bytes /\ wire \in Bytes /\ got \in Seq(Bytes) /\ sent \in Seq(Packets)
      /\ Len(f) \in Nat /\ Len(out) \in Nat
  <2>1. f \in Bytes /\ out \in Bytes
    BY PacketIs, BuffersAre
  <2>2. wire \in Bytes /\ got \in Seq(Bytes) /\ sent \in Seq(Packets)
    BY OtherIs, EndsAre
  <2> HIDE DEF f, out, wire, got, sent
  <2> QED
    BY <2>1, <2>2, LenProperties DEF Bytes
<1>3. Left(c, k, n, pkt) = (IF ff = 0 THEN Rest(out, fo) ELSE Rest(f, ff))
      /\ Sends(c, k, n, pkt) = (IF ff = 0 THEN sent ELSE Append(sent, pkt))
  BY DEF Left, Sends, Leftover
<1> DEFINE x == Left(c, k, n, pkt)
           q == Sends(c, k, n, pkt)
<1> HIDE DEF fo, ff, f, out, wire, got, sent, x, q
<1>4. Flow(buf, wire, out, sent, got)
  BY DEF wire, out, sent, got
<1>5. CASE ff = 0
  <2>1. fo + ff = fo /\ SubSeq(out \o f, 1, fo) = SubSeq(out, 1, fo)
    BY <1>1, <1>2, <1>5, JoinedFirst
  <2>2. Flow(buf, wire \o SubSeq(out, 1, fo), Rest(out, fo), sent, got)
    BY <1>1, <1>2, <1>4, FlowKeep
  <2>3. Flow(buf, wire \o SubSeq(out \o f, 1, fo + ff), x, q, got)
    BY <1>3, <1>5, <2>1, <2>2 DEF x, q
  <2> QED
    BY <2>3 DEF fo, ff, f, out, wire, got, x, q
<1>6. CASE ff # 0
  <2>1. fo = Len(out)
    BY <1>1, <1>2, <1>6
  <2>2. Rest(out \o f, fo + ff) = Rest(f, ff)
    BY <1>1, <1>2, <2>1, JoinedRest
  <2>3. Flow(buf, wire \o SubSeq(out \o f, 1, fo + ff), Rest(out \o f, fo + ff), Append(sent, pkt), got)
    <3> DEFINE y == fo + ff
    <3>1. y \in 0 .. Len(out \o Frame(pkt))
      BY <1>1 DEF f
    <3> HIDE DEF y
    <3>2. Flow(buf, wire \o SubSeq(out \o Frame(pkt), 1, y), Rest(out \o Frame(pkt), y), Append(sent, pkt), got)
      BY <1>2, <1>4, <3>1, FlowSend
    <3> QED
      BY <3>2 DEF y, f
  <2>4. Flow(buf, wire \o SubSeq(out \o f, 1, fo + ff), x, q, got)
    BY <1>3, <1>6, <2>2, <2>3 DEF x, q
  <2> QED
    BY <2>4 DEF fo, ff, f, out, wire, got, x, q
<1> QED
  BY <1>5, <1>6

LEMMA FirstOfSends ==
  ASSUME NEW c \in Conn, NEW k \in Link, NEW n \in {k.from, k.to}, NEW pkt \in Packets,
         FirstOf(k.got[Other(k, n)], k.sent[n])
  PROVE  FirstOf(k.got[Other(k, n)], Sends(c, k, n, pkt))
<1>1. k.got[Other(k, n)] \in Seq(Bytes) /\ k.sent[n] \in Seq(Packets)
  BY OtherIs, EndsAre
<1>2. FirstOf(k.got[Other(k, n)], Append(k.sent[n], pkt))
  BY <1>1, PendingSent
<1> QED
  BY <1>2 DEF Sends

\* zhe_platform_send_conn
LEMMA GoodSent ==
  ASSUME NEW c \in Conn, c.state = "LIVE", NEW k \in Link, NEW n \in {k.from, k.to},
         NEW pkt \in Packets
  PROVE  Good(k, SentLink(c, k, n, pkt), n, c, SentConn(c, k, n, pkt))
<1> DEFINE d == SentConn(c, k, n, pkt)
           e == SentLink(c, k, n, pkt)
<1>1. CASE HungUp(k, n) /\ c.out # <<>>
  <2>1. d = c /\ e = k
    BY <1>1 DEF SentConn, SentLink
  <2> QED
    BY <2>1 DEF Good
<1>2. CASE HungUp(k, n) /\ ~ (c.out # <<>>)
  <2>1. e = ClosedAt(k, n)
    BY <1>2 DEF SentLink
  <2> QED
    BY <2>1, GoodClosed
<1>3. CASE ~ HungUp(k, n)
  <2> DEFINE bytes == c.out \o Frame(pkt)
             count == FromOut(c, k, n) + FromFrame(c, k, n, pkt)
             q == Sends(c, k, n, pkt)
             x == Left(c, k, n, pkt)
  <2>1. SentOn(d, e, c, k, n, pkt)
    BY <1>3, SentParts
  <2> HIDE DEF d, e
  <2>2. /\ d = [c EXCEPT !.out = x] /\ x \in OutBuf /\ WrittenAs(e, k, n, bytes, count, q)
    BY <2>1 DEF SentOn
  <2>3. \A buf \in Bytes :
            Flow(buf, k.wire[Other(k, n)], c.out, k.sent[n], k.got[Other(k, n)])
            => Flow(buf, k.wire[Other(k, n)] \o SubSeq(bytes, 1, count), x, q, k.got[Other(k, n)])
    BY FlowSent
  <2>4. FirstOf(k.got[Other(k, n)], k.sent[n]) => FirstOf(k.got[Other(k, n)], q)
    BY FirstOfSends
  <2> HIDE DEF bytes, count, q, x
  <2>5. d.state = "LIVE" /\ d.in = c.in /\ d.out = x
    BY <2>2 DEF Conn
  <2>6. Good(k, e, n, c, d)
    BY <2>2, <2>3, <2>4, <2>5, GoodWritten
  <2> QED
    BY <2>6 DEF d, e
<1> QED
  BY <1>1, <1>2, <1>3

\* A number of bytes is read.
LEMMA GoodRead ==
  ASSUME NEW k \in Link, NEW n \in {k.from, k.to}, NEW c \in Conn, NEW x \in 0 .. Len(k.wire[n]),
         NEW d, d.state = "LIVE", d.in = c.in \o SubSeq(k.wire[n], 1, x), d.out = c.out
  PROVE  Good(k, [k EXCEPT !.wire[n] = Rest(k.wire[n], x)], n, c, d)
<1> DEFINE m == Other(k, n)
           w == Rest(k.wire[n], x)
           e == [k EXCEPT !.wire[n] = w]
<1>1. w \in Stream
  BY ReadIs
<1> HIDE DEF w
<1>2. ReadFrom(e, k, n, w) /\ e.got = k.got
  BY <1>1, EmptySeq, ReadLink
<1>3. k.wire \in [{k.from, k.to} -> Stream]
  BY LinkHas
<1> HIDE DEF e
<1>4. /\ e.from = k.from /\ e.to = k.to /\ e.open = k.open /\ e.sent = k.sent
      /\ e.wire = [k.wire EXCEPT ![n] = w]
  BY <1>2 DEF ReadFrom
<1>5. m \in {k.from, k.to} /\ m # n /\ Other(k, m) = n /\ Other(e, m) = n /\ Other(e, n) = m
  BY <1>4, OtherIs DEF Other
<1>6. k.wire[n] \in Bytes /\ c.in \in Bytes
  BY EndsAre, BuffersAre
<1> HIDE DEF m
<1>7. e.wire[m] = k.wire[m] /\ e.wire[n] = w
  BY <1>3, <1>4, <1>5
<1>8. ASSUME NEW buf \in Bytes, Dir(k, n, buf, c.out) PROVE Dir(e, n, buf, d.out)
  BY <1>2, <1>4, <1>5, <1>7, <1>8 DEF Dir, m
<1>9. ASSUME NEW out \in Bytes, Dir(k, m, c.in, out) PROVE Dir(e, m, d.in, out)
  <2>1. Flow(c.in, k.wire[n], out, k.sent[m], k.got[n]) => Flow(d.in, w, out, k.sent[m], k.got[n])
    BY <1>6, FlowRead DEF w
  <2> QED
    BY <1>2, <1>4, <1>5, <1>7, <1>9, <2>1 DEF Dir
<1>10. Good(k, e, n, c, d)
  BY <1>4, <1>8, <1>9 DEF Good, m
<1> QED
  BY <1>10 DEF e, w

\* A packet is taken out of the buffer.
LEMMA GoodDeliver ==
  ASSUME NEW k \in Link, NEW n \in {k.from, k.to}, n \in k.open,
         NEW c, c.in \in Bytes, NEW d, d.state = "LIVE",
         decvle14(c.in).n > 0, Len(c.in) >= decvle14(c.in).n + decvle14(c.in).val,
         d.in = Rest(c.in, decvle14(c.in).n + decvle14(c.in).val), d.out = c.out,
         NEW g \in Seq(Bytes),
         g = Append(k.got[n], SubSeq(c.in, decvle14(c.in).n + 1, decvle14(c.in).n + decvle14(c.in).val))
  PROVE  Good(k, [k EXCEPT !.got[n] = g], n, c, d)
<1> DEFINE m == Other(k, n)
           e == [k EXCEPT !.got[n] = g]
<1>1. k \in LinkOf(k.from, k.to) /\ k.got \in [{k.from, k.to} -> Seq(Bytes)]
  BY LinkHas
<1>2. /\ e.from = k.from /\ e.to = k.to /\ e.open = k.open /\ e.sent = k.sent
      /\ e.wire = k.wire /\ e.got = [k.got EXCEPT ![n] = g]
  BY <1>1 DEF LinkOf
<1> HIDE DEF e
<1>3. m \in {k.from, k.to} /\ m # n /\ Other(k, m) = n /\ Other(e, m) = n /\ Other(e, n) = m
  BY <1>2, OtherIs DEF Other
<1>4. k.wire[n] \in Bytes /\ k.sent[m] \in Seq(Packets) /\ k.got[n] \in Seq(Bytes)
  BY <1>3, EndsAre
<1> HIDE DEF m
<1>5. e.got[m] = k.got[m] /\ e.got[n] = g
  BY <1>1, <1>2, <1>3
<1>6. ASSUME NEW buf \in Bytes, Dir(k, n, buf, c.out) PROVE Dir(e, n, buf, d.out)
  BY <1>2, <1>3, <1>5, <1>6 DEF Dir, m
<1>7. ASSUME NEW out \in Bytes, Dir(k, m, c.in, out) PROVE Dir(e, m, d.in, out)
  <2>1. Flow(c.in, k.wire[n], out, k.sent[m], k.got[n]) => Flow(d.in, k.wire[n], out, k.sent[m], g)
    BY <1>4, FlowDeliver
  <2>2. Flow(d.in, k.wire[n], out, k.sent[m], g) => FirstOf(g, k.sent[m])
    BY DEF Flow
  <2> QED
    BY <1>2, <1>3, <1>5, <1>7, <2>1, <2>2 DEF Dir
<1> QED
  BY <1>2, <1>6, <1>7 DEF Good, m, e

-----------------------------------------------------------------------------
(* What handle_data does. *)

\* What handle_data makes of a connection is over a link on which n has only read.
ReadAs(d, k, c, o, n) ==
  /\ d \in Conn /\ d.state = "LIVE" /\ DataOK(d) /\ Stays(c, d) /\ Moves(c, d)
  /\ d.sock = c.sock
  /\ k \in Link /\ k.from = o.from /\ k.to = o.to /\ k.accepted = o.accepted /\ k.open = o.open
  /\ o.from # n /\ Silent(o) => Silent(k)

LEMMA ReadGood ==
  ASSUME NEW c \in Conn, c.state \in {"WAITDATA", "LIVE"}, NEW o \in Link,
         NEW n \in {o.from, o.to}, NEW w \in Stream, NEW g \in Seq(Bytes), NEW in \in InBuf,
         NEW waiting \in BOOLEAN,
         o.from # n /\ Silent(o) => w = <<>>,
         FrameDue([make_live(c) EXCEPT !.in = in, !.datawaiting = waiting])
  PROVE  /\ ReadAs([make_live(c) EXCEPT !.in = in, !.datawaiting = waiting],
                   [o EXCEPT !.wire[n] = w], c, o, n)
         /\ ReadAs([make_live(c) EXCEPT !.in = in, !.datawaiting = waiting],
                   [[o EXCEPT !.wire[n] = w] EXCEPT !.got[n] = g], c, o, n)
<1> DEFINE v == make_live(c)
           d == [v EXCEPT !.in = in, !.datawaiting = waiting]
           r == [o EXCEPT !.wire[n] = w]
           t == [[o EXCEPT !.wire[n] = w] EXCEPT !.got[n] = g]
<1>1. v \in Conn /\ v.state = "LIVE" /\ v.sock = c.sock /\ Stays(c, v) /\ Moves(c, v)
  BY LiveIs
<1> HIDE DEF v
<1>2. /\ d \in Conn /\ d.state = "LIVE" /\ d.sock = c.sock /\ d.serial = v.serial
      /\ d.pingprogeny = v.pingprogeny
  BY <1>1 DEF Conn
<1>3. FrameDue(d)
  BY DEF v
<1> HIDE DEF d
<1>4. DataOK(d) /\ Stays(c, d) /\ Moves(c, d)
  BY <1>1, <1>2, <1>3 DEF DataOK, Stays, Moves
<1>5. ReadFrom(t, o, n, w) /\ ReadFrom(r, o, n, w)
  BY ReadLink
<1>6. o.wire \in [{o.from, o.to} -> Stream]
  BY LinkHas
<1> HIDE DEF t, r
<1>7. o.from # n /\ Silent(o) => Silent(t) /\ Silent(r)
  BY <1>5, <1>6 DEF Silent, ReadFrom
<1>8. ReadAs(d, r, c, o, n) /\ ReadAs(d, t, c, o, n)
  BY <1>2, <1>4, <1>5, <1>7 DEF ReadAs, ReadFrom
<1> QED
  BY <1>8 DEF d, v, r, t

\* and it may have answered
ReadOrSent(d, k, c, o, n) ==
  \/ ReadAs(d, k, c, o, n)
  \/ \E t, r : ReadAs(t, r, c, o, n) /\ SentAs(d, k, t, r, n)

\* the addresses given to n are of connection i as it is afterwards
KnownGrows(n, i) ==
  /\ known' \in [Nodes -> SUBSET ((Nat \X Nat) \X Nat)]
  /\ \A m \in Nodes \ {n} : known'[m] = known[m]
  /\ \A x \in known'[n] : x \in known[n] \/ (x[1][1] = i /\ KnownOK(x, conns'[n]))

\* connection i becomes d and its link k
OneStep(n, i, d, k) ==
  conns' = [conns EXCEPT ![n][i] = d] /\ links' = [links EXCEPT ![conns[n][i].sock] = k]

\* and both directions of its link keep their frames
KeepsFrames(n, i) ==
  \E d, k : /\ OneStep(n, i, d, k) /\ Stays(conns[n][i], d)
            /\ Good(links[conns[n][i].sock], k, n, conns[n][i], d)

LEMMA ReadOrSentIs ==
  ASSUME NEW c \in Conn, NEW o \in Link, NEW n \in o.open, NEW d, NEW k, ReadOrSent(d, k, c, o, n)
  PROVE  /\ d \in Conn /\ k \in Link /\ d.state # "TCPCONNECT"
         /\ k.from = o.from /\ k.to = o.to /\ k.accepted = o.accepted
         /\ o.open \ {n} \subseteq k.open
         /\ o.from # n /\ Silent(o) => Silent(k)
         /\ d.state # "CLOSED" => n \in k.open
         /\ DataOK(d) /\ Stays(c, d) /\ Moves(c, d)
<1>1. CASE ReadAs(d, k, c, o, n)
  BY <1>1 DEF ReadAs
<1>2. CASE \E t, r : ReadAs(t, r, c, o, n) /\ SentAs(d, k, t, r, n)
  <2>1. PICK t, r : ReadAs(t, r, c, o, n) /\ SentAs(d, k, t, r, n)
    BY <1>2
  <2>2. t \in Conn /\ t.state = "LIVE" /\ DataOK(t) /\ Stays(c, t) /\ Moves(c, t) /\ d \in Conn
    BY <2>1 DEF ReadAs, SentAs
  <2>3. /\ DataOK(d) /\ Stays(t, d) /\ Moves(t, d) /\ d.state # "TCPCONNECT"
        /\ (d.state # "CLOSED" => k.open = r.open) /\ r.open \ {n} \subseteq k.open
    BY <2>1, <2>2, SentGood
  <2>4. Stays(c, d) /\ Moves(c, d)
    BY <2>2, <2>3, MovesOn
  <2> QED
    BY <2>1, <2>2, <2>3, <2>4 DEF ReadAs, SentAs
<1> QED
  BY <1>1, <1>2 DEF ReadOrSent

LEMMA ReadStep ==
  ASSUME ConnInv, NEW n \in Nodes, NEW i \in Idx(n), NEW d, NEW k,
         conns[n][i].state \in {"WAITDATA", "LIVE"},
         ReadOrSent(d, k, conns[n][i], links[conns[n][i].sock], n),
         OneStep(n, i, d, k),
         KnownGrows(n, i)
  PROVE  ConnInv'
<1> DEFINE c == conns[n][i]
           o == links[c.sock]
<1>1. c \in Conn /\ o \in Link /\ n \in o.open /\ c.sock \in DOMAIN links
  BY DEF ConnInv, Tables, EndOK
<1> HIDE DEF c, o
<1>2. /\ d \in Conn /\ k \in Link /\ d.state # "TCPCONNECT"
      /\ k.from = o.from /\ k.to = o.to /\ k.accepted = o.accepted
      /\ o.open \ {n} \subseteq k.open
      /\ o.from # n /\ Silent(o) => Silent(k)
      /\ d.state # "CLOSED" => n \in k.open
      /\ DataOK(d) /\ Stays(c, d) /\ Moves(c, d)
  <2>1. ReadOrSent(d, k, c, o, n)
    BY DEF c, o
  <2> QED
    BY <1>1, <2>1, ReadOrSentIs
<1> QED
  BY <1>2, OneConnection DEF c, o, KnownGrows, OneStep

LEMMA DataStep ==
  ASSUME ConnInv, NEW n \in Nodes, NEW i \in Idx(n),
         conns[n][i].state \in {"WAITDATA", "LIVE"},
         NEW k \in 0 .. Len(links[conns[n][i].sock].wire[n]),
         Len(conns[n][i].in) + k <= BufSize, handle_data(n, i, k)
  PROVE  ConnInv' /\ (KeepsFrames(n, i) \/ Close(n, i, TRUE))
<1> DEFINE c == conns[n][i]
           o == links[c.sock]
           conn == make_live(c)
           in == conn.in \o SubSeq(o.wire[n], 1, k)
           w == Rest(o.wire[n], k)
           read == [o EXCEPT !.wire[n] = w]
           len == decvle14(in)
           end == len.n + len.val
           pkt == SubSeq(in, len.n + 1, end)
           rest == Rest(in, end)
<1>1. c \in Conn /\ o \in Link /\ n \in o.open /\ c.sock \in DOMAIN links
  BY DEF ConnInv, Tables, EndOK
<1>2. n \in {o.from, o.to}
  BY <1>1, LinkHas
<1>3. conn \in Conn /\ conn.sock = c.sock /\ conn.serial \in Nat /\ conn.sock \in Nat
  BY <1>1, LiveIs DEF Conn
<1>4. /\ [o EXCEPT !.wire[n] = Rest(@, k)] = read
      /\ w \in Stream /\ SubSeq(o.wire[n], 1, k) \in Bytes
      /\ o.from # n /\ Silent(o) => Rest(o.wire[o.to], k) = <<>>
  BY <1>1, <1>2, ReadIs
<1>5. in \in Bytes /\ in \in InBuf
  <2>1. conn.in \in Seq(Nat) /\ conn.in = c.in
    BY <1>1, <1>3, LiveIs DEF Conn, InBuf
  <2>2. o.wire[n] \in Seq(Nat)
    BY <1>1, <1>2, LinkHas DEF Stream
  <2>3. SubSeq(o.wire[n], 1, k) \in Seq(Nat) /\ Len(SubSeq(o.wire[n], 1, k)) = k
    BY <2>2, FirstIs
  <2> DEFINE a == conn.in
             b == SubSeq(o.wire[n], 1, k)
  <2> HIDE DEF conn, a, b
  <2>5. a \o b \in Seq(Nat) /\ Len(a \o b) = Len(a) + Len(b)
    BY <2>1, <2>3, ConcatIs DEF a, b
  <2>4. in \in Seq(Nat) /\ Len(in) = Len(c.in) + k
    BY <2>1, <2>3, <2>5 DEF a, b
  <2> QED
    BY <2>4 DEF Bytes, InBuf
<1>6. len.n \in {-1, 0, 1, 2} /\ len.val \in Nat /\ Len(in) \in Nat
  BY <1>5, DecodedIs, LenProperties DEF Bytes
<1>7. o.from # n /\ Silent(o) => w = <<>>
  BY <1>2, <1>4
<1>8. \/ len.n < 0 /\ Close(n, i, TRUE)
      \/ /\ len.n = 0 \/ Len(in) < end
         /\ conns' = [conns EXCEPT ![n][i] = [conn EXCEPT !.in = in, !.datawaiting = FALSE]]
         /\ links' = [links EXCEPT ![conn.sock] = read]
         /\ UNCHANGED <<pingthrottle, known>>
      \/ /\ ~ (len.n < 0) /\ ~ (len.n = 0) /\ ~ (Len(in) < end)
         /\ Deliver(n, i, conn, read, pkt, rest)
  <2>1. conn.sock = c.sock /\ [o EXCEPT !.wire[n] = Rest(@, k)] = read
    BY <1>3, <1>4
  <2> DEFINE Keep(conn0, in0, read0) ==
               /\ conns' = [conns EXCEPT ![n][i] = [conn0 EXCEPT !.in = in0, !.datawaiting = FALSE]]
               /\ links' = [links EXCEPT ![conn0.sock] = read0]
               /\ UNCHANGED <<pingthrottle, known>>
             B(conn0, in0, read0, len0) ==
               LET end0 == len0.n + len0.val
               IN  IF len0.n < 0 THEN Close(n, i, TRUE)
                   ELSE IF len0.n = 0 \/ Len(in0) < end0 THEN Keep(conn0, in0, read0)
                   ELSE Deliver(n, i, conn0, read0, SubSeq(in0, len0.n + 1, end0), Rest(in0, end0))
  <2>2. \E conn0 \in {make_live(conns[n][i])} :
        \E in0 \in {conn0.in \o SubSeq(links[conn0.sock].wire[n], 1, k)},
           read0 \in {[links[conn0.sock] EXCEPT !.wire[n] = Rest(@, k)]} :
        \E len0 \in {decvle14(in0)} : B(conn0, in0, read0, len0)
    BY DEF handle_data
  <2> HIDE DEF B
  <2>3. B(conn, in, read, len)
    <3>1. \E in0 \in {conn.in \o SubSeq(links[conn.sock].wire[n], 1, k)},
             read0 \in {[links[conn.sock] EXCEPT !.wire[n] = Rest(@, k)]} :
          \E len0 \in {decvle14(in0)} : B(conn, in0, read0, len0)
      BY <2>2, Zenon
    <3> HIDE DEF conn
    <3>2. \E in0 \in {in}, read0 \in {read} : \E len0 \in {decvle14(in0)} : B(conn, in0, read0, len0)
      BY <2>1, <3>1
    <3> HIDE DEF in, read
    <3> QED
      BY <3>2
  <2> HIDE DEF conn, in, read, len, Keep
  <2>4. \/ len.n < 0 /\ Close(n, i, TRUE)
        \/ (len.n = 0 \/ Len(in) < end) /\ Keep(conn, in, read)
        \/ ~ (len.n < 0) /\ ~ (len.n = 0) /\ ~ (Len(in) < end) /\ Deliver(n, i, conn, read, pkt, rest)
    BY <2>3 DEF B
  <2> QED
    BY <2>4 DEF Keep
<1>9. known \in [Nodes -> SUBSET ((Nat \X Nat) \X Nat)]
  BY DEF ConnInv, Tables
<1>10. CASE len.n < 0 /\ Close(n, i, TRUE)
  BY <1>10, CloseStep
<1>11. CASE /\ len.n = 0 \/ Len(in) < end
            /\ conns' = [conns EXCEPT ![n][i] = [conn EXCEPT !.in = in, !.datawaiting = FALSE]]
            /\ links' = [links EXCEPT ![conn.sock] = read]
            /\ UNCHANGED <<pingthrottle, known>>
  <2> DEFINE d == [make_live(c) EXCEPT !.in = in, !.datawaiting = FALSE]
  <2>1. d.in = in
    BY <1>3 DEF Conn
  <2>2. ~ (len.n > 0 /\ Len(in) >= end)
    <3> HIDE DEF len, in
    <3> QED
      BY <1>6, <1>11
  <2>3. FrameDue(d)
    <3> HIDE DEF d, in
    <3> QED
      BY <2>1, <2>2 DEF FrameDue
  <2>4. ReadAs(d, read, c, o, n)
    <3> HIDE DEF in, w
    <3> QED
      BY <1>1, <1>2, <1>4, <1>5, <1>7, <2>3, EmptySeq, ReadGood DEF Bytes
  <2>5. ReadOrSent(d, read, c, o, n)
    BY <2>4 DEF ReadOrSent
  <2>6. KnownGrows(n, i)
    BY <1>9, <1>11 DEF KnownGrows
  <2>7. OneStep(n, i, d, read)
    BY <1>3, <1>11 DEF OneStep
  <2>8. d.in = c.in \o SubSeq(o.wire[n], 1, k) /\ d.out = c.out /\ d.state = "LIVE" /\ Stays(c, d)
    <3>1. make_live(c) \in Conn /\ make_live(c).in = c.in /\ make_live(c).out = c.out
          /\ make_live(c).state = "LIVE"
      BY <1>1, LiveIs
    <3>2. Stays(c, d)
      <4> HIDE DEF d
      <4> QED
        BY <2>4 DEF ReadAs
    <3> QED
      BY <3>1, <3>2 DEF Conn
  <2>9. Good(o, read, n, c, d)
    <3>1. k \in 0 .. Len(o.wire[n])
      OBVIOUS
    <3> HIDE DEF c, o, d
    <3> QED
      BY <1>1, <1>2, <2>8, <3>1, GoodRead
  <2>10. KeepsFrames(n, i)
    <3> HIDE DEF read, d
    <3> QED
      BY <2>7, <2>8, <2>9 DEF KeepsFrames
  <2> HIDE DEF read, d
  <2> QED
    BY <2>5, <2>6, <2>7, <2>10, ReadStep
<1>12. CASE /\ ~ (len.n < 0) /\ ~ (len.n = 0) /\ ~ (Len(in) < end)
            /\ Deliver(n, i, conn, read, pkt, rest)
  <2> DEFINE g == Append(o.got[n], pkt)
             waiting == rest # <<>>
             t == [make_live(c) EXCEPT !.in = rest, !.datawaiting = waiting]
             got == [[o EXCEPT !.wire[n] = w] EXCEPT !.got[n] = g]
  <2>1. end \in 0 .. Len(in) /\ len.n + 1 \in Nat /\ len.n + 1 >= 1 /\ end \in Nat
    <3> HIDE DEF len, in
    <3> QED
      BY <1>6, <1>12
  <2>2. pkt \in Bytes /\ rest \in InBuf
    <3>1. in \in Seq(Nat) /\ Len(in) <= BufSize
      BY <1>5 DEF InBuf
    <3> DEFINE from == len.n + 1
    <3> HIDE DEF len, in, end, from
    <3>2. SubSeq(in, from, end) \in Seq(Nat)
      BY <2>1, <3>1, SubSeqProperties DEF from
    <3>3. Rest(in, end) \in Seq(Nat) /\ Len(Rest(in, end)) = Len(in) - end
      BY <2>1, <3>1, RestIs
    <3>4. BufSize \in Nat /\ Len(in) \in Nat
      BY <3>1, LenProperties, SizesAre
    <3>5. Len(in) - end <= BufSize
      BY <2>1, <3>1, <3>4
    <3> QED
      BY <3>2, <3>3, <3>5 DEF Bytes, InBuf, from
  <2>3. o.got \in [{o.from, o.to} -> Seq(Bytes)]
    BY <1>1, LinkHas
  <2>4. g \in Seq(Bytes)
    <3> HIDE DEF pkt
    <3> QED
      BY <1>2, <2>2, <2>3, AppendProperties
  <2>5. FrameDue(t)
    <3>1. t.in = rest /\ t.datawaiting = waiting
      BY <1>3 DEF Conn
    <3>2. decvle14(<<>>).n = -1
      BY DEF decvle14
    <3>3. rest # <<>> => t.datawaiting
      BY <3>1
    <3> HIDE DEF t, rest
    <3> QED
      BY <3>1, <3>2, <3>3 DEF FrameDue
  <2>6. ReadAs(t, got, c, o, n)
    <3> HIDE DEF in, w, g, rest
    <3> QED
      BY <1>1, <1>2, <1>4, <1>5, <1>7, <2>2, <2>4, <2>5, ReadGood
  <2>7. got = [read EXCEPT !.got[n] = Append(@, pkt)]
    <3>1. read.got = o.got
      BY <1>1, LinkHas DEF LinkOf
    <3> HIDE DEF read
    <3> QED
      BY <3>1 DEF read
  <2>8. MoreWaiting(rest) = waiting
    BY DEF MoreWaiting
  <2>9. \E d, e : /\ \/ d = t /\ e = got
                     \/ d = SentConn(t, got, n, HELLO) /\ e = SentLink(t, got, n, HELLO)
                  /\ conns' = [conns EXCEPT ![n][i] = d]
                  /\ links' = [links EXCEPT ![conn.sock] = e]
                  /\ known' = [known EXCEPT ![n] = @ \cup {<<<<i, conn.serial>>, conn.sock>>}]
    <3> HIDE DEF read, pkt, rest
    <3>1. Deliver(n, i, conn, read, pkt, rest)
      BY <1>12
    <3> HIDE DEF conn
    <3>2. t = [conn EXCEPT !.in = rest, !.datawaiting = MoreWaiting(rest)]
      BY <2>8 DEF conn
    <3> HIDE DEF t, got
    <3> QED
      BY <2>7, <3>1, <3>2, Zenon DEF Deliver
  <2> HIDE DEF t, got
  <2>10. PICK d, e : /\ \/ d = t /\ e = got
                        \/ d = SentConn(t, got, n, HELLO) /\ e = SentLink(t, got, n, HELLO)
                     /\ conns' = [conns EXCEPT ![n][i] = d]
                     /\ links' = [links EXCEPT ![conn.sock] = e]
                     /\ known' = [known EXCEPT ![n] = @ \cup {<<<<i, conn.serial>>, conn.sock>>}]
    BY <2>9
  <2>11. t \in Conn /\ t.state = "LIVE" /\ got \in Link /\ n \in {got.from, got.to}
         /\ HELLO \in Packets /\ t.serial = conn.serial /\ t.sock = conn.sock
    <3>1. t.serial = conn.serial /\ t.sock = conn.sock
      <4>1. make_live(c) \in Conn
        BY <1>3
      <4> QED
        BY <4>1 DEF t, Conn
    <3> HIDE DEF conn
    <3> QED
      BY <1>2, <2>6, <3>1 DEF ReadAs, Packets
  <2>12. (d = t /\ e = got) \/ SentAs(d, e, t, got, n)
    BY <2>10, <2>11, SentIs
  <2>13. ReadOrSent(d, e, c, o, n)
    BY <2>6, <2>12 DEF ReadOrSent
  <2>14. d.serial = conn.serial /\ (d.state = "LIVE" => d.sock = conn.sock)
    <3> HIDE DEF conn
    <3>1. CASE d = t
      BY <2>11, <3>1
    <3>2. CASE SentAs(d, e, t, got, n)
      BY <2>11, <3>2, ClosedIs DEF SentAs
    <3> QED
      BY <2>12, <3>1, <3>2
  <2> DEFINE x == <<<<i, conn.serial>>, conn.sock>>
  <2>15. x[1][1] = i /\ x[1][2] = conn.serial /\ x[2] = conn.sock /\ x \in (Nat \X Nat) \X Nat
         /\ i \in Nat /\ conn.serial \in Nat
    <3>1. i \in Nat
      BY TcpAssumption DEF Idx
    <3> HIDE DEF conn
    <3> QED
      BY <1>3, <3>1
  <2>16. conns'[n][i] = d
    BY <2>10 DEF ConnInv, Tables
  <2>17. KnownOK(x, conns'[n])
    <3> HIDE DEF x, conn
    <3> QED
      BY <2>14, <2>15, <2>16 DEF KnownOK
  <2>18. KnownGrows(n, i)
    <3>1. known' = [known EXCEPT ![n] = known[n] \cup {x}]
      BY <2>10
    <3> HIDE DEF x
    <3> QED
      BY <1>9, <2>15, <2>17, <3>1 DEF KnownGrows
  <2>19. OneStep(n, i, d, e)
    BY <1>3, <2>10 DEF OneStep
  <2>20. Stays(c, d)
    <3> HIDE DEF c, o
    <3> QED
      BY <1>1, <2>13, ReadOrSentIs
  <2>21. Good(o, e, n, c, d)
    <3> DEFINE v == [make_live(c) EXCEPT !.in = in]
    <3>1. /\ v.in = in /\ v.out = c.out /\ v.state = "LIVE" /\ t.in = rest /\ t.out = v.out
          /\ in = c.in \o SubSeq(o.wire[n], 1, k) /\ t.state = "LIVE"
      <4>1. make_live(c) \in Conn /\ make_live(c).in = c.in /\ make_live(c).out = c.out
            /\ make_live(c).state = "LIVE"
        BY <1>1, LiveIs
      <4> QED
        BY <4>1 DEF Conn, t
    <3> HIDE DEF v
    <3>2. read \in Link /\ read.from = o.from /\ read.to = o.to /\ read.got = o.got /\ read.open = o.open
      <4>1. ReadFrom(read, o, n, w) /\ read.got = o.got
        <5> HIDE DEF w, o
        <5> QED
          BY <1>1, <1>2, <1>4, EmptySeq, ReadLink
      <4> HIDE DEF read
      <4> QED
        BY <4>1 DEF ReadFrom
    <3>3. Good(o, read, n, c, v)
      <4>1. k \in 0 .. Len(o.wire[n])
        OBVIOUS
      <4> HIDE DEF c, o, in
      <4> QED
        BY <1>1, <1>2, <3>1, <4>1, GoodRead
    <3>4. Good(read, got, n, v, t)
      <4>1. len.n > 0 /\ Len(in) >= len.n + len.val
        <5> HIDE DEF len, in
        <5> QED
          BY <1>6, <1>12
      <4>2. got = [read EXCEPT !.got[n] = g] /\ g = Append(read.got[n], SubSeq(in, len.n + 1, len.n + len.val))
            /\ rest = Rest(in, len.n + len.val)
        BY <3>2 DEF got
      <4> HIDE DEF read, in, g, rest
      <4>3. /\ decvle14(v.in).n > 0 /\ Len(v.in) >= decvle14(v.in).n + decvle14(v.in).val
            /\ t.in = Rest(v.in, decvle14(v.in).n + decvle14(v.in).val)
            /\ g = Append(read.got[n], SubSeq(v.in, decvle14(v.in).n + 1,
                                              decvle14(v.in).n + decvle14(v.in).val))
        <5>1. decvle14(v.in) = len /\ v.in = in
          BY <3>1
        <5> HIDE DEF len
        <5> QED
          BY <3>1, <4>1, <4>2, <5>1
      <4>4. /\ n \in {read.from, read.to} /\ n \in read.open /\ read \in Link
            /\ v.in \in Bytes /\ t.out = v.out /\ t.state = "LIVE"
        BY <1>1, <1>2, <1>5, <3>1, <3>2
      <4> HIDE DEF len
      <4>5. Good(read, [read EXCEPT !.got[n] = g], n, v, t)
        BY <2>4, <4>3, <4>4, GoodDeliver
      <4> QED
        BY <4>2, <4>5
    <3>5. Good(got, e, n, t, d)
      <4>1. CASE d = t /\ e = got
        BY <3>1, <4>1, GoodSame
      <4>2. CASE d = SentConn(t, got, n, HELLO) /\ e = SentLink(t, got, n, HELLO)
        BY <2>11, <4>2, GoodSent
      <4> QED
        BY <2>10, <4>1, <4>2
    <3> HIDE DEF read, c, o
    <3> QED
      BY <1>1, <1>2, <2>11, <3>2, <3>3, <3>4, <3>5, GoodTwice
  <2>22. KeepsFrames(n, i)
    BY <2>19, <2>20, <2>21 DEF KeepsFrames
  <2> QED
    BY <2>13, <2>18, <2>19, <2>22, ReadStep
<1> QED
  BY <1>8, <1>10, <1>11, <1>12

-----------------------------------------------------------------------------
(* Connections that are made. *)

\* A connection that was not in use gets a socket that no other has, for an
\* address that no other was made for.
LEMMA ApartWith ==
  ASSUME NEW ids, NEW cs, NEW ds, NEW i \in ids, Apart(ids, cs),
         \A j \in ids : j # i => ds[j] = cs[j],
         \A j \in ids : j # i /\ cs[j].state # "CLOSED" =>
            /\ cs[j].sock # ds[i].sock
            /\ ds[i].pingprogeny # NONE => cs[j].pingprogeny # ds[i].pingprogeny
  PROVE  Apart(ids, ds)
BY DEF Apart

LEMMA AcceptStep == ASSUME ConnInv, NEW n \in Nodes, Accept(n) PROVE ConnInv'
<1> DEFINE cs == conns[n]
           i == Min(Free(n))
           l == Min(Backlog(n))
           d == make_waitdata([cs[i] EXCEPT !.sock = l])
           k == [links[l] EXCEPT !.accepted = TRUE]
           ds == [cs EXCEPT ![i] = d]
<1>0. /\ cs \in [Idx(n) -> Conn] /\ links \in Seq(Link) /\ DOMAIN links = 1 .. Len(links)
      /\ Apart(Idx(n), cs) /\ \A j \in Idx(n) : EndOK(n, cs[j], links)
      /\ known \in [Nodes -> SUBSET ((Nat \X Nat) \X Nat)]
      /\ \A q \in DOMAIN links : Waits(links[q]) /\ links[q] \in Link
  BY DEF ConnInv, Tables
<1>1. CASE ~ (n \in Listeners /\ Free(n) # {} /\ Backlog(n) # {})
  <2>1. conns' = conns /\ links' = links /\ known' = known
    BY <1>1 DEF Accept
  <2> QED
    BY <2>1 DEF ConnInv, Tables, KnownOK, Idx
<1>2. CASE n \in Listeners /\ Free(n) # {} /\ Backlog(n) # {}
  <2>1. i \in Idx(n) /\ cs[i].state = "CLOSED"
    <3>1. Free(n) \subseteq Nat
      BY TcpAssumption DEF Free, Idx
    <3>2. i \in Free(n)
      BY <1>2, <3>1, MinIs
    <3> QED
      BY <3>2 DEF Free
  <2>2. l \in DOMAIN links /\ links[l].to = n /\ ~links[l].accepted /\ l \in Nat
    <3>1. Backlog(n) \subseteq Nat
      BY <1>0 DEF Backlog
    <3>2. l \in Backlog(n)
      BY <1>2, <3>1, MinIs
    <3> QED
      BY <1>0, <3>2 DEF Backlog
  <2>3. /\ conns' = [conns EXCEPT ![n] = ds] /\ known' = known
        /\ links' = [links EXCEPT ![l] = k]
    BY <1>2 DEF Accept, ConnInv, Tables
  <2> HIDE DEF i, l
  <2>4. /\ d \in Conn /\ d.state = "WAITDATA" /\ d.sock = l /\ d.pingprogeny = NONE
        /\ d.serial = cs[i].serial /\ d.in = <<>> /\ d.out = <<>> /\ d.datawaiting = FALSE
    <3> DEFINE c == cs[i]
    <3>1. /\ c = ClosedConn(c.serial) /\ c \in Conn
          /\ c.in = <<>> /\ c.out = <<>> /\ ~c.datawaiting
      BY <1>0, <2>1 DEF EndOK
    <3>2. c.pingprogeny = NONE
      BY <3>1 DEF ClosedConn
    <3> HIDE DEF cs, c
    <3>3. make_waitdata([c EXCEPT !.sock = l]) = [c EXCEPT !.sock = l, !.state = "WAITDATA"]
      BY <3>1 DEF make_waitdata, Conn
    <3>4. c.datawaiting = FALSE
      BY <3>1 DEF Conn
    <3> DEFINE e == [c EXCEPT !.sock = l, !.state = "WAITDATA"]
    <3>5. /\ e \in Conn /\ e.state = "WAITDATA" /\ e.sock = l /\ e.pingprogeny = NONE
          /\ e.serial = c.serial /\ e.in = <<>> /\ e.out = <<>> /\ e.datawaiting = FALSE
      BY <2>2, <3>1, <3>2, <3>4 DEF Conn
    <3> QED
      BY <3>3, <3>5 DEF c
  <2>5. /\ k \in Link /\ k.from = links[l].from /\ k.to = links[l].to /\ k.open = links[l].open
        /\ k.accepted = TRUE /\ k.wire = links[l].wire /\ k.sent = links[l].sent
    BY <1>0, <2>2, LinkAccepted
  <2> HIDE DEF d, k
  <2>6. ds \in [Idx(n) -> Conn] /\ ds[i] = d /\ \A j \in Idx(n) : j # i => ds[j] = cs[j]
    BY <1>0, <2>1, <2>4
  <2>7. links' \in Seq(Link) /\ DOMAIN links' = DOMAIN links
        /\ links'[l] = k /\ \A q \in DOMAIN links : q # l => links'[q] = links[q]
    BY <1>0, <2>2, <2>3, <2>5
  <2>8. LinksGo(n, links, links')
    BY <1>0, <2>2, <2>5, <2>7 DEF LinksGo, Silent, Waits
  <2> HIDE DEF ds
  <2>9. Apart(Idx(n), ds)
    <3>1. ASSUME NEW j \in Idx(n), j # i, cs[j].state # "CLOSED" PROVE cs[j].sock # ds[i].sock
      BY <1>0, <2>2, <2>4, <2>6, <3>1 DEF EndOK
    <3> HIDE DEF cs
    <3> QED
      BY <1>0, <2>1, <2>4, <2>6, <3>1, ApartWith
  <2>10. ASSUME NEW j \in Idx(n) PROVE EndOK(n, ds[j], links') /\ Moves(cs[j], ds[j])
    <3>1. CASE j = i
      <4>1. FrameDue(d)
        BY <2>4 DEF FrameDue, decvle14
      <4>2. n \in links[l].open
        BY <1>0, <2>2 DEF Waits
      <4>3. cs[i].serial \in Nat
        BY <1>0, <2>1 DEF Conn
      <4> QED
        BY <2>2, <2>4, <2>5, <2>6, <2>7, <3>1, <4>1, <4>2, <4>3 DEF EndOK, Moves
    <3>2. CASE j # i
      <4>1. ds[j] = cs[j] /\ EndOK(n, cs[j], links) /\ cs[j].serial \in Nat
        BY <1>0, <2>6, <3>2 DEF Conn
      <4>2. EndOK(n, cs[j], links')
        <5>1. \A q \in DOMAIN links : /\ links'[q].from = links[q].from /\ links'[q].to = links[q].to
                                      /\ links'[q].open = links[q].open
                                      /\ (links[q].accepted => links'[q].accepted)
                                      /\ (Silent(links[q]) => Silent(links'[q]))
          BY <2>5, <2>7 DEF Silent
        <5> DEFINE c == cs[j]
        <5> HIDE DEF c
        <5>2. EndOK(n, c, links) => EndOK(n, c, links')
          BY <2>7, <5>1 DEF EndOK
        <5> QED
          BY <4>1, <5>2 DEF c
      <4> QED
        BY <4>1, <4>2 DEF Moves
    <3> QED
      BY <3>1, <3>2
  <2>11. \A x \in known'[n] : x[1][1] \in Idx(n) /\ x \in known[n]
    BY <2>3 DEF ConnInv, Tables
  <2> HIDE DEF cs
  <2>12. \A j \in Idx(n) : EndOK(n, ds[j], links') /\ Moves(conns[n][j], ds[j])
    BY <2>10 DEF cs
  <2> QED
    BY <1>0, <2>3, <2>6, <2>8, <2>9, <2>11, <2>12, StepOfNode
<1> QED
  BY <1>1, <1>2

\* The first packet of the end that connects.
LEMMA ScoutIs ==
  ASSUME NEW k \in Link, Silent(k)
  PROVE  WrittenAs(SendScout(k, k.from), k, k.from, Frame(SCOUT), Len(Frame(SCOUT)), <<SCOUT>>)
<1> DEFINE f == Frame(SCOUT)
<1>1. SCOUT \in Packets /\ f \in Bytes /\ Len(f) \in Nat /\ Len(f) <= Cap
  <2>1. SCOUT \in Packets /\ SCOUT \in Seq(Nat) /\ Len(SCOUT) \in Nat /\ Cap \in Nat /\ Cap > Len(SCOUT) + 1
    BY TcpAssumption, LenProperties DEF Packets
  <2>2. f \in Bytes /\ Len(f) \in Nat /\ Len(f) <= Len(SCOUT) + 2
    BY <2>1, PacketIs, FrameIs
  <2> HIDE DEF f
  <2> QED
    BY <2>1, <2>2
<1>2. k.from # k.to /\ Other(k, k.from) = k.to
  BY LinkHas DEF Other
<1> HIDE DEF f
<1>3. Len(f) \in 0 .. Len(f) /\ Len(k.wire[Other(k, k.from)]) + Len(f) <= Cap
  <2>1. Len(k.wire[Other(k, k.from)]) = 0
    BY <1>2 DEF Silent
  <2>2. Cap \in Nat
    BY TcpAssumption
  <2> QED
    BY <1>1, <2>1, <2>2
<1>4. <<SCOUT>> \in Seq(Packets)
  BY <1>1
<1>5. WrittenAs(Written(k, k.from, f, Len(f), <<SCOUT>>), k, k.from, f, Len(f), <<SCOUT>>)
  BY <1>1, <1>3, <1>4, WrittenLink
<1> QED
  BY <1>5 DEF SendScout, Written, f

\* What housekeeping makes of the connections and links of n, before it connects.
GoneNow(n, closed) ==
  [i \in Idx(n) |-> IF i \in closed THEN make_closed(conns[n][i])
                    ELSE IF i \in Connecting(n) \ closed THEN make_waitdata(conns[n][i])
                    ELSE conns[n][i]]
LinksNow(n, closed) ==
  [l \in DOMAIN links |->
      IF \E i \in closed : conns[n][i].sock = l THEN ClosedAt(links[l], n)
      ELSE IF \E i \in Connecting(n) \ closed : conns[n][i].sock = l THEN SendScout(links[l], n)
      ELSE links[l]]

LEMMA NowIs ==
  ASSUME ConnInv, NEW n \in Nodes, NEW closed, closed \subseteq Tentative(n)
  PROVE  /\ GoneNow(n, closed) \in [Idx(n) -> Conn]
         /\ LinksGo(n, links, LinksNow(n, closed))
         /\ Len(LinksNow(n, closed)) = Len(links)
         /\ \A i \in Idx(n) : /\ EndOK(n, GoneNow(n, closed)[i], LinksNow(n, closed))
                              /\ Moves(conns[n][i], GoneNow(n, closed)[i])
                              /\ Stays(conns[n][i], GoneNow(n, closed)[i])
<1> DEFINE cs == conns[n]
           con == Connecting(n) \ closed
           ds == GoneNow(n, closed)
           ms == LinksNow(n, closed)
<1>0. /\ cs \in [Idx(n) -> Conn] /\ links \in Seq(Link) /\ DOMAIN links = 1 .. Len(links)
      /\ Apart(Idx(n), cs) /\ \A i \in Idx(n) : EndOK(n, cs[i], links)
      /\ \A l \in DOMAIN links : Waits(links[l]) /\ links[l] \in Link
  BY DEF ConnInv, Tables
<1>1. /\ \A i \in closed : i \in Idx(n) /\ cs[i].state # "CLOSED" /\ cs[i].state # "LIVE"
      /\ \A i \in con : i \in Idx(n) /\ cs[i].state = "TCPCONNECT" /\ i \notin closed
  BY DEF Tentative, Connecting
<1>2. ds = [i \in Idx(n) |-> IF i \in closed THEN make_closed(cs[i])
                             ELSE IF i \in con THEN make_waitdata(cs[i]) ELSE cs[i]]
      /\ ms = [l \in DOMAIN links |->
                 IF \E i \in closed : cs[i].sock = l THEN ClosedAt(links[l], n)
                 ELSE IF \E i \in con : cs[i].sock = l THEN SendScout(links[l], n)
                 ELSE links[l]]
  BY DEF GoneNow, LinksNow
<1> HIDE DEF con, ds, ms
<1>3. ASSUME NEW i \in Idx(n), cs[i].state # "CLOSED"
      PROVE  /\ cs[i].sock \in DOMAIN links /\ n \in links[cs[i].sock].open
             /\ links[cs[i].sock] \in Link /\ n \in {links[cs[i].sock].from, links[cs[i].sock].to}
             /\ n = links[cs[i].sock].to => links[cs[i].sock].accepted
             /\ cs[i].state = "TCPCONNECT" => n = links[cs[i].sock].from /\ Silent(links[cs[i].sock])
  <2>1. /\ cs[i].sock \in DOMAIN links /\ n \in links[cs[i].sock].open
        /\ n = links[cs[i].sock].to => links[cs[i].sock].accepted
        /\ cs[i].state = "TCPCONNECT" => n = links[cs[i].sock].from /\ Silent(links[cs[i].sock])
    BY <1>0, <1>3 DEF EndOK
  <2> QED
    BY <1>0, <2>1, LinkHas
<1>4. ASSUME NEW i \in Idx(n), cs[i].state # "CLOSED", NEW j \in Idx(n), cs[j].state # "CLOSED", cs[i].sock = cs[j].sock
      PROVE  i = j
  BY <1>0, <1>4 DEF Apart
<1>5. ASSUME NEW i \in con
      PROVE  LET k == links[cs[i].sock]
                 e == SendScout(k, n)
             IN  /\ ms[cs[i].sock] = e
                 /\ WrittenAs(e, k, n, Frame(SCOUT), Len(Frame(SCOUT)), <<SCOUT>>)
  <2>1. ~ \E j \in closed : cs[j].sock = cs[i].sock
    BY <1>1, <1>4
  <2>2. ms[cs[i].sock] = SendScout(links[cs[i].sock], n)
    BY <1>1, <1>2, <1>3, <2>1
  <2> QED
    BY <1>1, <1>3, <2>2, ScoutIs
<1>6. ASSUME NEW l \in DOMAIN links
      PROVE  /\ ms[l] \in Link /\ Waits(ms[l])
             /\ ms[l].from = links[l].from /\ ms[l].to = links[l].to
             /\ ms[l].accepted = links[l].accepted
             /\ links[l].open \ {n} \subseteq ms[l].open
             /\ links[l].from # n /\ Silent(links[l]) => Silent(ms[l])
  <2>1. ASSUME NEW i \in closed, cs[i].sock = l PROVE <1>6!2
    <3> DEFINE k == links[l]
    <3>1. /\ k \in Link /\ n \in {k.from, k.to} /\ (n = k.to => k.accepted) /\ Waits(k)
      BY <1>0, <1>1, <1>3, <2>1
    <3>2. ms[l] = ClosedAt(k, n)
      BY <1>2, <2>1
    <3> HIDE DEF k
    <3>3. /\ ClosedAt(k, n) \in Link
          /\ ClosedAt(k, n) = [k EXCEPT !.open = k.open \ {n}, !.wire = [k.wire EXCEPT ![n] = <<>>]]
          /\ ClosedAt(k, n).from = k.from /\ ClosedAt(k, n).to = k.to
          /\ ClosedAt(k, n).accepted = k.accepted /\ ClosedAt(k, n).open = k.open \ {n}
      BY <3>1, ClosedLink
    <3>4. k \in LinkOf(k.from, k.to) /\ k.wire \in [{k.from, k.to} -> Stream] /\ k.from # k.to
      BY <3>1, LinkHas
    <3>5. ClosedAt(k, n).sent = k.sent /\ ClosedAt(k, n).wire = [k.wire EXCEPT ![n] = <<>>]
      BY <3>3, <3>4 DEF LinkOf
    <3>6. k.from # n /\ Silent(k) => Silent(ClosedAt(k, n))
      BY <3>1, <3>3, <3>4, <3>5 DEF Silent
    <3>7. Waits(ClosedAt(k, n))
      BY <3>1, <3>3 DEF Waits
    <3> QED
      BY <3>2, <3>3, <3>6, <3>7 DEF k
  <2>2. ASSUME NEW i \in con, cs[i].sock = l PROVE <1>6!2
    <3>1. n = links[l].from
      BY <1>1, <1>3, <2>2
    <3> QED
      BY <1>0, <1>5, <2>2, <3>1 DEF WrittenAs, Waits
  <2>3. CASE (\A i \in closed : cs[i].sock # l) /\ (\A i \in con : cs[i].sock # l)
    BY <1>0, <1>2, <2>3
  <2> QED
    BY <2>1, <2>2, <2>3
<1>7. ms \in Seq(Link) /\ DOMAIN ms = DOMAIN links /\ Len(ms) = Len(links)
  <2>1. ms \in [1 .. Len(links) -> Link] /\ Len(links) \in Nat
    BY <1>0, <1>2, <1>6
  <2>2. ms \in Seq(Link)
    BY <2>1, SeqDef
  <2>3. DOMAIN ms = 1 .. Len(links)
    BY <2>1
  <2> QED
    BY <1>0, <2>1, <2>2, <2>3, LenProperties
<1>8. LinksGo(n, links, ms)
  BY <1>6, <1>7 DEF LinksGo
<1>9. ASSUME NEW i \in Idx(n)
      PROVE  ds[i] \in Conn /\ EndOK(n, ds[i], ms) /\ Moves(cs[i], ds[i]) /\ Stays(cs[i], ds[i])
  <2>0. cs[i] \in Conn /\ cs[i].serial \in Nat
    BY <1>0 DEF Conn
  <2>1. CASE i \in closed
    <3>1. ds[i] = make_closed(cs[i])
      BY <1>2, <2>1
    <3> QED
      BY <2>0, <3>1, ClosedIs DEF EndOK, DataOK
  <2>2. CASE i \in con
    <3> DEFINE d == make_waitdata(cs[i])
               k == links[cs[i].sock]
    <3>1. ds[i] = d
      BY <1>1, <1>2, <2>2
    <3>2. /\ d \in Conn /\ d.state = "WAITDATA" /\ d.sock = cs[i].sock /\ d.in = cs[i].in
          /\ d.out = cs[i].out /\ d.datawaiting = cs[i].datawaiting /\ d.serial = cs[i].serial
          /\ d.pingprogeny = cs[i].pingprogeny
      BY <2>0 DEF make_waitdata, Conn
    <3>3. EndOK(n, cs[i], links) /\ cs[i].state = "TCPCONNECT"
      BY <1>0, <1>1, <2>2
    <3>4. /\ ms[cs[i].sock].open = k.open /\ ms[cs[i].sock].to = k.to
          /\ ms[cs[i].sock].accepted = k.accepted
      BY <1>5, <2>2 DEF WrittenAs
    <3>5. cs[i].sock \in DOMAIN ms /\ n \in k.open /\ (n = k.to => k.accepted)
      BY <1>1, <1>3, <1>7, <2>2
    <3> HIDE DEF d, k
    <3>6. EndOK(n, d, ms)
      BY <3>2, <3>3, <3>4, <3>5 DEF EndOK, FrameDue
    <3>7. Moves(cs[i], d) /\ Stays(cs[i], d)
      BY <2>0, <3>2, <3>3 DEF Moves, Stays
    <3> QED
      BY <3>1, <3>2, <3>6, <3>7
  <2>3. CASE i \notin closed /\ i \notin con
    <3>1. ds[i] = cs[i]
      BY <1>2, <2>3
    <3>2. EndOK(n, cs[i], ms)
      <4>1. cs[i].state # "CLOSED" => (\A j \in closed : cs[j].sock # cs[i].sock) /\ (\A j \in con : cs[j].sock # cs[i].sock)
        BY <1>1, <1>4, <2>3
      <4>2. cs[i].state # "CLOSED" => ms[cs[i].sock] = links[cs[i].sock] /\ cs[i].sock \in DOMAIN ms
        BY <1>2, <1>3, <1>7, <4>1
      <4>3. EndOK(n, cs[i], links)
        BY <1>0
      <4> QED
        BY <1>3, <4>2, <4>3 DEF EndOK
    <3>3. Moves(cs[i], cs[i]) /\ Stays(cs[i], cs[i])
      BY <2>0 DEF Moves, Stays
    <3> QED
      BY <2>0, <3>1, <3>2, <3>3
  <2> QED
    BY <2>1, <2>2, <2>3
<1>10. ds \in [Idx(n) -> Conn]
  BY <1>2, <1>9
<1> QED
  BY <1>7, <1>8, <1>9, <1>10 DEF ds, ms

LEMMA HousekeepingStep ==
  ASSUME ConnInv, NEW n \in Nodes, NEW over, NEW failed, failed \subseteq Tentative(n),
         Housekeeping(n, over, failed)
  PROVE  ConnInv'
<1> DEFINE cs == conns[n]
           throttle == pingthrottle[n] \ over
           closed == {i \in Tentative(n) :
                        i \in failed \/ (i \in Connecting(n) /\ HungUp(links[cs[i].sock], n))}
           gs == GoneNow(n, closed)
           ms == LinksNow(n, closed)
           due == PingsDue(n, throttle)
           p == CHOOSE x \in due : TRUE
           new == Len(links) + 1
           i0 == Clidx(n)
           d == ConnectTo(gs[i0], p, new)
           ds == [gs EXCEPT ![i0] = d]
           k == NewLink(n, p)
<1>0. /\ cs \in [Idx(n) -> Conn] /\ links \in Seq(Link) /\ DOMAIN links = 1 .. Len(links)
      /\ Len(links) \in Nat /\ Apart(Idx(n), cs)
      /\ known \in [Nodes -> SUBSET ((Nat \X Nat) \X Nat)]
      /\ \A x \in known[n] : x[1][1] \in Idx(n)
      /\ \A i \in Idx(n) : EndOK(n, cs[i], links)
  BY LenProperties DEF ConnInv, Tables
<1>1. /\ known' = known
      /\ \/ /\ Free(n) # {} /\ due # {}
            /\ links' = Append(ms, k) /\ conns' = [conns EXCEPT ![n] = ds]
         \/ links' = ms /\ conns' = [conns EXCEPT ![n] = gs]
  BY DEF Housekeeping, GoneNow, LinksNow
<1>2. /\ gs \in [Idx(n) -> Conn] /\ LinksGo(n, links, ms) /\ Len(ms) = Len(links)
      /\ \A i \in Idx(n) : /\ EndOK(n, gs[i], ms) /\ Moves(cs[i], gs[i]) /\ Stays(cs[i], gs[i])
  <2>1. closed \subseteq Tentative(n)
    OBVIOUS
  <2> HIDE DEF closed
  <2> QED
    BY <2>1, NowIs
<1>3. Apart(Idx(n), gs)
  <2> HIDE DEF cs, gs
  <2> QED
    BY <1>0, <1>2, ApartKept
<1>4. CASE links' = ms /\ conns' = [conns EXCEPT ![n] = gs]
  <2>1. \A x \in known'[n] : x[1][1] \in Idx(n) /\ x \in known[n]
    BY <1>0, <1>1
  <2> HIDE DEF gs, ms
  <2> QED
    BY <1>0, <1>1, <1>2, <1>3, <1>4, <2>1, StepOfNode
<1>5. CASE /\ Free(n) # {} /\ due # {}
           /\ links' = Append(ms, k) /\ conns' = [conns EXCEPT ![n] = ds]
  <2>1. i0 \in Idx(n) /\ cs[i0].state = "CLOSED" /\ gs[i0] = cs[i0]
    <3>1. MAX_CONNECTIONS[n] \in Nat
      BY TcpAssumption
    <3>2. i0 \in Free(n)
      BY <1>5, <3>1, MaxIs DEF Clidx, Free, Idx
    <3>3. i0 \in Idx(n) /\ cs[i0].state = "CLOSED"
      BY <3>2 DEF Free
    <3> HIDE DEF i0
    <3>4. i0 \notin closed /\ i0 \notin Connecting(n)
      BY <3>3 DEF Tentative, Connecting
    <3> HIDE DEF closed
    <3> QED
      BY <3>3, <3>4 DEF GoneNow
  <2>2. /\ p \in PingAddrs[n] /\ p \in Nodes /\ p # n
        /\ \A i \in Idx(n) : cs[i].pingprogeny # p
    <3>1. p \in due
      BY <1>5
    <3>2. p \in PingAddrs[n] /\ \A i \in Idx(n) : cs[i].pingprogeny # p
      BY <3>1 DEF PingsDue
    <3> QED
      BY <3>2, TcpAssumption
  <2> HIDE DEF gs, ms, p, i0, closed, due
  <2>3. /\ k \in Link /\ k.from = n /\ k.to = p /\ k.open = {n, p} /\ k.accepted = FALSE
        /\ Silent(k)
    <3>1. n \in Nodes /\ p \in Nodes /\ n # p
      BY <2>2
    <3>2. Made(k, n, p)
      BY <3>1, LinkMade
    <3>3. Silent(k)
      BY DEF NewLink, Silent
    <3> QED
      BY <3>2, <3>3 DEF Made
  <2> HIDE DEF k
  <2>4. /\ ms \in Seq(Link) /\ DOMAIN ms = 1 .. Len(links)
    BY <1>2, LenProperties DEF LinksGo
  <2>5. /\ Append(ms, k) \in Seq(Link) /\ DOMAIN Append(ms, k) = 1 .. Len(links) + 1
        /\ Append(ms, k)[new] = k /\ \A l \in DOMAIN ms : Append(ms, k)[l] = ms[l]
    <3>1. /\ Append(ms, k) \in Seq(Link) /\ Len(Append(ms, k)) = Len(ms) + 1
          /\ \A i \in 1 .. Len(ms) : Append(ms, k)[i] = ms[i]
          /\ Append(ms, k)[Len(ms) + 1] = k
      BY <2>3, <2>4, AppendProperties
    <3> QED
      BY <1>0, <1>2, <2>4, <3>1, LenProperties
  <2>6. LinksGo(n, links, links')
    <3>1. \A l \in 1 .. Len(links) + 1 : l \in 1 .. Len(links) \/ l = new
      BY <1>0
    <3>2. Waits(k)
      BY <2>3 DEF Waits
    <3> QED
      BY <1>0, <1>2, <1>5, <2>4, <2>5, <3>1, <3>2 DEF LinksGo
  <2>7. /\ d \in Conn /\ d.state = "TCPCONNECT" /\ d.sock = new /\ d.pingprogeny = p
        /\ d.serial = cs[i0].serial /\ d.in = <<>> /\ d.out = <<>> /\ ~d.datawaiting
    <3> DEFINE c == gs[i0]
    <3>1. c \in Conn /\ c.in = <<>> /\ c.out = <<>> /\ ~c.datawaiting /\ c.serial = cs[i0].serial
      BY <1>0, <1>2, <2>1 DEF EndOK
    <3>2. new \in Nat
      BY <1>0
    <3> HIDE DEF c, new
    <3>3. d = [c EXCEPT !.state = "TCPCONNECT", !.sock = new, !.pingprogeny = p]
      BY DEF ConnectTo, c
    <3> HIDE DEF d
    <3>4. d \in Conn
      BY <2>2, <3>1, <3>2, <3>3 DEF Conn
    <3>5. /\ d.state = "TCPCONNECT" /\ d.sock = new /\ d.pingprogeny = p /\ d.serial = c.serial
          /\ d.in = c.in /\ d.out = c.out /\ d.datawaiting = c.datawaiting
      <4>1. c \in Conn
        BY <3>1
      <4> QED
        BY <3>3, <4>1 DEF Conn
    <3> QED
      BY <3>1, <3>4, <3>5
  <2>8. /\ ds \in [Idx(n) -> Conn] /\ ds[i0] = d /\ \A j \in Idx(n) : j # i0 => ds[j] = gs[j]
    <3> HIDE DEF d
    <3> QED
      BY <1>2, <2>1, <2>7
  <2> HIDE DEF d, ds
  <2>9. Apart(Idx(n), ds)
    <3>1. ASSUME NEW j \in Idx(n), j # i0, gs[j].state # "CLOSED"
          PROVE gs[j].sock # ds[i0].sock /\ gs[j].pingprogeny # ds[i0].pingprogeny
      <4>1. gs[j].sock \in 1 .. Len(links)
        BY <1>2, <2>4, <3>1 DEF EndOK
      <4>2. gs[j].pingprogeny = cs[j].pingprogeny
        BY <1>2, <3>1 DEF Stays
      <4>3. gs[j].sock # new
        BY <1>0, <4>1
      <4> QED
        BY <2>2, <2>7, <2>8, <4>2, <4>3
    <3> QED
      BY <1>3, <2>1, <2>8, <3>1, ApartWith
  <2>10. ASSUME NEW j \in Idx(n) PROVE EndOK(n, ds[j], links') /\ Moves(cs[j], ds[j])
    <3>1. CASE j = i0
      <4>1. FrameDue(d)
        BY <2>7 DEF FrameDue, decvle14
      <4>2. cs[i0].serial \in Nat
        BY <1>0, <2>1 DEF Conn
      <4>3. new \in 1 .. Len(links) + 1
        BY <1>0
      <4> QED
        BY <1>5, <2>2, <2>3, <2>5, <2>7, <2>8, <3>1, <4>1, <4>2, <4>3 DEF EndOK, Moves
    <3>2. CASE j # i0
      <4>1. ds[j] = gs[j] /\ EndOK(n, gs[j], ms) /\ Moves(cs[j], gs[j])
        BY <1>2, <2>8, <3>2
      <4> DEFINE c == gs[j]
      <4>2. EndOK(n, c, ms) => EndOK(n, c, links')
        <5>1. \A l \in DOMAIN ms : l \in DOMAIN links' /\ links'[l] = ms[l]
          BY <1>0, <1>5, <2>4, <2>5
        <5> HIDE DEF c
        <5> QED
          BY <5>1 DEF EndOK
      <4> QED
        BY <4>1, <4>2
    <3> QED
      BY <3>1, <3>2
  <2>11. \A x \in known'[n] : x[1][1] \in Idx(n) /\ x \in known[n]
    BY <1>0, <1>1
  <2> HIDE DEF cs
  <2>12. \A j \in Idx(n) : EndOK(n, ds[j], links') /\ Moves(conns[n][j], ds[j])
    BY <2>10 DEF cs
  <2> QED
    BY <1>0, <1>1, <1>5, <2>6, <2>8, <2>9, <2>11, <2>12, StepOfNode
<1> QED
  BY <1>1, <1>4, <1>5

-----------------------------------------------------------------------------
(* The invariant holds. *)

LEMMA ConnInit == Init => ConnInv
<1> SUFFICES ASSUME Init PROVE ConnInv
  OBVIOUS
<1>1. ClosedConn(0) \in Conn /\ decvle14(<<>>).n = -1
  BY EmptyStream DEF ClosedConn, Conn, decvle14
<1>2. \A n \in Nodes : conns[n] = [i \in Idx(n) |-> ClosedConn(0)]
  BY DEF Init
<1>3. \A n \in Nodes : conns[n] \in [Idx(n) -> Conn]
  BY <1>1, <1>2
<1>4. conns \in [Nodes -> UNION {[Idx(n) -> Conn] : n \in Nodes}]
  BY <1>3 DEF Init
<1>5. \A n \in Nodes : \A i \in Idx(n) : conns[n][i] = ClosedConn(0) /\ conns[n][i].state = "CLOSED"
  <2> SUFFICES ASSUME NEW n \in Nodes, NEW i \in Idx(n)
               PROVE  conns[n][i] = ClosedConn(0) /\ conns[n][i].state = "CLOSED"
    OBVIOUS
  <2>1. conns[n][i] = ClosedConn(0)
    BY <1>2
  <2> QED
    BY <2>1 DEF ClosedConn
<1>6. \A n \in Nodes : \A i \in Idx(n) : EndOK(n, conns[n][i], links)
  <2> SUFFICES ASSUME NEW n \in Nodes, NEW i \in Idx(n) PROVE EndOK(n, conns[n][i], links)
    OBVIOUS
  <2>1. ClosedConn(0).serial = 0 /\ ClosedConn(0).in = <<>> /\ ClosedConn(0).out = <<>>
        /\ ClosedConn(0).datawaiting = FALSE /\ ClosedConn(0).state = "CLOSED"
    BY DEF ClosedConn
  <2> QED
    BY <1>1, <1>5, <2>1 DEF EndOK, FrameDue
<1>7. links \in Seq(Link) /\ DOMAIN links = {}
  BY EmptySeq DEF Init
<1>8. \A n \in Nodes : Apart(Idx(n), conns[n])
  BY <1>5 DEF Apart
<1>9. known \in [Nodes -> SUBSET ((Nat \X Nat) \X Nat)] /\ \A n \in Nodes : known[n] = {}
  BY DEF Init
<1> QED
  BY <1>3, <1>4, <1>6, <1>7, <1>8, <1>9 DEF ConnInv, Tables

\* What zhe_platform_recv does: a connection is closed or has k bytes to read, or one
\* is accepted.
LEMMA RecvIs ==
  ASSUME ConnInv, NEW n \in Nodes, zhe_platform_recv(n)
  PROVE  \/ Accept(n)
         \/ \E i \in Idx(n) :
               /\ conns[n][i].state \in {"WAITDATA", "LIVE"}
               /\ \/ Close(n, i, FALSE)
                  \/ \E k \in 0 .. Len(links[conns[n][i].sock].wire[n]) :
                        Len(conns[n][i].in) + k <= BufSize /\ handle_data(n, i, k)
<1> DEFINE ready == {i \in Idx(n) : i >= cursor[n] /\ Ready(n, i)}
           i == Min(ready)
<1>1. CASE ready # {}
  <2>1. ready \subseteq Nat
    BY TcpAssumption DEF Idx
  <2>2. i \in ready
    BY <1>1, <2>1, MinIs
  <2> DEFINE c == conns[n][i]
             o == links[c.sock]
             k == ReadCount(c, o, n)
  <2>3. i \in Idx(n) /\ c.state \in {"WAITDATA", "LIVE"}
    BY <2>2 DEF Ready
  <2>4. Close(n, i, FALSE) \/ handle_data(n, i, k)
    BY <1>1 DEF zhe_platform_recv, RecvFrom
  <2> HIDE DEF ready, i
  <2>5. k \in 0 .. Len(o.wire[n]) /\ Len(c.in) + k <= BufSize
    <3>1. c \in Conn /\ o \in Link /\ n \in o.open
      BY <2>3 DEF ConnInv, Tables, EndOK
    <3>2. o.wire[n] \in Stream
      BY <3>1, LinkHas
    <3>3. Len(o.wire[n]) \in Nat /\ Len(c.in) \in Nat /\ TRANSPORT_MTU \in Nat
      BY <3>1, <3>2, LenProperties, TcpAssumption DEF Stream, Conn, InBuf
    <3>4. Len(c.in) <= BufSize /\ BufSize \in Nat
      BY <3>1, SizesAre DEF Conn, InBuf
    <3>5. BufSize - Len(c.in) \in Nat
      BY <3>3, <3>4
    <3>6. k \in Nat /\ k <= Len(o.wire[n]) /\ k <= BufSize - Len(c.in)
      BY <3>3, <3>5, MinOfTwo DEF ReadCount
    <3> HIDE DEF k, c, o
    <3> QED
      BY <3>3, <3>4, <3>6
  <2> QED
    BY <2>3, <2>4, <2>5
<1>2. CASE ready = {}
  BY <1>2 DEF zhe_platform_recv
<1> QED
  BY <1>1, <1>2

LEMMA ConnNext == ConnInv /\ [Next]_vars => ConnInv'
<1> SUFFICES ASSUME ConnInv, [Next]_vars PROVE ConnInv'
  OBVIOUS
<1>1. ASSUME NEW n \in Nodes, zhe_platform_recv(n) PROVE ConnInv'
  BY <1>1, RecvIs, AcceptStep, CloseStep, DataStep
<1>2. ASSUME NEW n \in Nodes, NEW over \in SUBSET pingthrottle[n], NEW failed \in SUBSET Tentative(n),
             Housekeeping(n, over, failed)
      PROVE  ConnInv'
  BY <1>2, HousekeepingStep
<1>3. ASSUME NEW n \in Nodes, NEW k \in known[n], SendTo(n, k[1]) PROVE ConnInv'
  <2>1. k[1][1] \in Idx(n) /\ {k[1][1]} \subseteq Live(n) /\ DATA \in Packets
    BY <1>3 DEF SendTo, Names, Live, ConnInv, Tables, Packets
  <2>2. SendOver(n, {k[1][1]}, DATA)
    BY <1>3 DEF SendTo
  <2> QED
    BY <2>1, <2>2, SendStep
<1>4. ASSUME NEW n \in Nodes, SendToAll(n) PROVE ConnInv'
  BY <1>4, SendStep DEF SendToAll, Packets
<1>5. ASSUME NEW n \in Nodes, NEW k \in known[n], zhe_platform_close_session(n, k[1]) PROVE ConnInv'
  <2>1. k[1][1] \in Idx(n)
    BY DEF ConnInv, Tables
  <2>2. conns[n][k[1][1]].state = "LIVE" /\ Close(n, k[1][1], FALSE)
    BY <1>5 DEF zhe_platform_close_session, Names
  <2> QED
    BY <2>1, <2>2, CloseStep
<1>6. CASE UNCHANGED vars
  <2>1. conns' = conns /\ links' = links /\ known' = known
    BY <1>6 DEF vars
  <2> QED
    BY <2>1 DEF ConnInv, Tables, KnownOK, Idx
<1> QED
  BY <1>1, <1>2, <1>3, <1>4, <1>5, <1>6 DEF Next

LEMMA ConnProperties ==
  ConnInv => AddressNamesConnection /\ OneConnectionPerPing /\ FrameIsWaitedFor
<1> SUFFICES ASSUME ConnInv
             PROVE  AddressNamesConnection /\ OneConnectionPerPing /\ FrameIsWaitedFor
  OBVIOUS
<1>1. AddressNamesConnection
  BY DEF ConnInv, KnownOK, AddressNamesConnection
<1>2. OneConnectionPerPing
  BY DEF ConnInv, Apart, OneConnectionPerPing
<1>3. FrameIsWaitedFor
  <2> SUFFICES ASSUME NEW n \in Nodes, NEW i \in Idx(n),
                      decvle14(conns[n][i].in).n > 0,
                      Len(conns[n][i].in) >= decvle14(conns[n][i].in).n + decvle14(conns[n][i].in).val
               PROVE  ~shouldwait(n)
    BY DEF FrameIsWaitedFor
  <2>1. EndOK(n, conns[n][i], links) /\ conns[n][i] \in Conn
    BY DEF ConnInv, Tables
  <2>2. conns[n][i].datawaiting
    BY <2>1 DEF EndOK, FrameDue
  <2>3. conns[n][i].state = "LIVE"
    BY <2>1, <2>2 DEF EndOK
  <2> QED
    BY <2>2, <2>3 DEF shouldwait
<1> QED
  BY <1>1, <1>2, <1>3

\* The first SCOUT, which is written as a whole.
LEMMA GoodScout ==
  ASSUME NEW c \in Conn, c.out = <<>>, NEW k \in Link, Silent(k)
  PROVE  Good(k, SendScout(k, k.from), k.from, c, make_waitdata(c))
<1> DEFINE n == k.from
           m == Other(k, n)
           e == SendScout(k, n)
           d == make_waitdata(c)
           f == Frame(SCOUT)
           q == <<SCOUT>>
           x == Len(f)
<1>1. WrittenAs(e, k, n, f, x, q)
  BY ScoutIs
<1>2. d.state = "WAITDATA" /\ d.in = c.in /\ d.out = <<>>
  BY DEF make_waitdata, Conn
<1>3. SCOUT \in Packets /\ f \in Bytes /\ x \in Nat /\ k.sent[n] = <<>> /\ q = Append(<<>>, SCOUT)
  BY PacketIs DEF Packets, Silent
<1>4. k.wire[m] \in Bytes /\ k.got[m] \in Seq(Bytes) /\ k.sent[n] \in Seq(Packets)
  BY OtherIs, EndsAre
<1>5. <<>> \o f = f /\ <<>> \in Bytes
  <2>1. f \in Seq(Nat)
    BY <1>3 DEF Bytes
  <2> HIDE DEF f
  <2> QED
    BY <2>1, ConcatEmptySeq, EmptyStream
<1>6. Rest(f, x) = <<>> /\ x \in 0 .. x
  <2>1. f \in Seq(Nat) /\ x \in 0 .. Len(f) /\ x - x = 0
    BY <1>3 DEF Bytes
  <2>2. Rest(f, x) \in Seq(Nat) /\ Len(Rest(f, x)) = 0
    BY <2>1, RestIs
  <2> QED
    BY <1>3, <2>2, EmptySeq
<1> HIDE DEF m, e, d, f, x, q
<1>7. ASSUME NEW buf \in Bytes, Flow(buf, k.wire[m], c.out, k.sent[n], k.got[m])
      PROVE  Flow(buf, k.wire[m] \o SubSeq(f, 1, x), d.out, q, k.got[m])
  <2> DEFINE wire == k.wire[m]
             got == k.got[m]
  <2>1. Flow(buf, wire, <<>>, <<>>, got)
    BY <1>3, <1>7
  <2>2. <<>> \in Seq(Packets) /\ wire \in Bytes /\ got \in Seq(Bytes)
    BY <1>4, EmptySeq
  <2> HIDE DEF wire, got
  <2>3. x \in 0 .. Len(<<>> \o Frame(SCOUT))
    BY <1>5, <1>6 DEF f, x
  <2>4. Flow(buf, wire \o SubSeq(<<>> \o Frame(SCOUT), 1, x), Rest(<<>> \o Frame(SCOUT), x), Append(<<>>, SCOUT), got)
    BY <1>3, <1>5, <2>1, <2>2, <2>3, FlowSend
  <2>5. Flow(buf, wire \o SubSeq(f, 1, x), Rest(f, x), q, got)
    BY <1>3, <1>5, <2>4 DEF f
  <2> QED
    BY <1>2, <1>6, <2>5 DEF wire, got
<1>8. FirstOf(k.got[m], k.sent[n]) => FirstOf(k.got[m], q)
  <2> SUFFICES ASSUME FirstOf(k.got[m], <<>>) PROVE FirstOf(k.got[m], q)
    BY <1>3
  <2>1. Len(k.got[m]) = 0
    BY <1>4, LenProperties DEF FirstOf
  <2> QED
    BY <1>3, <2>1 DEF FirstOf, q
<1>9. Good(k, e, n, c, d)
  BY <1>1, <1>2, <1>7, <1>8, GoodWritten DEF m
<1> QED
  BY <1>9 DEF e, d

-----------------------------------------------------------------------------
(* The frames of all links. *)

\* What the connection over link l has in its buffers, of the connections cs.
InOf(ids, cs, l) ==
  LET at == {i \in ids : cs[i].sock = l}
  IN  IF at = {} THEN <<>> ELSE cs[CHOOSE i \in at : TRUE].in
OutOf(ids, cs, l) ==
  LET at == {i \in ids : cs[i].sock = l}
  IN  IF at = {} THEN <<>> ELSE cs[CHOOSE i \in at : TRUE].out

\* connection i is in use, over link l
Over(cs, i, l) == cs[i].state # "CLOSED" /\ cs[i].sock = l

BuffersOf(ids, cs, l) ==
  /\ \A i \in ids : Over(cs, i, l) => InOf(ids, cs, l) = cs[i].in /\ OutOf(ids, cs, l) = cs[i].out
  /\ InOf(ids, cs, l) \in Bytes /\ OutOf(ids, cs, l) \in Bytes
  /\ (\A i \in ids : cs[i].sock = l => cs[i].in = <<>> /\ cs[i].out = <<>>)
     => InOf(ids, cs, l) = <<>> /\ OutOf(ids, cs, l) = <<>>
  /\ \A i \in ids : cs[i].sock = l => Over(cs, i, l)

LEMMA BufferIs ==
  ASSUME NEW n, NEW ids, NEW cs \in [ids -> Conn], NEW ls \in Seq(Link), Apart(ids, cs),
         \A i \in ids : EndOK(n, cs[i], ls), NEW l \in DOMAIN ls
  PROVE  BuffersOf(ids, cs, l)
<1> DEFINE at == {i \in ids : cs[i].sock = l}
           j == CHOOSE i \in at : TRUE
           In == InOf(ids, cs, l)
           Out == OutOf(ids, cs, l)
<1>1. DOMAIN ls = 1 .. Len(ls)
  BY LenProperties
<1>2. In = (IF at = {} THEN <<>> ELSE cs[j].in) /\ Out = (IF at = {} THEN <<>> ELSE cs[j].out)
  BY DEF InOf, OutOf
<1>3. at # {} => j \in at
  OBVIOUS
<1>4. \A i \in at : cs[i].state # "CLOSED"
  <2> SUFFICES ASSUME NEW i \in at, cs[i].state = "CLOSED" PROVE FALSE
    OBVIOUS
  <2>1. cs[i] = ClosedConn(cs[i].serial)
    BY DEF EndOK
  <2>2. cs[i].sock = 0
    BY <2>1 DEF ClosedConn
  <2>3. l # 0
    BY <1>1
  <2> QED
    BY <2>2, <2>3
<1> HIDE DEF j, In, Out
<1>5. \A i \in at : i = j
  BY <1>3, <1>4 DEF Apart
<1>6. \A i \in ids : cs[i].sock = l => In = cs[i].in /\ Out = cs[i].out
  BY <1>2, <1>5
<1>7. In \in Bytes /\ Out \in Bytes
  <2>1. CASE at = {}
    BY <1>2, <2>1, EmptyStream
  <2>2. CASE at # {}
    <3>1. j \in ids /\ cs[j] \in Conn
      BY <1>3, <2>2
    <3> QED
      BY <1>2, <2>2, <3>1, BuffersAre
  <2> QED
    BY <2>1, <2>2
<1>8. (\A i \in ids : cs[i].sock = l => cs[i].in = <<>> /\ cs[i].out = <<>>) => In = <<>> /\ Out = <<>>
  BY <1>2, <1>3
<1> QED
  BY <1>4, <1>6, <1>7, <1>8 DEF BuffersOf, Over, In, Out

\* In both directions of every link there are the frames that Dir says.
FlowInv ==
  \A l \in DOMAIN links : \A s \in {links[l].from, links[l].to} :
     LET m == Other(links[l], s)
     IN  Dir(links[l], s, InOf(Idx(m), conns[m], l), OutOf(Idx(s), conns[s], l))

\* a link over which nothing was sent
Fresh(k) ==
  /\ k.wire = [n \in {k.from, k.to} |-> <<>>]
  /\ k.sent = [n \in {k.from, k.to} |-> <<>>] /\ k.got = [n \in {k.from, k.to} |-> <<>>]

LEMMA FreshDir ==
  ASSUME NEW k \in Link, Fresh(k), NEW s \in {k.from, k.to}
  PROVE  Dir(k, s, <<>>, <<>>)
<1> DEFINE e == <<>>
<1>1. e \in Seq(Packets) /\ e \in Bytes /\ Len(e) = 0 /\ e \in Seq(Nat)
  BY EmptySeq, EmptyStream DEF Bytes
<1>2. Pending(e, e) = e
  BY <1>1, PendingNone
<1>3. (e \o e) \o e = e
  BY <1>1, ConcatEmptySeq
<1>4. FirstOf(e, e)
  BY <1>1 DEF FirstOf
<1> HIDE DEF e
<1>5. Flow(e, e, e, e, e)
  BY <1>2, <1>3, <1>4 DEF Flow
<1>6. k.wire[Other(k, s)] = e /\ k.sent[s] = e /\ k.got[Other(k, s)] = e
  BY OtherIs DEF Fresh, e
<1>7. Dir(k, s, e, e)
  BY <1>4, <1>5, <1>6 DEF Dir
<1> QED
  BY <1>7 DEF e

\* A step of one node keeps the frames of all links if it keeps those of its own.
LEMMA FlowStep ==
  ASSUME ConnInv, ConnInv', FlowInv, NEW n \in Nodes,
         \A m \in Nodes \ {n} : conns'[m] = conns[m],
         DOMAIN links \subseteq DOMAIN links',
         \A l \in DOMAIN links : (\A i \in Idx(n) : ~ Over(conns[n], i, l)) => SameFlow(links[l], links'[l]),
         \A i \in Idx(n) : conns[n][i].state # "CLOSED" =>
            /\ Stays(conns[n][i], conns'[n][i])
            /\ Good(links[conns[n][i].sock], links'[conns[n][i].sock], n, conns[n][i], conns'[n][i]),
         \A i \in Idx(n) : conns[n][i].state = "CLOSED" => conns'[n][i].in = <<>> /\ conns'[n][i].out = <<>>,
         \A l \in DOMAIN links' \ DOMAIN links : Fresh(links'[l])
  PROVE  FlowInv'
<1> DEFINE In == [m \in Nodes |-> [l \in DOMAIN links' |-> InOf(Idx(m), conns[m], l)]]
           Out == [m \in Nodes |-> [l \in DOMAIN links' |-> OutOf(Idx(m), conns[m], l)]]
           In2 == [m \in Nodes |-> [l \in DOMAIN links' |-> InOf(Idx(m), conns'[m], l)]]
           Out2 == [m \in Nodes |-> [l \in DOMAIN links' |-> OutOf(Idx(m), conns'[m], l)]]
<1>1. ConnInv /\ ConnInv' /\ FlowInv
  OBVIOUS
<1>2. /\ \A m \in Nodes : conns[m] \in [Idx(m) -> Conn] /\ Apart(Idx(m), conns[m])
      /\ \A m \in Nodes : \A i \in Idx(m) : EndOK(m, conns[m][i], links)
      /\ links \in Seq(Link) /\ \A l \in DOMAIN links : links[l] \in Link
  <2>1. Tables /\ \A m \in Nodes : Apart(Idx(m), conns[m])
    BY <1>1 DEF ConnInv
  <2>2. \A m \in Nodes : \A i \in Idx(m) : EndOK(m, conns[m][i], links)
    BY <1>1 DEF ConnInv
  <2>3. links \in Seq(Link) /\ \A m \in Nodes : conns[m] \in [Idx(m) -> Conn]
    BY <2>1 DEF Tables
  <2> QED
    BY <2>1, <2>2, <2>3, ElementOfSeq, LenProperties
<1>3. /\ \A m \in Nodes : conns'[m] \in [Idx(m) -> Conn] /\ Apart(Idx(m), conns'[m])
      /\ \A m \in Nodes : \A i \in Idx(m) : EndOK(m, conns'[m][i], links')
      /\ links' \in Seq(Link) /\ \A l \in DOMAIN links' : links'[l] \in Link
  <2>1. Tables' /\ \A m \in Nodes : Apart(Idx(m), conns'[m])
    BY <1>1 DEF ConnInv, Idx
  <2>2. \A m \in Nodes : \A i \in Idx(m) : EndOK(m, conns'[m][i], links')
    BY <1>1 DEF ConnInv, Idx
  <2>3. links' \in Seq(Link) /\ \A m \in Nodes : conns'[m] \in [Idx(m) -> Conn]
    BY <2>1 DEF Tables, Idx
  <2> QED
    BY <2>1, <2>2, <2>3, ElementOfSeq, LenProperties
<1>4. \A m \in Nodes, l \in DOMAIN links : BuffersOf(Idx(m), conns[m], l)
  BY <1>2, BufferIs
<1>5. \A m \in Nodes, l \in DOMAIN links' : BuffersOf(Idx(m), conns'[m], l)
  BY <1>3, BufferIs
<1>6. \A l \in DOMAIN links : \A s \in {links[l].from, links[l].to} :
         Dir(links[l], s, In[Other(links[l], s)][l], Out[s][l])
  <2> SUFFICES ASSUME NEW l \in DOMAIN links, NEW s \in {links[l].from, links[l].to}
               PROVE  Dir(links[l], s, In[Other(links[l], s)][l], Out[s][l])
    OBVIOUS
  <2>1. Other(links[l], s) \in Nodes /\ s \in Nodes /\ l \in DOMAIN links'
    BY <1>2, OtherIs, LinkHas
  <2> QED
    BY <1>1, <2>1 DEF FlowInv
<1> SUFFICES ASSUME NEW l \in DOMAIN links', NEW s \in {links'[l].from, links'[l].to}
             PROVE  Dir(links'[l], s, In2[Other(links'[l], s)][l], Out2[s][l])
  <2>1. \A l \in DOMAIN links' : \A s \in {links'[l].from, links'[l].to} :
          Other(links'[l], s) \in Nodes /\ s \in Nodes
    BY <1>3, OtherIs, LinkHas
  <2>2. \A l \in DOMAIN links' : \A s \in {links'[l].from, links'[l].to} :
          LET m == Other(links'[l], s)
          IN  Dir(links'[l], s, InOf(Idx(m), conns'[m], l), OutOf(Idx(s), conns'[s], l))
    BY <2>1
  <2> QED
    BY <2>2 DEF FlowInv, Idx
<1>7. \A m \in Nodes :
        /\ \A i \in Idx(m) : Over(conns'[m], i, l) => In2[m][l] = conns'[m][i].in /\ Out2[m][l] = conns'[m][i].out
        /\ In2[m][l] \in Bytes /\ Out2[m][l] \in Bytes
        /\ (\A i \in Idx(m) : conns'[m][i].sock = l => conns'[m][i].in = <<>> /\ conns'[m][i].out = <<>>)
           => In2[m][l] = <<>> /\ Out2[m][l] = <<>>
        /\ \A i \in Idx(m) : conns'[m][i].sock = l => Over(conns'[m], i, l)
  BY <1>5 DEF BuffersOf
<1>8. l \in DOMAIN links =>
       \A m \in Nodes :
        /\ \A i \in Idx(m) : Over(conns[m], i, l) => In[m][l] = conns[m][i].in /\ Out[m][l] = conns[m][i].out
        /\ In[m][l] \in Bytes /\ Out[m][l] \in Bytes
        /\ (\A i \in Idx(m) : conns[m][i].sock = l => conns[m][i].in = <<>> /\ conns[m][i].out = <<>>)
           => In[m][l] = <<>> /\ Out[m][l] = <<>>
        /\ \A i \in Idx(m) : conns[m][i].sock = l => Over(conns[m], i, l)
  BY <1>4 DEF BuffersOf
<1>9. \A m \in Nodes : m # n => In2[m][l] = In[m][l] /\ Out2[m][l] = Out[m][l]
  OBVIOUS
<1> HIDE DEF In, Out, In2, Out2
<1>10. CASE l \notin DOMAIN links
  <2>1. Fresh(links'[l]) /\ links'[l] \in Link
    BY <1>2, <1>3, <1>10
  <2>2. ASSUME NEW m \in Nodes PROVE In2[m][l] = <<>> /\ Out2[m][l] = <<>>
    <3>1. ASSUME NEW i \in Idx(m), conns'[m][i].sock = l
          PROVE  conns'[m][i].in = <<>> /\ conns'[m][i].out = <<>>
      <4>1. Over(conns'[m], i, l) /\ conns'[m][i].state # "CLOSED"
        BY <1>7, <3>1 DEF Over
      <4>2. CASE m # n
        BY <1>2, <1>3, <1>10, <3>1, <4>1, <4>2 DEF EndOK
      <4>3. CASE m = n /\ conns[n][i].state = "CLOSED"
        BY <4>3
      <4>4. CASE m = n /\ conns[n][i].state # "CLOSED"
        <5>1. conns'[n][i].sock = conns[n][i].sock /\ conns[n][i].sock \in DOMAIN links
          BY <1>2, <1>3, <4>1, <4>4 DEF Stays, EndOK
        <5> QED
          BY <1>10, <3>1, <4>4, <5>1
      <4> QED
        BY <4>2, <4>3, <4>4
    <3> QED
      BY <1>7, <3>1
  <2>3. Other(links'[l], s) \in Nodes /\ s \in Nodes
    BY <2>1, OtherIs, LinkHas
  <2> QED
    BY <2>1, <2>2, <2>3, FreshDir
<1>11. CASE l \in DOMAIN links
  <2> DEFINE k == links[l]
             e == links'[l]
  <2>1. k \in Link /\ e \in Link
    BY <1>2, <1>3, <1>11
  <2>2. CASE \A i \in Idx(n) : ~ Over(conns[n], i, l)
    <3>1. SameFlow(k, e)
      BY <1>11, <2>2
    <3>2. s \in {k.from, k.to} /\ Other(e, s) = Other(k, s) /\ Other(k, s) \in Nodes /\ s \in Nodes
      BY <2>1, <3>1, OtherIs, LinkHas DEF SameFlow, Other
    <3>3. \A m \in Nodes : In2[m][l] = In[m][l] /\ Out2[m][l] = Out[m][l]
      <4>1. In[n][l] = <<>> /\ Out[n][l] = <<>>
        BY <1>8, <1>11, <2>2
      <4>2. ASSUME NEW i \in Idx(n), conns'[n][i].sock = l
            PROVE  conns'[n][i].in = <<>> /\ conns'[n][i].out = <<>>
        <5>1. conns'[n][i].state # "CLOSED"
          BY <1>7, <4>2 DEF Over
        <5>2. conns[n][i].state # "CLOSED" => Over(conns[n], i, l)
          BY <4>2, <5>1 DEF Stays, Over
        <5> QED
          BY <2>2, <5>2
      <4>3. In2[n][l] = <<>> /\ Out2[n][l] = <<>>
        BY <1>7, <4>2
      <4> QED
        BY <1>9, <4>1, <4>3
    <3>4. Dir(k, s, In[Other(k, s)][l], Out[s][l])
      BY <1>11, <1>6, <3>2
    <3> HIDE DEF k, e
    <3>5. Dir(e, s, In2[Other(e, s)][l], Out2[s][l])
      BY <3>1, <3>2, <3>3, <3>4, DirSame
    <3> QED
      BY <3>5 DEF e
  <2>3. ASSUME NEW i \in Idx(n), Over(conns[n], i, l) PROVE Dir(e, s, In2[Other(e, s)][l], Out2[s][l])
    <3> DEFINE c == conns[n][i]
               d == conns'[n][i]
               m == Other(k, n)
    <3>1. Good(k, e, n, c, d) /\ Stays(c, d) /\ n \in k.open
      BY <1>2, <1>3, <2>3 DEF Over, EndOK
    <3>2. n \in {k.from, k.to} /\ e.from = k.from /\ e.to = k.to
      BY <2>1, <3>1, LinkHas DEF Good
    <3>3. m \in {k.from, k.to} /\ m # n /\ Other(k, m) = n /\ m \in Nodes
          /\ Other(e, n) = m /\ Other(e, m) = n /\ (s = n \/ s = m)
      <4>1. m \in {k.from, k.to} /\ m # n /\ Other(k, m) = n
        BY <2>1, <3>2, OtherIs
      <4>2. m \in Nodes /\ (s = n \/ s = m)
        BY <2>1, <3>2, <4>1, LinkHas
      <4>3. Other(e, n) = m /\ Other(e, m) = n
        BY <3>2, <4>1 DEF Other
      <4> QED
        BY <4>1, <4>2, <4>3
    <3>4. In[n][l] = c.in /\ Out[n][l] = c.out /\ In[m][l] \in Bytes /\ Out[m][l] \in Bytes
      BY <1>8, <1>11, <2>3, <3>3
    <3>5. Dir(k, n, In[m][l], c.out) /\ Dir(k, m, c.in, Out[m][l])
      <4>1. Dir(k, n, In[Other(k, n)][l], Out[n][l]) /\ Dir(k, m, In[Other(k, m)][l], Out[m][l])
        BY <1>11, <1>6, <3>2, <3>3
      <4> HIDE DEF k, c, m
      <4> QED
        BY <3>3, <3>4, <4>1 DEF m
    <3>6. Dir(e, n, In[m][l], d.out) /\ Dir(e, m, d.in, Out[m][l])
      <4> HIDE DEF k, e, c, d
      <4> QED
        BY <3>1, <3>4, <3>5 DEF Good
    <3>7. In2[m][l] = In[m][l] /\ Out2[m][l] = Out[m][l]
      BY <1>9, <3>3
    <3>8. CASE d.state # "CLOSED"
      <4>1. Over(conns'[n], i, l)
        BY <2>3, <3>1, <3>8 DEF Over, Stays
      <4>2. In2[n][l] = d.in /\ Out2[n][l] = d.out
        BY <1>7, <4>1
      <4> HIDE DEF k, e, c, d, m
      <4> QED
        BY <3>3, <3>6, <3>7, <4>2
    <3>9. CASE d.state = "CLOSED"
      <4>1. n \notin e.open
        BY <3>1, <3>9 DEF Good
      <4> HIDE DEF k, e, c, d, m
      <4>2. Dir(e, m, d.in, Out[m][l]) => Dir(e, m, In2[n][l], Out[m][l])
        BY <3>3, <4>1 DEF Dir
      <4>3. Dir(e, n, In2[m][l], Out2[n][l])
        BY <4>1 DEF Dir
      <4> QED
        BY <3>3, <3>6, <3>7, <4>2, <4>3
    <3> QED
      BY <3>8, <3>9
  <2> QED
    BY <2>2, <2>3
<1> QED
  BY <1>10, <1>11

LEMMA ConnsAre ==
  ASSUME ConnInv, NEW n \in Nodes
  PROVE  /\ conns[n] \in [Idx(n) -> Conn] /\ Apart(Idx(n), conns[n])
         /\ \A i \in Idx(n) : EndOK(n, conns[n][i], links)
         /\ links \in Seq(Link) /\ \A l \in DOMAIN links : links[l] \in Link
         /\ conns \in [Nodes -> UNION {[Idx(m) -> Conn] : m \in Nodes}]
<1>1. Tables
  BY DEF ConnInv
<1>2. \A i \in Idx(n) : EndOK(n, conns[n][i], links)
  BY DEF ConnInv
<1>3. Apart(Idx(n), conns[n])
  BY DEF ConnInv
<1>4. links \in Seq(Link) /\ \A l \in DOMAIN links : links[l] \in Link
  BY <1>1, ElementOfSeq, LenProperties DEF Tables
<1> QED
  BY <1>1, <1>2, <1>3, <1>4 DEF Tables

LEMMA EndIs ==
  ASSUME ConnInv, NEW n \in Nodes, NEW i \in Idx(n), conns[n][i].state # "CLOSED"
  PROVE  /\ conns[n][i] \in Conn /\ conns[n][i].sock \in DOMAIN links
         /\ links[conns[n][i].sock] \in Link /\ n \in links[conns[n][i].sock].open
         /\ n \in {links[conns[n][i].sock].from, links[conns[n][i].sock].to}
<1> DEFINE c == conns[n][i]
           o == links[c.sock]
<1>1. c \in Conn /\ EndOK(n, c, links)
  BY ConnsAre
<1>2. c.sock \in DOMAIN links /\ n \in o.open
  BY <1>1 DEF EndOK
<1>3. o \in Link
  BY <1>2, ConnsAre
<1>4. o.open \subseteq {o.from, o.to}
  BY <1>3, LinkHas
<1> QED
  BY <1>1, <1>2, <1>3, <1>4

\* A step of one connection in use and its link.
LEMMA FlowOne ==
  ASSUME ConnInv, ConnInv', FlowInv, NEW n \in Nodes, NEW i \in Idx(n), NEW d, NEW k,
         conns[n][i].state # "CLOSED", OneStep(n, i, d, k), Stays(conns[n][i], d),
         Good(links[conns[n][i].sock], k, n, conns[n][i], d)
  PROVE  FlowInv'
<1> DEFINE cs == conns[n]
           l == cs[i].sock
<1>1. /\ cs \in [Idx(n) -> Conn] /\ Apart(Idx(n), cs) /\ \A j \in Idx(n) : EndOK(n, cs[j], links)
  BY DEF ConnInv, Tables
<1>2. /\ \A m \in Nodes \ {n} : conns'[m] = conns[m]
      /\ conns'[n] = [cs EXCEPT ![i] = d]
      /\ links' = [links EXCEPT ![l] = k]
  BY DEF OneStep, ConnInv, Tables
<1>3. l \in DOMAIN links /\ DOMAIN links' = DOMAIN links /\ links'[l] = k
      /\ \A q \in DOMAIN links : q # l => links'[q] = links[q]
  BY <1>1, <1>2 DEF EndOK
<1>4. conns'[n][i] = d /\ \A j \in Idx(n) : j # i => conns'[n][j] = cs[j]
  BY <1>1, <1>2
<1> HIDE DEF cs, l
<1>5. ASSUME NEW q \in DOMAIN links, \A j \in Idx(n) : ~ Over(conns[n], j, q)
      PROVE  SameFlow(links[q], links'[q])
  <2>1. q # l
    BY <1>5 DEF Over, l, cs
  <2> QED
    BY <1>3, <2>1 DEF SameFlow
<1>6. ASSUME NEW j \in Idx(n), conns[n][j].state # "CLOSED"
      PROVE  /\ Stays(conns[n][j], conns'[n][j])
             /\ Good(links[conns[n][j].sock], links'[conns[n][j].sock], n, conns[n][j], conns'[n][j])
  <2>1. CASE j = i
    BY <1>3, <1>4, <2>1 DEF l, cs
  <2>2. CASE j # i
    <3>1. cs[j].sock # l /\ cs[j].sock \in DOMAIN links
      BY <1>1, <1>6, <2>2 DEF Apart, EndOK, l, cs
    <3>2. conns'[n][j] = conns[n][j] /\ links'[conns[n][j].sock] = links[conns[n][j].sock]
      BY <1>3, <1>4, <2>2, <3>1 DEF cs
    <3>3. Stays(conns[n][j], conns[n][j])
      BY <1>6 DEF Stays
    <3> QED
      BY <1>6, <3>2, <3>3, GoodSame
  <2> QED
    BY <2>1, <2>2
<1>7. ASSUME NEW j \in Idx(n), conns[n][j].state = "CLOSED"
      PROVE  conns'[n][j].in = <<>> /\ conns'[n][j].out = <<>>
  <2>1. j # i
    BY <1>7
  <2> QED
    BY <1>1, <1>4, <1>7, <2>1 DEF EndOK, cs
<1>8. DOMAIN links \subseteq DOMAIN links' /\ \A q \in DOMAIN links' \ DOMAIN links : Fresh(links'[q])
  BY <1>3
<1> QED
  BY <1>2, <1>5, <1>6, <1>7, <1>8, FlowStep

LEMMA CloseFlow ==
  ASSUME ConnInv, ConnInv', FlowInv, NEW n \in Nodes, NEW i \in Idx(n), NEW throttle \in BOOLEAN,
         conns[n][i].state \in {"WAITDATA", "LIVE"}, Close(n, i, throttle)
  PROVE  FlowInv'
<1> DEFINE c == conns[n][i]
           o == links[c.sock]
<1>1. c \in Conn /\ o \in Link /\ n \in {o.from, o.to}
  BY EndIs
<1>2. OneStep(n, i, make_closed(c), ClosedAt(o, n))
  BY DEF Close, OneStep
<1>3. Stays(c, make_closed(c)) /\ Good(o, ClosedAt(o, n), n, c, make_closed(c))
  BY <1>1, ClosedIs, GoodClosed
<1> QED
  BY <1>2, <1>3, FlowOne

LEMMA SendFlow ==
  ASSUME ConnInv, ConnInv', FlowInv, NEW n \in Nodes, NEW dsts, dsts \subseteq Live(n),
         NEW pkt \in Packets, SendOver(n, dsts, pkt)
  PROVE  FlowInv'
<1> DEFINE cs == conns[n]
           D(i) == SentConn(cs[i], links[cs[i].sock], n, pkt)
           E(i) == SentLink(cs[i], links[cs[i].sock], n, pkt)
<1>0. /\ cs \in [Idx(n) -> Conn] /\ links \in Seq(Link) /\ Apart(Idx(n), cs)
      /\ \A i \in Idx(n) : EndOK(n, cs[i], links)
      /\ \A l \in DOMAIN links : links[l] \in Link
  BY ConnsAre
<1>1. \A i \in dsts : i \in Idx(n) /\ cs[i].state = "LIVE"
  BY DEF Live
<1>2. /\ \A m \in Nodes \ {n} : conns'[m] = conns[m]
      /\ conns'[n] = [i \in Idx(n) |-> IF i \in dsts THEN D(i) ELSE cs[i]]
      /\ links' = [l \in DOMAIN links |->
                    IF \E i \in dsts : cs[i].sock = l
                    THEN SentLink(cs[CHOOSE i \in dsts : cs[i].sock = l], links[l], n, pkt)
                    ELSE links[l]]
  BY DEF SendOver, ConnInv, Tables
<1>3. ASSUME NEW i \in Idx(n), cs[i].state # "CLOSED", NEW j \in Idx(n), cs[j].state # "CLOSED",
             cs[i].sock = cs[j].sock
      PROVE  i = j
  BY <1>0, <1>3 DEF Apart
<1>4. ASSUME NEW i \in dsts
      PROVE  links'[cs[i].sock] = E(i) /\ conns'[n][i] = D(i) /\ Stays(cs[i], D(i))
             /\ Good(links[cs[i].sock], E(i), n, cs[i], D(i))
  <2>1. cs[i].sock \in DOMAIN links /\ n \in links[cs[i].sock].open /\ cs[i] \in Conn
    BY <1>0, <1>1 DEF EndOK
  <2>2. (CHOOSE j \in dsts : cs[j].sock = cs[i].sock) = i
    BY <1>1, <1>3
  <2>3. links[cs[i].sock] \in Link
        /\ n \in {links[cs[i].sock].from, links[cs[i].sock].to}
    BY <1>0, <2>1, LinkHas
  <2>4. links'[cs[i].sock] = E(i) /\ conns'[n][i] = D(i)
    BY <1>1, <1>2, <2>1, <2>2
  <2>5. SentAs(D(i), E(i), cs[i], links[cs[i].sock], n) /\ DataOK(cs[i])
    BY <1>0, <1>1, <2>1, <2>3, SentIs DEF EndOK, DataOK
  <2>6. Good(links[cs[i].sock], E(i), n, cs[i], D(i))
    BY <1>1, <2>1, <2>3, GoodSent
  <2> HIDE DEF D, E
  <2>7. Stays(cs[i], D(i))
    BY <1>1, <2>1, <2>5, SentGood
  <2> QED
    BY <2>4, <2>6, <2>7
<1> HIDE DEF D, E
<1>5. ASSUME NEW q \in DOMAIN links, \A j \in Idx(n) : ~ Over(conns[n], j, q)
      PROVE  SameFlow(links[q], links'[q])
  <2>1. links'[q] = links[q]
    BY <1>1, <1>2, <1>5 DEF Over
  <2> QED
    BY <2>1 DEF SameFlow
<1>6. ASSUME NEW j \in Idx(n), conns[n][j].state # "CLOSED"
      PROVE  /\ Stays(conns[n][j], conns'[n][j])
             /\ Good(links[conns[n][j].sock], links'[conns[n][j].sock], n, conns[n][j], conns'[n][j])
  <2>1. CASE j \in dsts
    BY <1>4, <2>1
  <2>2. CASE j \notin dsts
    <3>1. conns'[n][j] = conns[n][j]
      BY <1>2, <2>2
    <3>2. links'[conns[n][j].sock] = links[conns[n][j].sock]
      <4>1. cs[j].sock \in DOMAIN links
        BY <1>0, <1>6 DEF EndOK
      <4>2. ~ \E i \in dsts : cs[i].sock = cs[j].sock
        BY <1>1, <1>3, <1>6, <2>2
      <4> QED
        BY <1>2, <4>1, <4>2
    <3>3. Stays(conns[n][j], conns[n][j])
      BY <1>6 DEF Stays
    <3> QED
      BY <1>6, <3>1, <3>2, <3>3, GoodSame
  <2> QED
    BY <2>1, <2>2
<1>7. ASSUME NEW j \in Idx(n), conns[n][j].state = "CLOSED"
      PROVE  conns'[n][j].in = <<>> /\ conns'[n][j].out = <<>>
  <2>1. j \notin dsts
    BY <1>1, <1>7
  <2> QED
    BY <1>0, <1>2, <1>7, <2>1 DEF EndOK
<1>8. DOMAIN links' = DOMAIN links
  BY <1>2
<1> HIDE DEF cs
<1> QED
  BY <1>2, <1>5, <1>6, <1>7, <1>8, FlowStep

\* A connection that stays as it is, over a link that changes elsewhere.
LEMMA GoodLike ==
  ASSUME NEW k, NEW e, SameFlow(k, e), NEW n, NEW c, c.state # "CLOSED"
  PROVE  Good(k, e, n, c, c)
<1>1. \A s, buf, out : Dir(k, s, buf, out) => Dir(e, s, buf, out)
  BY DirSame
<1> QED
  BY <1>1 DEF Good, SameFlow

LEMMA AcceptFlow ==
  ASSUME ConnInv, ConnInv', FlowInv, NEW n \in Nodes, Accept(n)
  PROVE  FlowInv'
<1> DEFINE cs == conns[n]
           i == Min(Free(n))
           l == Min(Backlog(n))
           d == make_waitdata([cs[i] EXCEPT !.sock = l])
           k == [links[l] EXCEPT !.accepted = TRUE]
<1>0. /\ cs \in [Idx(n) -> Conn] /\ links \in Seq(Link) /\ Apart(Idx(n), cs)
      /\ \A j \in Idx(n) : EndOK(n, cs[j], links)
      /\ \A q \in DOMAIN links : links[q] \in Link
      /\ conns \in [Nodes -> UNION {[Idx(m) -> Conn] : m \in Nodes}]
  BY ConnsAre
<1>1. CASE conns' = conns /\ links' = links
  BY <1>1 DEF FlowInv, Idx
<1>2. CASE n \in Listeners /\ Free(n) # {} /\ Backlog(n) # {}
  <2>1. i \in Idx(n) /\ cs[i].state = "CLOSED"
    <3>1. Free(n) \subseteq Nat
      BY TcpAssumption DEF Free, Idx
    <3>2. i \in Free(n)
      BY <1>2, <3>1, MinIs
    <3> QED
      BY <3>2 DEF Free
  <2>2. l \in DOMAIN links
    <3>1. Backlog(n) \subseteq Nat
      BY <1>0, LenProperties DEF Backlog
    <3>2. l \in Backlog(n)
      BY <1>2, <3>1, MinIs
    <3> QED
      BY <3>2 DEF Backlog
  <2>3. conns' = [conns EXCEPT ![n][i] = d] /\ links' = [links EXCEPT ![l] = k]
    BY <1>2 DEF Accept
  <2> HIDE DEF i, l
  <2>4. d.in = <<>> /\ d.out = <<>>
    BY <1>0, <2>1 DEF EndOK, make_waitdata, Conn
  <2>5. SameFlow(links[l], k)
    BY <1>0, <2>2, LinkAccepted DEF SameFlow
  <2> HIDE DEF d, k
  <2>6. /\ \A m \in Nodes \ {n} : conns'[m] = conns[m]
        /\ conns'[n] = [cs EXCEPT ![i] = d]
    BY <1>0, <2>3
  <2>7. DOMAIN links' = DOMAIN links /\ \A q \in DOMAIN links : SameFlow(links[q], links'[q])
    BY <2>2, <2>3, <2>5 DEF SameFlow
  <2>8. ASSUME NEW j \in Idx(n), conns[n][j].state # "CLOSED"
        PROVE  /\ Stays(conns[n][j], conns'[n][j])
               /\ Good(links[conns[n][j].sock], links'[conns[n][j].sock], n, conns[n][j], conns'[n][j])
    <3>1. conns'[n][j] = conns[n][j]
      BY <1>0, <2>1, <2>6, <2>8
    <3>2. SameFlow(links[conns[n][j].sock], links'[conns[n][j].sock])
      BY <1>0, <2>7, <2>8 DEF EndOK
    <3>3. Stays(conns[n][j], conns[n][j])
      BY <2>8 DEF Stays
    <3> QED
      BY <2>8, <3>1, <3>2, <3>3, GoodLike
  <2>9. ASSUME NEW j \in Idx(n), conns[n][j].state = "CLOSED"
        PROVE  conns'[n][j].in = <<>> /\ conns'[n][j].out = <<>>
    BY <1>0, <2>1, <2>4, <2>6, <2>9 DEF EndOK
  <2> QED
    BY <2>6, <2>7, <2>8, <2>9, FlowStep
<1>3. (conns' = conns /\ links' = links) \/ (n \in Listeners /\ Free(n) # {} /\ Backlog(n) # {})
  BY DEF Accept
<1> QED
  BY <1>1, <1>2, <1>3

\* What housekeeping does before it connects keeps the frames.
LEMMA NowKeeps ==
  ASSUME ConnInv, NEW n \in Nodes, NEW closed, closed \subseteq Tentative(n)
  PROVE  /\ \A i \in Idx(n) : conns[n][i].state # "CLOSED" =>
              Good(links[conns[n][i].sock], LinksNow(n, closed)[conns[n][i].sock], n,
                   conns[n][i], GoneNow(n, closed)[i])
         /\ \A i \in Idx(n) : conns[n][i].state = "CLOSED" => GoneNow(n, closed)[i] = conns[n][i]
         /\ \A l \in DOMAIN links :
              (\A i \in Idx(n) : ~ Over(conns[n], i, l)) => LinksNow(n, closed)[l] = links[l]
<1> DEFINE cs == conns[n]
           con == Connecting(n) \ closed
           ds == GoneNow(n, closed)
           ms == LinksNow(n, closed)
<1>0. /\ cs \in [Idx(n) -> Conn] /\ Apart(Idx(n), cs)
      /\ \A i \in Idx(n) : EndOK(n, cs[i], links)
  BY ConnsAre
<1>1. /\ \A i \in closed : i \in Idx(n) /\ cs[i].state # "CLOSED"
      /\ \A i \in con : i \in Idx(n) /\ cs[i].state = "TCPCONNECT" /\ i \notin closed
  BY DEF Tentative, Connecting
<1>2. ds = [i \in Idx(n) |-> IF i \in closed THEN make_closed(cs[i])
                             ELSE IF i \in con THEN make_waitdata(cs[i]) ELSE cs[i]]
      /\ ms = [l \in DOMAIN links |->
                 IF \E i \in closed : cs[i].sock = l THEN ClosedAt(links[l], n)
                 ELSE IF \E i \in con : cs[i].sock = l THEN SendScout(links[l], n)
                 ELSE links[l]]
  BY DEF GoneNow, LinksNow
<1> HIDE DEF con, ds, ms
<1>3. ASSUME NEW i \in Idx(n), cs[i].state # "CLOSED", NEW j \in Idx(n), cs[j].state # "CLOSED",
             cs[i].sock = cs[j].sock
      PROVE  i = j
  BY <1>0, <1>3 DEF Apart
<1>4. ASSUME NEW i \in Idx(n), cs[i].state # "CLOSED"
      PROVE  Good(links[cs[i].sock], ms[cs[i].sock], n, cs[i], ds[i])
  <2> DEFINE c == cs[i]
             k == links[c.sock]
  <2>1. c \in Conn /\ c.sock \in DOMAIN links /\ k \in Link /\ n \in {k.from, k.to}
    BY <1>4, EndIs
  <2>2. CASE i \in closed
    <3>1. ms[c.sock] = ClosedAt(k, n)
      BY <1>2, <2>1, <2>2
    <3> QED
      BY <2>1, <3>1, GoodClosed
  <2>3. CASE i \in con
    <3>1. ~ \E j \in closed : cs[j].sock = c.sock
      BY <1>1, <1>3, <1>4, <2>3
    <3>2. ms[c.sock] = SendScout(k, n)
      BY <1>2, <2>1, <2>3, <3>1
    <3>3. ds[i] = make_waitdata(c)
      BY <1>1, <1>2, <2>3
    <3>4. c.out = <<>> /\ n = k.from /\ Silent(k)
      BY <1>0, <1>1, <2>3 DEF EndOK
    <3> HIDE DEF c, k
    <3> QED
      BY <2>1, <3>2, <3>3, <3>4, GoodScout DEF c, k
  <2>4. CASE i \notin closed /\ i \notin con
    <3>1. (~ \E j \in closed : cs[j].sock = c.sock) /\ (~ \E j \in con : cs[j].sock = c.sock)
      BY <1>1, <1>3, <1>4, <2>4
    <3>2. ms[c.sock] = k /\ ds[i] = c
      BY <1>2, <2>1, <2>4, <3>1
    <3> QED
      BY <1>4, <3>2, GoodSame
  <2> QED
    BY <2>2, <2>3, <2>4
<1>5. \A i \in Idx(n) : cs[i].state = "CLOSED" => ds[i] = cs[i]
  <2> SUFFICES ASSUME NEW i \in Idx(n), cs[i].state = "CLOSED" PROVE ds[i] = cs[i]
    OBVIOUS
  <2>1. i \notin closed /\ i \notin con
    BY <1>1
  <2> QED
    BY <1>2, <2>1
<1>6. ASSUME NEW l \in DOMAIN links, \A i \in Idx(n) : ~ Over(cs, i, l) PROVE ms[l] = links[l]
  <2>1. (~ \E i \in closed : cs[i].sock = l) /\ (~ \E i \in con : cs[i].sock = l)
    BY <1>1, <1>6 DEF Over
  <2> QED
    BY <1>2, <2>1
<1> QED
  BY <1>4, <1>5, <1>6 DEF ds, ms

LEMMA HousekeepingFlow ==
  ASSUME ConnInv, ConnInv', FlowInv, NEW n \in Nodes, NEW over, NEW failed,
         failed \subseteq Tentative(n), Housekeeping(n, over, failed)
  PROVE  FlowInv'
<1> DEFINE cs == conns[n]
           throttle == pingthrottle[n] \ over
           closed == {i \in Tentative(n) :
                        i \in failed \/ (i \in Connecting(n) /\ HungUp(links[cs[i].sock], n))}
           gs == GoneNow(n, closed)
           ms == LinksNow(n, closed)
           due == PingsDue(n, throttle)
           p == CHOOSE x \in due : TRUE
           i0 == Clidx(n)
           d == ConnectTo(gs[i0], p, Len(links) + 1)
           k == NewLink(n, p)
<1>0. /\ cs \in [Idx(n) -> Conn] /\ links \in Seq(Link) /\ DOMAIN links = 1 .. Len(links)
      /\ Len(links) \in Nat /\ \A i \in Idx(n) : EndOK(n, cs[i], links)
      /\ conns \in [Nodes -> UNION {[Idx(m) -> Conn] : m \in Nodes}]
  BY ConnsAre, LenProperties
<1>1. \/ /\ Free(n) # {} /\ due # {}
         /\ links' = Append(ms, k) /\ conns' = [conns EXCEPT ![n] = [gs EXCEPT ![i0] = d]]
      \/ links' = ms /\ conns' = [conns EXCEPT ![n] = gs]
  BY DEF Housekeeping, GoneNow, LinksNow
<1>2. closed \subseteq Tentative(n)
  OBVIOUS
<1> HIDE DEF closed
<1>3. /\ gs \in [Idx(n) -> Conn] /\ LinksGo(n, links, ms) /\ Len(ms) = Len(links)
      /\ \A i \in Idx(n) : Stays(cs[i], gs[i])
  BY <1>2, NowIs
<1>4. /\ \A i \in Idx(n) : cs[i].state # "CLOSED" => Good(links[cs[i].sock], ms[cs[i].sock], n, cs[i], gs[i])
      /\ \A i \in Idx(n) : cs[i].state = "CLOSED" => gs[i] = cs[i]
      /\ \A l \in DOMAIN links : (\A i \in Idx(n) : ~ Over(cs, i, l)) => ms[l] = links[l]
  BY <1>2, NowKeeps
<1> HIDE DEF gs, ms
<1>5. /\ \A m \in Nodes \ {n} : conns'[m] = conns[m]
      /\ \A i \in Idx(n) : cs[i].state # "CLOSED" => conns'[n][i] = gs[i]
      /\ \A i \in Idx(n) : cs[i].state = "CLOSED" => conns'[n][i].in = <<>> /\ conns'[n][i].out = <<>>
  <2>1. \A i \in Idx(n) : cs[i].state = "CLOSED" => gs[i].in = <<>> /\ gs[i].out = <<>>
    BY <1>0, <1>4 DEF EndOK
  <2>2. CASE conns' = [conns EXCEPT ![n] = gs]
    BY <1>0, <2>1, <2>2
  <2>3. CASE Free(n) # {} /\ conns' = [conns EXCEPT ![n] = [gs EXCEPT ![i0] = d]]
    <3>1. i0 \in Idx(n) /\ cs[i0].state = "CLOSED"
      <4>1. MAX_CONNECTIONS[n] \in Nat
        BY TcpAssumption
      <4>2. i0 \in Free(n)
        BY <2>3, <4>1, MaxIs DEF Clidx, Free, Idx
      <4> QED
        BY <4>2 DEF Free
    <3>2. d.in = gs[i0].in /\ d.out = gs[i0].out
      <4>1. gs[i0] \in Conn
        BY <1>3, <3>1
      <4> HIDE DEF i0, p
      <4> QED
        BY <4>1 DEF ConnectTo, Conn
    <3> HIDE DEF i0, d, cs
    <3>3. /\ \A m \in Nodes \ {n} : conns'[m] = conns[m] /\ conns'[n] = [gs EXCEPT ![i0] = d]
      BY <1>0, <2>3
    <3>4. /\ \A m \in Nodes \ {n} : conns'[m] = conns[m]
          /\ conns'[n] = [gs EXCEPT ![i0] = d]
      BY <1>0, <2>3
    <3>5. ASSUME NEW i \in Idx(n)
          PROVE  /\ cs[i].state # "CLOSED" => conns'[n][i] = gs[i]
                 /\ cs[i].state = "CLOSED" => conns'[n][i].in = <<>> /\ conns'[n][i].out = <<>>
      <4>1. CASE i = i0
        BY <1>3, <2>1, <3>1, <3>2, <3>4, <4>1
      <4>2. CASE i # i0
        BY <1>3, <2>1, <3>4, <4>2
      <4> QED
        BY <4>1, <4>2
    <3> QED
      BY <3>4, <3>5
  <2> QED
    BY <1>1, <2>2, <2>3
<1>6. /\ DOMAIN links \subseteq DOMAIN links'
      /\ \A l \in DOMAIN links : links'[l] = ms[l]
      /\ \A l \in DOMAIN links' \ DOMAIN links : Fresh(links'[l])
  <2>1. ms \in Seq(Link) /\ DOMAIN ms = DOMAIN links /\ Len(ms) = Len(links)
    BY <1>0, <1>3, LenProperties DEF LinksGo
  <2>2. CASE links' = ms
    BY <2>1, <2>2
  <2>3. CASE due # {} /\ links' = Append(ms, k)
    <3>1. p \in due
      BY <2>3
    <3>2. p \in Nodes /\ p # n
      BY <3>1, TcpAssumption DEF PingsDue
    <3> HIDE DEF p, due
    <3>3. k \in Link /\ Fresh(k)
      BY <3>2, LinkMade DEF NewLink, Fresh, Made
    <3> HIDE DEF k
    <3>4. /\ Append(ms, k) \in Seq(Link) /\ Len(Append(ms, k)) = Len(ms) + 1
          /\ \A i \in 1 .. Len(ms) : Append(ms, k)[i] = ms[i]
          /\ Append(ms, k)[Len(ms) + 1] = k
      BY <2>1, <3>3, AppendProperties
    <3>5. DOMAIN links' = 1 .. Len(links) + 1 /\ links'[Len(links) + 1] = k
          /\ \A i \in 1 .. Len(links) : links'[i] = ms[i]
      BY <2>1, <2>3, <3>4, LenProperties
    <3>6. \A i \in 1 .. Len(links) + 1 : i \in 1 .. Len(links) \/ i = Len(links) + 1
      BY <1>0
    <3>7. \A i \in 1 .. Len(links) : i \in 1 .. Len(links) + 1
      BY <1>0
    <3> QED
      BY <1>0, <3>3, <3>5, <3>6, <3>7
  <2> QED
    BY <1>1, <2>2, <2>3
<1>7. ASSUME NEW i \in Idx(n), conns[n][i].state # "CLOSED"
      PROVE  /\ Stays(conns[n][i], conns'[n][i])
             /\ Good(links[conns[n][i].sock], links'[conns[n][i].sock], n, conns[n][i], conns'[n][i])
  <2>1. conns[n][i].sock \in DOMAIN links
    BY <1>7, EndIs
  <2> QED
    BY <1>3, <1>4, <1>5, <1>6, <1>7, <2>1
<1>8. \A l \in DOMAIN links : (\A i \in Idx(n) : ~ Over(conns[n], i, l)) => SameFlow(links[l], links'[l])
  BY <1>4, <1>6 DEF SameFlow
<1>9. \A i \in Idx(n) : conns[n][i].state = "CLOSED" => conns'[n][i].in = <<>> /\ conns'[n][i].out = <<>>
  BY <1>5
<1> QED
  BY <1>5, <1>6, <1>7, <1>8, <1>9, FlowStep

LEMMA FlowInit == Init => FlowInv
BY EmptySeq DEF Init, FlowInv

LEMMA FlowNext == ConnInv /\ ConnInv' /\ FlowInv /\ [Next]_vars => FlowInv'
<1> SUFFICES ASSUME ConnInv, ConnInv', FlowInv, [Next]_vars PROVE FlowInv'
  OBVIOUS
<1>1. ASSUME NEW n \in Nodes, zhe_platform_recv(n) PROVE FlowInv'
  <2>1. CASE Accept(n)
    BY <2>1, AcceptFlow
  <2>2. ASSUME NEW i \in Idx(n), conns[n][i].state \in {"WAITDATA", "LIVE"},
               NEW throttle \in BOOLEAN, Close(n, i, throttle)
        PROVE  FlowInv'
    BY <2>2, CloseFlow
  <2>3. ASSUME NEW i \in Idx(n), conns[n][i].state \in {"WAITDATA", "LIVE"},
               NEW k \in 0 .. Len(links[conns[n][i].sock].wire[n]),
               Len(conns[n][i].in) + k <= BufSize, handle_data(n, i, k)
        PROVE  FlowInv'
    <3>1. KeepsFrames(n, i) \/ Close(n, i, TRUE)
      BY <2>3, DataStep
    <3>2. CASE KeepsFrames(n, i)
      <4>1. PICK d, e : /\ OneStep(n, i, d, e) /\ Stays(conns[n][i], d)
                        /\ Good(links[conns[n][i].sock], e, n, conns[n][i], d)
        BY <3>2 DEF KeepsFrames
      <4> QED
        BY <2>3, <4>1, FlowOne
    <3> QED
      BY <2>2, <2>3, <3>1, <3>2
  <2> QED
    BY <1>1, <2>1, <2>2, <2>3, RecvIs
<1>2. ASSUME NEW n \in Nodes, NEW over \in SUBSET pingthrottle[n], NEW failed \in SUBSET Tentative(n),
             Housekeeping(n, over, failed)
      PROVE  FlowInv'
  BY <1>2, HousekeepingFlow
<1>3. ASSUME NEW n \in Nodes, NEW k \in known[n], SendTo(n, k[1]) PROVE FlowInv'
  <2>1. k[1][1] \in Idx(n) /\ {k[1][1]} \subseteq Live(n) /\ DATA \in Packets
    BY <1>3 DEF SendTo, Names, Live, ConnInv, Tables, Packets
  <2>2. SendOver(n, {k[1][1]}, DATA)
    BY <1>3 DEF SendTo
  <2> QED
    BY <2>1, <2>2, SendFlow
<1>4. ASSUME NEW n \in Nodes, SendToAll(n) PROVE FlowInv'
  BY <1>4, SendFlow DEF SendToAll, Packets
<1>5. ASSUME NEW n \in Nodes, NEW k \in known[n], zhe_platform_close_session(n, k[1]) PROVE FlowInv'
  <2>1. k[1][1] \in Idx(n)
    BY DEF ConnInv, Tables
  <2>2. conns[n][k[1][1]].state = "LIVE" /\ Close(n, k[1][1], FALSE)
    BY <1>5 DEF zhe_platform_close_session, Names
  <2> QED
    BY <2>1, <2>2, CloseFlow
<1>6. CASE UNCHANGED vars
  BY <1>6 DEF vars, FlowInv, Idx
<1> QED
  BY <1>1, <1>2, <1>3, <1>4, <1>5, <1>6 DEF Next

LEMMA FlowFrames == ConnInv /\ FlowInv => FramesIntact
<1> SUFFICES ASSUME ConnInv, FlowInv, NEW l \in DOMAIN links, NEW n \in links[l].open
             PROVE  LET link == links[l]
                        m == Other(link, n)
                        missing == Rest(link.sent[n], Len(link.got[m]))
                    IN  /\ IsPrefix(link.got[m], link.sent[n])
                        /\ m \in link.open =>
                              BufferOf(m, l, "in") \o link.wire[m] \o BufferOf(n, l, "out")
                                 = FlattenSeq([k \in DOMAIN missing |-> Frame(missing[k])])
  BY DEF FramesIntact
<1> DEFINE link == links[l]
           m == Other(link, n)
           missing == Rest(link.sent[n], Len(link.got[m]))
<1>1. link \in Link
  BY DEF ConnInv, Tables
<1>2. n \in link.open /\ n \in {link.from, link.to}
  BY <1>1, LinkHas
<1>3. m \in {link.from, link.to} /\ link.got[m] \in Seq(Bytes) /\ link.sent[n] \in Seq(Packets)
  BY <1>1, <1>2, OtherIs, EndsAre
<1>4. Dir(link, n, InOf(Idx(m), conns[m], l), OutOf(Idx(n), conns[n], l))
  BY <1>2 DEF FlowInv
<1>5. InOf(Idx(m), conns[m], l) = BufferOf(m, l, "in") /\ OutOf(Idx(n), conns[n], l) = BufferOf(n, l, "out")
  BY DEF InOf, OutOf, BufferOf
<1>6. FlattenSeq([k \in DOMAIN missing |-> Frame(missing[k])]) = Pending(link.sent[n], link.got[m])
  BY DEF Pending, Frames
<1> HIDE DEF link, m, missing
<1>7. FirstOf(link.got[m], link.sent[n])
      /\ (m \in link.open => Flow(BufferOf(m, l, "in"), link.wire[m], BufferOf(n, l, "out"),
                                  link.sent[n], link.got[m]))
  BY <1>2, <1>4, <1>5 DEF Dir, m
<1>8. IsPrefix(link.got[m], link.sent[n])
  BY <1>3, <1>7, LenProperties DEF IsPrefix, FirstOf
<1>9. m \in link.open => BufferOf(m, l, "in") \o link.wire[m] \o BufferOf(n, l, "out")
                           = FlattenSeq([k \in DOMAIN missing |-> Frame(missing[k])])
  BY <1>6, <1>7 DEF Flow
<1> QED
  BY <1>8, <1>9 DEF link, m, missing

-----------------------------------------------------------------------------

\* In every state the connections are as ConnInv says: each has a socket of its own
\* that it has not closed, data only while it is live, and a serial that no address
\* given out is ahead of; the socket takes no more than Cap bytes, and a link that
\* is not yet accepted is open at the end that listens.
THEOREM ConnsSound == Spec => []ConnInv
<1>1. Init => ConnInv
  BY ConnInit
<1>2. ConnInv /\ [Next]_vars => ConnInv'
  BY ConnNext
<1> QED
  BY <1>1, <1>2, PTL DEF Spec

\* A packet that is sent to an address that came with an earlier packet goes out
\* over the connection of that packet: zhe_platform_send compares the serial in the
\* address, and make_live gives every live connection a new one.
THEOREM AddressNames == Spec => []AddressNamesConnection
<1>1. ConnInv => AddressNamesConnection
  BY ConnProperties
<1> QED
  BY <1>1, ConnsSound, PTL

\* zhe_platform_housekeeping connects to an address only while none of the
\* connections of the node was made for it.
THEOREM OnePerPing == Spec => []OneConnectionPerPing
<1>1. ConnInv => OneConnectionPerPing
  BY ConnProperties
<1> QED
  BY <1>1, ConnsSound, PTL

\* zhe_platform_wait does not block while a whole frame is in a buffer: datawaiting
\* is set whenever zhe_platform_recv leaves one behind.
THEOREM FrameWaitedFor == Spec => []FrameIsWaitedFor
<1>1. ConnInv => FrameIsWaitedFor
  BY ConnProperties
<1> QED
  BY <1>1, ConnsSound, PTL

\* However writes and reads are cut up, what is between the two ends of a connection
\* is the frames of the packets sent and not yet received: conn_write keeps what the
\* socket did not take, zhe_platform_send_conn drops a packet as a whole or not at all,
\* and zhe_platform_advance takes one frame out of the buffer.
THEOREM FramesKept == Spec => []FramesIntact
<1>1. Init => ConnInv /\ FlowInv
  BY ConnInit, FlowInit
<1>2. (ConnInv /\ FlowInv) /\ [Next]_vars => (ConnInv /\ FlowInv)'
  BY ConnNext, FlowNext
<1>3. ConnInv /\ FlowInv => FramesIntact
  BY FlowFrames
<1> QED
  BY <1>1, <1>2, <1>3, PTL DEF Spec

=============================================================================
