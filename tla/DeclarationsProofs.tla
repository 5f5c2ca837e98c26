------------------------ MODULE DeclarationsProofs ------------------------
(***************************************************************************)
(* Every peer gets every declaration, and a result belongs to the last     *)
(* transaction, for every number of peers, items, sessions and messages in *)
(* the window of a conduit, and however sessions end in between.           *)
(*                                                                         *)
(* The invariant that is inductive says where a declaration is that a peer *)
(* does not have yet: in the window of its unicast conduit, still to be    *)
(* sent according to a cursor that is scheduled, or in a transaction that  *)
(* is committed by a message behind it or one that is still to be sent.    *)
(***************************************************************************)
EXTENDS Declarations, SequenceTheorems, FiniteSetTheorems, WellFoundedInduction, TLAPS

Real == {"RESOURCE", "SUBSCRIPTION"}
Item == {d \in Real \X Nat : d[2] < MAX_ITEMS[d[1]]}

DeclMsg == {m \in [kind : Real, i : Nat, C : BOOLEAN] : m.i < MAX_ITEMS[m.kind]}
MultiMsg == DeclMsg \cup {Commit}

Table == [known : SUBSET Item, pre : SUBSET Item, result : Outcomes]

Tables ==
    /\ items \in [ToSet(Kinds) -> SUBSET Nat]
    /\ \A kind \in ToSet(Kinds) : \A i \in items[kind] : i < MAX_ITEMS[kind]
    /\ cursor \in [Cursors -> [ToSet(Kinds) -> 0 .. INVALID]]
    /\ status \in Outcomes
    /\ uni \in [Peers -> Seq(DeclMsg)]
    /\ multi \in [Peers -> Seq(MultiMsg)]
    /\ results \in [Peers -> Seq(Outcomes)]
    /\ table \in [Peers -> Table]

Sessions ==
    /\ established \subseteq Peers /\ waiting \subseteq established
    /\ sessions \in 0 .. MaxSessions
    /\ established # {} => sessions > 0

Scheduled ==
    /\ pend \in Seq(Cursors)
    /\ IsInjective(pend)
    /\ ToSet(pend) \subseteq established \cup {MULTICAST}
    /\ pos \in 0 .. Len(pend) /\ (pos = Len(pend) => pos = 0)

Fit == \A p \in Peers : Len(uni[p]) <= Window /\ Len(multi[p]) <= Window

IsCommit(p, k) == k \in DOMAIN multi[p] /\ multi[p][k] = Commit

\* the last transaction, as far as p is concerned
Transaction(p) ==
    /\ \A j, k \in DOMAIN multi[p] : IsCommit(p, j) /\ IsCommit(p, k) => j = k
    /\ Len(results[p]) <= 1
    /\ \A k \in DOMAIN multi[p] : IsCommit(p, k) => results[p] = <<>> /\ p \in waiting
    /\ results[p] # <<>> => p \in waiting

Transactions == \A p \in Peers : Transaction(p)

\* a declaration is a message, or still to be sent
Is(m, d) == m.kind = d[1] /\ m.i = d[2]
OnUni(p, d) == \E k \in DOMAIN uni[p] : Is(uni[p][k], d)
ToDo(c, d) == c \in ToSet(pend) /\ cursor[c][d[1]] <= d[2]

\* what is before message k is committed
CommitComes(p, k) ==
    \/ MULTICAST \in ToSet(pend)
    \/ \E j \in DOMAIN multi[p] : j > k /\ IsCommit(p, j)
Noted(p, d) == d \in table[p].pre /\ CommitComes(p, 0)
OnMulti(p, d) == \E k \in DOMAIN multi[p] : Is(multi[p][k], d) /\ CommitComes(p, k)

Covered(p, d) ==
    \/ d \in table[p].known
    \/ OnUni(p, d)
    \/ ToDo(p, d) \/ ToDo(MULTICAST, d)
    \/ Noted(p, d) \/ OnMulti(p, d)

NothingLost == \A p \in established \cap Able, d \in Item : d[2] \in items[d[1]] => Covered(p, d)
NoErrors == \A p \in Able : table[p].result = "OK"

DeclInv == Tables /\ Sessions /\ Scheduled /\ Fit /\ Transactions /\ NothingLost /\ NoErrors

-----------------------------------------------------------------------------
(* Constants. *)

LEMMA KindsAre == ToSet(Kinds) = {"RESOURCE", "PUBLICATION", "SUBSCRIPTION"}
BY DEF ToSet, Kinds

LEMMA ConstantsAre ==
  /\ MULTICAST \notin Peers /\ Peers \subseteq Cursors /\ MULTICAST \in Cursors
  /\ \A kind \in ToSet(Kinds) : MAX_ITEMS[kind] \in Nat /\ MAX_ITEMS[kind] < INVALID
  /\ INVALID \in Nat /\ INVALID > 0
  /\ Window \in Nat /\ Window > 0
  /\ MaxSessions \in Nat /\ Members \subseteq Peers
<1>1. "RESOURCE" \in ToSet(Kinds)
  BY KindsAre
<1> QED
  BY <1>1, DeclarationsAssumption DEF Cursors

LEMMA RealKinds == Real \subseteq ToSet(Kinds)
BY KindsAre DEF Real

LEMMA CommitIsNone == Commit \notin DeclMsg /\ \A d \in Item : ~ Is(Commit, d)
BY DEF Commit, Message, DeclMsg, Real, Is, Item

LEMMA ItemOf ==
  ASSUME NEW m \in DeclMsg
  PROVE  <<m.kind, m.i>> \in Item
BY DEF DeclMsg, Item

-----------------------------------------------------------------------------
(* The schedule. *)

\* Without entry i the others are left, each of them once.
LEMMA RemovedIs ==
  ASSUME pend \in Seq(Cursors), IsInjective(pend), NEW i \in 1 .. Len(pend)
  PROVE  /\ Removed(i - 1) \in Seq(Cursors)
         /\ Len(Removed(i - 1)) = Len(pend) - 1
         /\ IsInjective(Removed(i - 1))
         /\ ToSet(Removed(i - 1)) = ToSet(pend) \ {pend[i]}
<1> DEFINE N == Len(pend)
           e == [pend EXCEPT ![i] = pend[N]]
           r == SubSeq(e, 1, N - 1)
<1>1. N \in Nat /\ N > 0 /\ i \in 1 .. N /\ DOMAIN pend = 1 .. N /\ \A k \in 1 .. N : pend[k] \in Cursors
  BY LenProperties
<1>2. e \in [1 .. N -> Cursors] /\ e \in Seq(Cursors) /\ Len(e) = N
  BY <1>1, IsASeq, LenProperties
<1>3. r \in Seq(Cursors) /\ Len(r) = N - 1 /\ \A k \in 1 .. N - 1 : r[k] = e[k]
  BY <1>1, <1>2, SubSeqProperties
<1>4. Removed(i - 1) = r
  BY <1>1 DEF Removed, Last
<1>5. \A k \in 1 .. N - 1 : r[k] = IF k = i THEN pend[N] ELSE pend[k]
  BY <1>1, <1>2, <1>3
<1>6. DOMAIN r = 1 .. N - 1
  BY <1>3, LenProperties
<1>7. \A j, k \in 1 .. N : pend[j] = pend[k] => j = k
  BY <1>1 DEF IsInjective
<1> HIDE DEF r, e
<1>8. IsInjective(r)
  BY <1>1, <1>5, <1>6, <1>7 DEF IsInjective
<1>9. ToSet(r) \subseteq ToSet(pend) \ {pend[i]}
  <2> SUFFICES ASSUME NEW k \in 1 .. N - 1 PROVE r[k] \in ToSet(pend) \ {pend[i]}
    BY <1>6 DEF ToSet
  <2>1. CASE k = i
    BY <1>1, <1>5, <1>7, <2>1 DEF ToSet
  <2>2. CASE k # i
    BY <1>1, <1>5, <1>7, <2>2 DEF ToSet
  <2> QED
    BY <2>1, <2>2
<1>10. ToSet(pend) \ {pend[i]} \subseteq ToSet(r)
  <2> SUFFICES ASSUME NEW k \in 1 .. N, pend[k] # pend[i] PROVE pend[k] \in ToSet(r)
    BY <1>1 DEF ToSet
  <2>1. CASE k = N
    <3>1. i \in 1 .. N - 1 /\ r[i] = pend[k]
      BY <1>1, <1>5, <2>1
    <3> QED
      BY <1>6, <3>1 DEF ToSet
  <2>2. CASE k # N
    <3>0. k # i
      OBVIOUS
    <3>2. k \in 1 .. N - 1
      <4>1. N \in Nat /\ k \in 1 .. N /\ k # N
        BY <1>1, <2>2
      <4> HIDE DEF N
      <4> QED
        BY <4>1
    <3>1. k \in 1 .. N - 1 /\ r[k] = pend[k]
      BY <1>5, <3>0, <3>2
    <3> QED
      BY <1>6, <3>1 DEF ToSet
  <2> QED
    BY <2>1, <2>2
<1> QED
  BY <1>3, <1>4, <1>8, <1>9, <1>10

LEMMA PosWithinIs ==
  ASSUME Scheduled, NEW i \in 1 .. Len(pend)
  PROVE  PosWithin \in 0 .. Len(pend) - 1 /\ (PosWithin = Len(pend) - 1 => PosWithin = 0)
<1>1. Len(pend) \in Nat
  BY LenProperties DEF Scheduled
<1> QED
  BY <1>1 DEF PosWithin, Scheduled

-----------------------------------------------------------------------------
(* The window. *)

\* A set of natural numbers that is not empty has a least element.
LEMMA NatHasMin ==
  ASSUME NEW S, S \subseteq Nat, S # {}
  PROVE  \E i \in S : \A j \in S : i <= j
<1> DEFINE R == {ss \in Nat \X Nat : ss[1] < ss[2]}
<1>1. IsWellFoundedOn(R, Nat)
  BY NatLessThanWellFounded DEF OpToRel
<1>2. \A p \in Nat, q \in Nat : <<p, q>> \in R <=> p < q
  OBVIOUS
<1> HIDE DEF R
<1>3. \E x \in S : \A y \in S : ~ (<<y, x>> \in R)
  BY <1>1, WFMin
<1>4. PICK x \in S : \A y \in S : ~ (<<y, x>> \in R)
  BY <1>3
<1>5. ASSUME NEW y \in S PROVE x <= y
  <2>1. x \in Nat /\ y \in Nat
    OBVIOUS
  <2>2. ~ (y < x)
    BY <1>2, <1>4, <2>1
  <2> QED
    BY <2>1, <2>2
<1> QED
  BY <1>5

\* so a bounded one has a greatest
LEMMA MaxIs ==
  ASSUME NEW N \in Nat, NEW S, S \subseteq 0 .. N, S # {}
  PROVE  Max(S) \in S /\ \A x \in S : Max(S) >= x
<1> DEFINE T == {N - x : x \in S}
<1>1. T \subseteq Nat /\ T # {}
  <2>1. PICK x : x \in S
    OBVIOUS
  <2>2. N - x \in T
    BY <2>1
  <2> QED
    BY <2>2
<1>2. PICK m \in T : \A y \in T : m <= y
  BY <1>1, NatHasMin
<1>3. PICK x \in S : m = N - x
  BY <1>2
<1>4. \A y \in S : x >= y
  <2> SUFFICES ASSUME NEW y \in S PROVE x >= y
    OBVIOUS
  <2>1. N - x <= N - y
    BY <1>2, <1>3
  <2>2. x \in Nat /\ y \in Nat
    OBVIOUS
  <2> QED
    BY <2>1, <2>2
<1> QED
  BY <1>4 DEF Max

\* No queue of the conduit holds more than its backlog.
LEMMA BacklogIs ==
  ASSUME Tables, Sessions, Fit, NEW c \in Cursors, zhe_out_conduit_is_connected(c)
  PROVE  /\ Backlog(c) \in Nat
         /\ c # MULTICAST => c \in Peers /\ Backlog(c) = Len(uni[c])
         /\ c = MULTICAST => \A p \in Listening : Len(multi[p]) <= Backlog(c)
<1>1. CASE c # MULTICAST
  <2>1. c \in Peers
    BY <1>1 DEF Cursors
  <2>2. Len(uni[c]) \in Nat
    BY <2>1, LenProperties DEF Tables
  <2> QED
    BY <1>1, <2>1, <2>2 DEF Backlog
<1>2. CASE c = MULTICAST
  <2> DEFINE L == {Len(multi[p]) : p \in Listening} \cup {0}
  <2>1. L \subseteq 0 .. Window /\ L # {}
    <3>1. \A p \in Listening : Len(multi[p]) \in 0 .. Window
      <4> SUFFICES ASSUME NEW p \in Listening PROVE Len(multi[p]) \in 0 .. Window
        OBVIOUS
      <4>1. p \in Peers
        BY DEF Listening, Sessions
      <4>2. Len(multi[p]) \in Nat
        BY <4>1, LenProperties DEF Tables
      <4>3. Len(multi[p]) <= Window
        BY <4>1 DEF Fit
      <4> QED
        BY <4>2, <4>3, ConstantsAre
    <3> QED
      BY <3>1, ConstantsAre
  <2>2. Max(L) \in L /\ \A x \in L : Max(L) >= x
    BY <2>1, ConstantsAre, MaxIs
  <2>3. Backlog(c) = Max(L)
    BY <1>2 DEF Backlog
  <2>4. \A p \in Listening : Len(multi[p]) \in L
    OBVIOUS
  <2> HIDE DEF L
  <2>5. Max(L) \in Nat
    <3>1. Max(L) \in 0 .. Window
      BY <2>1, <2>2
    <3> HIDE DEF Backlog
    <3> QED
      BY <3>1, ConstantsAre
  <2>6. \A p \in Listening : Len(multi[p]) \in Nat /\ Len(multi[p]) <= Max(L)
    BY <2>1, <2>2, <2>4, <2>5, ConstantsAre
  <2> QED
    BY <1>2, <2>3, <2>5, <2>6
<1> QED
  BY <1>1, <1>2

-----------------------------------------------------------------------------
(* Sending. *)

\* what is sent for cursor c
OutOK(c, out) ==
    /\ out \in Seq(DeclMsg)
    /\ \A k \in 1 .. Len(out) : out[k].i = cursor[c][out[k].kind]
    /\ out # <<>> => Backlog(c) + Len(out) <= Window

LEMMA SendOneIs ==
  ASSUME Tables, NEW c \in Cursors, NEW kind \in Real, NEW n \in Nat
  PROVE  \/ SendOne(c, kind, n) = <<>>
         \/ /\ SendOne(c, kind, n) = <<Message(kind, cursor[c][kind], c # MULTICAST)>>
            /\ Message(kind, cursor[c][kind], c # MULTICAST) \in DeclMsg
            /\ HasRoom(c, n)
<1>1. kind \in ToSet(Kinds)
  BY RealKinds
<1>2. CASE cursor[c][kind] \in items[kind] /\ HasRoom(c, n)
  <2>1. cursor[c][kind] \in Nat /\ cursor[c][kind] < MAX_ITEMS[kind]
    BY <1>1, <1>2 DEF Tables
  <2> QED
    BY <1>2, <2>1 DEF SendOne, Message, DeclMsg
<1> QED
  BY <1>2 DEF SendOne

LEMMA Concats ==
  ASSUME NEW x, NEW y
  PROVE  /\ <<>> \o <<>> = <<>> /\ <<>> \o <<y>> = <<y>>
         /\ <<x>> \o <<>> = <<x>> /\ <<x>> \o <<y>> = <<x, y>>
<1>1. <<>> \in Seq({x, y}) /\ <<y>> \in Seq({x, y}) /\ <<x>> \in Seq({x, y})
  OBVIOUS
<1>2. <<x>> \o <<y>> = <<x, y>>
  <2> DEFINE z == <<x>> \o <<y>>
  <2>1. z \in Seq({x, y}) /\ Len(z) = 2
        /\ \A k \in 1 .. 2 : z[k] = IF k <= 1 THEN <<x>>[k] ELSE <<y>>[k - 1]
    <3>1. Len(<<x>>) = 1 /\ Len(<<y>>) = 1
      OBVIOUS
    <3> QED
      BY <1>1, <3>1, ConcatProperties
  <2>2. <<x, y>> \in Seq({x, y}) /\ Len(<<x, y>>) = 2 /\ <<x, y>>[1] = x /\ <<x, y>>[2] = y
    OBVIOUS
  <2>3. \A k \in 1 .. 2 : z[k] = <<x, y>>[k]
    BY <2>1, <2>2
  <2> HIDE DEF z
  <2>4. z = <<x, y>>
    BY <2>1, <2>2, <2>3, SeqEqual
  <2> QED
    BY <2>4 DEF z
<1>3. \A z \in Seq({x, y}) : <<>> \o z = z /\ z \o <<>> = z
  BY ConcatEmptySeq
<1> QED
  BY <1>1, <1>2, <1>3

LEMMA SendIs ==
  ASSUME Tables, Sessions, Fit, NEW c \in Cursors, zhe_out_conduit_is_connected(c)
  PROVE  OutOK(c, send_declare(c))
<1> DEFINE r == Message("RESOURCE", cursor[c]["RESOURCE"], c # MULTICAST)
           s == Message("SUBSCRIPTION", cursor[c]["SUBSCRIPTION"], c # MULTICAST)
           R == SendOne(c, "RESOURCE", 0)
           S(n) == SendOne(c, "SUBSCRIPTION", n)
<1>1. Backlog(c) \in Nat /\ Window \in Nat
  BY BacklogIs, ConstantsAre
<1>2. R = <<>> \/ (R = <<r>> /\ r \in DeclMsg /\ Backlog(c) < Window)
  BY <1>1, SendOneIs DEF Real, HasRoom
<1>3. \A n \in Nat : S(n) = <<>> \/ (S(n) = <<s>> /\ s \in DeclMsg /\ Backlog(c) + n < Window)
  BY <1>1, SendOneIs DEF Real, HasRoom
<1>4. send_declare(c) = R \o S(Len(R))
  BY DEF send_declare
<1>5. r.kind = "RESOURCE" /\ r.i = cursor[c]["RESOURCE"]
  BY DEF Message
<1>6. s.kind = "SUBSCRIPTION" /\ s.i = cursor[c]["SUBSCRIPTION"]
  BY DEF Message
<1> HIDE DEF r, s, R, S
<1>7. CASE R = <<>>
  <2>1. send_declare(c) = <<>> \/ (send_declare(c) = <<s>> /\ s \in DeclMsg /\ Backlog(c) < Window)
    <3>1. Len(R) = 0
      BY <1>7
    <3>2. S(0) = <<>> \/ (S(0) = <<s>> /\ s \in DeclMsg /\ Backlog(c) < Window)
      BY <1>1, <1>3
    <3>3. send_declare(c) = <<>> \o S(0)
      BY <1>4, <1>7, <3>1
    <3> QED
      BY <3>2, <3>3, Concats
  <2>2. CASE send_declare(c) = <<>>
    BY <2>2 DEF OutOK
  <2>3. CASE send_declare(c) = <<s>> /\ s \in DeclMsg /\ Backlog(c) < Window
    BY <1>1, <1>6, <2>3 DEF OutOK
  <2> QED
    BY <2>1, <2>2, <2>3
<1>8. CASE R = <<r>> /\ r \in DeclMsg /\ Backlog(c) < Window
  <2>1. Len(R) = 1
    BY <1>8
  <2>2. CASE S(1) = <<>>
    <3>1. send_declare(c) = <<r>>
      BY <1>4, <1>8, <2>1, <2>2, Concats
    <3> QED
      BY <1>1, <1>5, <1>8, <3>1 DEF OutOK
  <2>3. CASE S(1) = <<s>> /\ s \in DeclMsg /\ Backlog(c) + 1 < Window
    <3>1. send_declare(c) = <<r, s>>
      BY <1>4, <1>8, <2>1, <2>3, Concats
    <3> QED
      BY <1>1, <1>5, <1>6, <1>8, <2>3, <3>1 DEF OutOK
  <2> QED
    BY <1>3, <2>2, <2>3
<1> QED
  BY <1>2, <1>7, <1>8

\* How far the cursor goes: it passes no item that was not sent.
LEMMA AdvancedIs ==
  ASSUME Tables, NEW c \in Cursors, NEW out \in Seq(DeclMsg)
  PROVE  /\ Advanced(c, out) \in [ToSet(Kinds) -> 0 .. INVALID]
         /\ \A kind \in Real : \A i \in items[kind] :
              cursor[c][kind] <= i =>
                 \/ Advanced(c, out)[kind] <= i
                 \/ cursor[c][kind] = i /\ \E k \in 1 .. Len(out) : out[k].kind = kind
<1> DEFINE at(kind) == Advanced(c, out)[kind]
           cur(kind) == cursor[c][kind]
<1>1. \A kind \in ToSet(Kinds) : cur(kind) \in 0 .. INVALID /\ MAX_ITEMS[kind] \in Nat /\ MAX_ITEMS[kind] < INVALID
  BY ConstantsAre DEF Tables
<1>2. ASSUME NEW kind \in ToSet(Kinds)
      PROVE  /\ at(kind) \in 0 .. INVALID
             /\ \/ at(kind) = cur(kind)
                \/ at(kind) = cur(kind) + 1
                   /\ (kind \in Real => cur(kind) \notin items[kind] \/ ~ \A m \in ToSet(out) : m.kind # kind)
                \/ kind \in Real /\ cur(kind) = MAX_ITEMS[kind]
  <2>1. at(kind) = LET i == cur(kind)
                   IN  CASE i = INVALID -> i
                         [] i # INVALID /\ kind = "PUBLICATION" -> i + 1
                         [] i # INVALID /\ kind # "PUBLICATION" /\ i = MAX_ITEMS[kind] -> INVALID
                         [] OTHER -> IF i \in items[kind] /\ \A m \in ToSet(out) : m.kind # kind
                                     THEN i ELSE i + 1
    BY DEF Advanced
  <2> HIDE DEF at
  <2>2. INVALID \in Nat
    BY ConstantsAre
  <2>3. kind \in Real <=> kind # "PUBLICATION"
    BY KindsAre DEF Real
  <2>4. CASE cur(kind) = INVALID
    BY <1>1, <2>1, <2>2, <2>4
  <2>5. CASE cur(kind) # INVALID /\ kind = "PUBLICATION"
    <3>1. at(kind) = cur(kind) + 1
      BY <2>1, <2>5
    <3> QED
      BY <1>1, <2>2, <2>3, <2>5, <3>1
  <2>6. CASE cur(kind) # INVALID /\ kind # "PUBLICATION" /\ cur(kind) = MAX_ITEMS[kind]
    <3>1. at(kind) = INVALID
      BY <2>1, <2>6
    <3> QED
      BY <1>1, <2>2, <2>3, <2>6, <3>1
  <2>7. CASE cur(kind) # INVALID /\ kind # "PUBLICATION" /\ cur(kind) # MAX_ITEMS[kind]
    <3>1. at(kind) = IF cur(kind) \in items[kind] /\ \A m \in ToSet(out) : m.kind # kind
                     THEN cur(kind) ELSE cur(kind) + 1
      BY <2>1, <2>7
    <3> QED
      BY <1>1, <2>2, <2>3, <2>7, <3>1
  <2> QED
    BY <2>4, <2>5, <2>6, <2>7
<1>3. Advanced(c, out) \in [ToSet(Kinds) -> 0 .. INVALID]
  BY <1>2 DEF Advanced
<1>4. ASSUME NEW kind \in Real, NEW i \in items[kind], cur(kind) <= i
      PROVE  at(kind) <= i \/ (cur(kind) = i /\ \E k \in 1 .. Len(out) : out[k].kind = kind)
  <2>1. kind \in ToSet(Kinds)
    BY RealKinds
  <2>2. i \in Nat /\ i < MAX_ITEMS[kind]
    BY <2>1 DEF Tables
  <2>3. cur(kind) \in Nat /\ at(kind) \in Nat /\ MAX_ITEMS[kind] \in Nat
    BY <1>1, <1>2, <2>1, ConstantsAre
  <2>4. (\E m \in ToSet(out) : m.kind = kind) => \E k \in 1 .. Len(out) : out[k].kind = kind
    BY LenProperties DEF ToSet
  <2> HIDE DEF at, cur
  <2>5. CASE at(kind) = cur(kind)
    BY <1>4, <2>5
  <2>6. CASE at(kind) = cur(kind) + 1 /\ (cur(kind) \notin items[kind] \/ ~ \A m \in ToSet(out) : m.kind # kind)
    <3>1. CASE cur(kind) = i
      BY <2>4, <2>6, <3>1
    <3>2. CASE cur(kind) # i
      BY <1>4, <2>2, <2>3, <2>6, <3>2
    <3> QED
      BY <3>1, <3>2
  <2>7. CASE cur(kind) = MAX_ITEMS[kind]
    BY <1>4, <2>2, <2>3, <2>7
  <2> QED
    BY <1>2, <2>1, <2>5, <2>6, <2>7
<1> QED
  BY <1>3, <1>4

-----------------------------------------------------------------------------
(* What a step leaves alone. *)

LEMMA TransactionKept ==
  ASSUME NEW p, Transaction(p), multi'[p] = multi[p], results'[p] = results[p],
         p \in waiting => p \in waiting'
  PROVE  Transaction(p)'
BY DEF Transaction, IsCommit

LEMMA CoveredKept ==
  ASSUME NEW p, NEW d, Covered(p, d),
         table'[p] = table[p], uni'[p] = uni[p], multi'[p] = multi[p],
         ToDo(p, d) => ToDo(p, d)',
         ToDo(MULTICAST, d) => ToDo(MULTICAST, d)',
         MULTICAST \in ToSet(pend) => MULTICAST \in ToSet(pend')
  PROVE  Covered(p, d)'
<1>1. \A k : CommitComes(p, k) => CommitComes(p, k)'
  BY DEF CommitComes, IsCommit
<1>2. Noted(p, d) => Noted(p, d)'
  BY <1>1 DEF Noted
<1>3. OnMulti(p, d) => OnMulti(p, d)'
  BY <1>1 DEF OnMulti
<1>4. OnUni(p, d) => OnUni(p, d)'
  BY DEF OnUni
<1> QED
  BY <1>2, <1>3, <1>4 DEF Covered

LEMMA InitOK == Init => DeclInv
<1> SUFFICES ASSUME Init PROVE DeclInv
  OBVIOUS
<1> USE DEF Init
<1>1. Tables
  <2>1. \A kind \in ToSet(Kinds) : items[kind] = {}
    OBVIOUS
  <2>2. items \in [ToSet(Kinds) -> SUBSET Nat]
    OBVIOUS
  <2>3. cursor \in [Cursors -> [ToSet(Kinds) -> 0 .. INVALID]]
    <3>1. [kind \in ToSet(Kinds) |-> 0] \in [ToSet(Kinds) -> 0 .. INVALID]
      BY ConstantsAre
    <3> QED
      BY <3>1
  <2>4. NoDecls \in Table /\ status \in Outcomes
    BY DEF NoDecls, Table, Outcomes
  <2>5. <<>> \in Seq(DeclMsg) /\ <<>> \in Seq(MultiMsg) /\ <<>> \in Seq(Outcomes)
    OBVIOUS
  <2> QED
    BY <2>1, <2>2, <2>3, <2>4, <2>5 DEF Tables
<1>2. Sessions
  BY ConstantsAre DEF Sessions
<1>3. Scheduled
  BY DEF Scheduled, IsInjective, ToSet
<1>4. Fit
  BY ConstantsAre DEF Fit
<1>5. Transactions
  BY DEF Transactions, Transaction, IsCommit
<1>6. NothingLost
  BY DEF NothingLost
<1>7. NoErrors
  <2>1. Able \subseteq Peers
    BY ConstantsAre DEF Able
  <2> QED
    BY <2>1 DEF NoErrors, NoDecls
<1> QED
  BY <1>1, <1>2, <1>3, <1>4, <1>5, <1>6, <1>7 DEF DeclInv

-----------------------------------------------------------------------------
(* Scheduling. *)

LEMMA AppendIs ==
  ASSUME Scheduled, Sessions, NEW c \in Cursors, c \notin ToSet(pend), pend' = Append(pend, c), pos' = pos,
         established \cup {MULTICAST, c} = established' \cup {MULTICAST}
  PROVE  Scheduled' /\ ToSet(pend') = ToSet(pend) \cup {c}
<1> DEFINE N == Len(pend)
<1>1. N \in Nat /\ DOMAIN pend = 1 .. N
  BY LenProperties DEF Scheduled
<1>2. pend' \in Seq(Cursors) /\ Len(pend') = N + 1 /\ pend'[N + 1] = c /\ \A k \in 1 .. N : pend'[k] = pend[k]
  BY AppendProperties DEF Scheduled
<1>3. DOMAIN pend' = 1 .. N + 1
  BY <1>2, LenProperties
<1> HIDE DEF N
<1>4. \A k \in 1 .. N : pend[k] # c
  BY <1>1 DEF ToSet
<1>5. ToSet(pend') = ToSet(pend) \cup {c}
  <2>1. \A k \in 1 .. N + 1 : k = N + 1 \/ k \in 1 .. N
    BY <1>1
  <2>2. N + 1 \in 1 .. N + 1 /\ \A k \in 1 .. N : k \in 1 .. N + 1
    BY <1>1
  <2> QED
    BY <1>1, <1>2, <1>3, <2>1, <2>2 DEF ToSet
<1>6. IsInjective(pend')
  <2> SUFFICES ASSUME NEW a \in 1 .. N + 1, NEW b \in 1 .. N + 1, pend'[a] = pend'[b] PROVE a = b
    BY <1>3 DEF IsInjective
  <2>1. \A j, k \in 1 .. N : pend[j] = pend[k] => j = k
    BY <1>1 DEF Scheduled, IsInjective
  <2>2. a = N + 1 \/ a \in 1 .. N
    BY <1>1
  <2>3. b = N + 1 \/ b \in 1 .. N
    BY <1>1
  <2> QED
    BY <1>2, <1>4, <2>1, <2>2, <2>3
<1>7. pos' \in 0 .. N + 1 /\ (pos' = N + 1 => pos' = 0)
  <2>1. pos \in 0 .. N /\ pos' = pos
    BY DEF Scheduled, N
  <2> QED
    BY <1>1, <2>1
<1>8. ToSet(pend') \subseteq established' \cup {MULTICAST}
  BY <1>5 DEF Scheduled
<1> QED
  BY <1>2, <1>5, <1>6, <1>7, <1>8 DEF Scheduled

LEMMA AcceptOK ==
  ASSUME DeclInv, NEW p \in Peers, accept_peer(p)
  PROVE  DeclInv'
<1> USE DEF accept_peer, DeclInv
<1>1. p \in Cursors /\ p # MULTICAST
  BY ConstantsAre
<1>2. p \notin ToSet(pend)
  BY <1>1 DEF Scheduled
<1>3. Scheduled' /\ ToSet(pend') = ToSet(pend) \cup {p}
  BY <1>1, <1>2, AppendIs
<1>4. \A c \in Cursors : cursor'[c] = IF c = p THEN [kind \in ToSet(Kinds) |-> 0] ELSE cursor[c]
  BY <1>1 DEF Tables
<1>5. Tables'
  <2>1. [kind \in ToSet(Kinds) |-> 0] \in [ToSet(Kinds) -> 0 .. INVALID]
    BY ConstantsAre
  <2>2. cursor' \in [Cursors -> [ToSet(Kinds) -> 0 .. INVALID]]
    BY <1>1, <2>1 DEF Tables
  <2> QED
    BY <2>2 DEF Tables
<1>6. Sessions'
  BY ConstantsAre DEF Sessions
<1>7. Fit'
  BY DEF Fit
<1>8. Transactions'
  BY TransactionKept DEF Transactions
<1>9. NothingLost'
  <2> SUFFICES ASSUME NEW q \in established' \cap Able, NEW d \in Item, d[2] \in items[d[1]]
               PROVE  Covered(q, d)'
    BY DEF NothingLost
  <2>1. d[1] \in ToSet(Kinds) /\ d[2] \in Nat
    BY RealKinds DEF Item
  <2>2. q \in Cursors /\ MULTICAST \in Cursors
    BY ConstantsAre DEF Able
  <2>3. CASE q = p
    <3>1. ToDo(p, d)'
      BY <1>1, <1>3, <1>4, <2>1 DEF ToDo
    <3> QED
      BY <2>3, <3>1 DEF Covered
  <2>4. CASE q # p
    <3>1. Covered(q, d)
      BY <2>4 DEF NothingLost
    <3>2. (ToDo(q, d) => ToDo(q, d)') /\ (ToDo(MULTICAST, d) => ToDo(MULTICAST, d)')
      BY <1>1, <1>3, <1>4, <2>2, <2>4 DEF ToDo
    <3>3. MULTICAST \in ToSet(pend) => MULTICAST \in ToSet(pend')
      BY <1>3
    <3>4. table'[q] = table[q] /\ uni'[q] = uni[q] /\ multi'[q] = multi[q]
      OBVIOUS
    <3> QED
      BY <3>1, <3>2, <3>3, <3>4, CoveredKept
  <2> QED
    BY <2>3, <2>4
<1>10. NoErrors'
  BY DEF NoErrors
<1> QED
  BY <1>3, <1>5, <1>6, <1>7, <1>8, <1>9, <1>10

LEMMA BackToIs ==
  ASSUME Tables, NEW kind \in ToSet(Kinds), NEW i \in 0 .. MAX_ITEMS[kind] - 1
  PROVE  /\ BackTo(kind, i) \in [Cursors -> [ToSet(Kinds) -> 0 .. INVALID]]
         /\ \A p \in Peers : BackTo(kind, i)[p] = cursor[p]
         /\ \A k \in ToSet(Kinds) : BackTo(kind, i)[MULTICAST][k] <= cursor[MULTICAST][k]
         /\ BackTo(kind, i)[MULTICAST][kind] <= i
<1> DEFINE C == cursor[MULTICAST]
           at == IF C[kind] > i THEN i ELSE C[kind]
           D == [C EXCEPT ![kind] = at]
<1>1. MULTICAST \in Cursors /\ Peers \subseteq Cursors /\ MULTICAST \notin Peers
  BY ConstantsAre
<1>2. C \in [ToSet(Kinds) -> 0 .. INVALID]
  BY <1>1 DEF Tables
<1>3. i \in Nat /\ i \in 0 .. INVALID /\ INVALID \in Nat
  BY ConstantsAre
<1>4. C[kind] \in 0 .. INVALID
  BY <1>2
<1>5. at \in 0 .. INVALID /\ at <= C[kind] /\ at <= i
  BY <1>3, <1>4
<1>6. BackTo(kind, i) = [cursor EXCEPT ![MULTICAST] = D]
  BY DEF BackTo
<1> HIDE DEF at
<1>7. D \in [ToSet(Kinds) -> 0 .. INVALID]
  BY <1>2, <1>5
<1>8. \A k \in ToSet(Kinds) : D[k] <= C[k]
  <2> SUFFICES ASSUME NEW k \in ToSet(Kinds) PROVE D[k] <= C[k]
    OBVIOUS
  <2>1. C[k] \in 0 .. INVALID
    BY <1>2
  <2>2. D[k] = IF k = kind THEN at ELSE C[k]
    BY <1>2
  <2> QED
    BY <1>3, <1>5, <2>1, <2>2
<1>9. D[kind] <= i
  BY <1>2, <1>5
<1> HIDE DEF D
<1>10. BackTo(kind, i)[MULTICAST] = D
  BY <1>1, <1>6 DEF Tables
<1>11. \A p \in Peers : BackTo(kind, i)[p] = cursor[p]
  BY <1>1, <1>6 DEF Tables
<1>12. BackTo(kind, i) \in [Cursors -> [ToSet(Kinds) -> 0 .. INVALID]]
  BY <1>1, <1>6, <1>7 DEF Tables
<1> QED
  BY <1>8, <1>9, <1>10, <1>11, <1>12

LEMMA DeclareOK ==
  ASSUME DeclInv, NEW kind \in ToSet(Kinds), NEW i \in 0 .. MAX_ITEMS[kind] - 1, Declare(kind, i)
  PROVE  DeclInv'
<1> USE DEF DeclInv, Declare, sched_fresh_declare, remote
<1>1. MULTICAST \in Cursors
  BY ConstantsAre
<1>2. Scheduled' /\ ToSet(pend') = ToSet(pend) \cup {MULTICAST}
  <2>1. CASE MULTICAST \in ToSet(pend)
    BY <2>1 DEF Scheduled
  <2>2. CASE MULTICAST \notin ToSet(pend)
    BY <1>1, <2>2, AppendIs
  <2> QED
    BY <2>1, <2>2
<1>3. /\ cursor' \in [Cursors -> [ToSet(Kinds) -> 0 .. INVALID]]
      /\ \A p \in Peers : cursor'[p] = cursor[p]
      /\ \A k \in ToSet(Kinds) : cursor'[MULTICAST][k] <= cursor[MULTICAST][k]
      /\ cursor'[MULTICAST][kind] <= i
  BY BackToIs
<1>4. \A k \in ToSet(Kinds) : items'[k] = IF k = kind THEN items[k] \cup {i} ELSE items[k]
  BY DEF Tables
<1>5. i \in Nat /\ i < MAX_ITEMS[kind]
  BY ConstantsAre
<1>6. Tables'
  <2>1. items' \in [ToSet(Kinds) -> SUBSET Nat]
    BY <1>5 DEF Tables
  <2>2. \A k \in ToSet(Kinds) : \A j \in items'[k] : j < MAX_ITEMS[k]
    BY <1>4, <1>5 DEF Tables
  <2> QED
    BY <1>3, <2>1, <2>2 DEF Tables
<1>7. Sessions' /\ Fit' /\ NoErrors'
  BY DEF Sessions, Fit, NoErrors
<1>8. Transactions'
  BY TransactionKept DEF Transactions
<1>9. NothingLost'
  <2> SUFFICES ASSUME NEW q \in established' \cap Able, NEW d \in Item, d[2] \in items'[d[1]]
               PROVE  Covered(q, d)'
    BY DEF NothingLost
  <2>1. d[1] \in ToSet(Kinds) /\ d[2] \in Nat
    BY RealKinds DEF Item
  <2>2. q \in Peers
    BY ConstantsAre DEF Able
  <2>3. CASE d[2] \in items[d[1]]
    <3>1. Covered(q, d)
      BY <2>3 DEF NothingLost
    <3>2. ToDo(q, d) => ToDo(q, d)'
      BY <1>2, <1>3, <2>2 DEF ToDo
    <3>3. ToDo(MULTICAST, d) => ToDo(MULTICAST, d)'
      <4>1. cursor[MULTICAST][d[1]] \in Nat /\ cursor'[MULTICAST][d[1]] \in Nat
        BY <1>1, <1>3, <2>1, ConstantsAre DEF Tables
      <4>2. cursor'[MULTICAST][d[1]] <= cursor[MULTICAST][d[1]]
        BY <1>3, <2>1
      <4>3. cursor[MULTICAST][d[1]] <= d[2] => cursor'[MULTICAST][d[1]] <= d[2]
        BY <2>1, <4>1, <4>2
      <4> QED
        BY <1>2, <4>3 DEF ToDo
    <3>4. table'[q] = table[q] /\ uni'[q] = uni[q] /\ multi'[q] = multi[q] /\ MULTICAST \in ToSet(pend')
      BY <1>2
    <3> QED
      BY <3>1, <3>2, <3>3, <3>4, CoveredKept
  <2>4. CASE d[2] \notin items[d[1]]
    <3>1. d[1] = kind /\ d[2] = i
      BY <1>4, <2>1, <2>4
    <3>2. ToDo(MULTICAST, d)'
      BY <1>2, <1>3, <3>1 DEF ToDo
    <3> QED
      BY <3>2 DEF Covered
  <2> QED
    BY <2>3, <2>4
<1> QED
  BY <1>2, <1>6, <1>7, <1>8, <1>9

-----------------------------------------------------------------------------
(* The end of a session. *)

LEMMA RemovingOK ==
  ASSUME Scheduled, NEW i \in 1 .. Len(pend), pend' = Removed(i - 1), pos' = PosWithin,
         ToSet(pend) \ {pend[i]} \subseteq established' \cup {MULTICAST}
  PROVE  Scheduled' /\ ToSet(pend') = ToSet(pend) \ {pend[i]}
<1>1. /\ pend' \in Seq(Cursors) /\ Len(pend') = Len(pend) - 1
      /\ IsInjective(pend') /\ ToSet(pend') = ToSet(pend) \ {pend[i]}
  BY RemovedIs DEF Scheduled
<1>2. pos' \in 0 .. Len(pend') /\ (pos' = Len(pend') => pos' = 0)
  BY <1>1, PosWithinIs
<1> QED
  BY <1>1, <1>2 DEF Scheduled

LEMMA ResetOK ==
  ASSUME DeclInv, NEW p \in Peers, Reset(p)
  PROVE  DeclInv'
<1> USE DEF DeclInv, Reset
<1>1. p \in Cursors /\ p # MULTICAST
  BY ConstantsAre
<1>2. Scheduled' /\ ToSet(pend') = ToSet(pend) \ {p}
  <2>1. CASE p \in ToSet(pend)
    <3> DEFINE i == CHOOSE k \in DOMAIN pend : pend[k] = p
    <3>1. i \in 1 .. Len(pend) /\ pend[i] = p
      <4>1. \E k \in DOMAIN pend : pend[k] = p
        BY <2>1 DEF ToSet
      <4>2. i \in DOMAIN pend /\ pend[i] = p
        BY <4>1
      <4> QED
        BY <4>2, LenProperties DEF Scheduled
    <3>2. pend' = Removed(i - 1) /\ pos' = PosWithin
      BY <2>1
    <3>3. ToSet(pend) \ {pend[i]} \subseteq established' \cup {MULTICAST}
      BY <3>1 DEF Scheduled
    <3> HIDE DEF i
    <3> QED
      BY <3>1, <3>2, <3>3, RemovingOK
  <2>2. CASE p \notin ToSet(pend)
    BY <2>2 DEF Scheduled
  <2> QED
    BY <2>1, <2>2
<1>3. /\ uni' = [uni EXCEPT ![p] = <<>>] /\ multi' = [multi EXCEPT ![p] = <<>>]
      /\ results' = [results EXCEPT ![p] = <<>>] /\ table' = [table EXCEPT ![p] = NoDecls]
  OBVIOUS
<1>4. /\ uni'[p] = <<>> /\ multi'[p] = <<>> /\ results'[p] = <<>> /\ table'[p] = NoDecls
      /\ \A q \in Peers \ {p} : /\ uni'[q] = uni[q] /\ multi'[q] = multi[q]
                                /\ results'[q] = results[q] /\ table'[q] = table[q]
  BY <1>3 DEF Tables
<1>5. Tables'
  <2>1. NoDecls \in Table
    BY DEF NoDecls, Table, Outcomes
  <2>2. <<>> \in Seq(DeclMsg) /\ <<>> \in Seq(MultiMsg) /\ <<>> \in Seq(Outcomes)
    OBVIOUS
  <2>3. table' \in [Peers -> Table]
    BY <1>3, <2>1 DEF Tables
  <2>4. uni' \in [Peers -> Seq(DeclMsg)]
    BY <1>3, <2>2 DEF Tables
  <2>5. multi' \in [Peers -> Seq(MultiMsg)]
    BY <1>3, <2>2 DEF Tables
  <2>6. results' \in [Peers -> Seq(Outcomes)]
    BY <1>3, <2>2 DEF Tables
  <2> QED
    BY <2>3, <2>4, <2>5, <2>6 DEF Tables
<1>6. Sessions'
  BY DEF Sessions
<1>7. Fit'
  <2> SUFFICES ASSUME NEW q \in Peers PROVE Len(uni'[q]) <= Window /\ Len(multi'[q]) <= Window
    BY DEF Fit
  <2>1. CASE q = p
    BY <1>4, <2>1, ConstantsAre
  <2>2. CASE q # p
    BY <1>4, <2>2 DEF Fit
  <2> QED
    BY <2>1, <2>2
<1>8. Transactions'
  <2> SUFFICES ASSUME NEW q \in Peers PROVE Transaction(q)'
    BY DEF Transactions
  <2>1. CASE q = p
    <3>1. multi'[q] = <<>> /\ results'[q] = <<>>
      BY <1>4, <2>1
    <3> QED
      BY <3>1 DEF Transaction, IsCommit
  <2>2. CASE q # p
    <3>1. multi'[q] = multi[q] /\ results'[q] = results[q] /\ (q \in waiting => q \in waiting')
      BY <1>4, <2>2
    <3> QED
      BY <3>1, TransactionKept DEF Transactions
  <2> QED
    BY <2>1, <2>2
<1>9. NothingLost'
  <2> SUFFICES ASSUME NEW q \in established' \cap Able, NEW d \in Item, d[2] \in items'[d[1]]
               PROVE  Covered(q, d)'
    BY DEF NothingLost
  <2>1. q \in Peers \ {p} /\ q \in established /\ d[2] \in items[d[1]]
    BY ConstantsAre DEF Able
  <2>2. Covered(q, d)
    BY <2>1 DEF NothingLost
  <2>3. (ToDo(q, d) => ToDo(q, d)') /\ (ToDo(MULTICAST, d) => ToDo(MULTICAST, d)')
    BY <1>1, <1>2, <2>1 DEF ToDo
  <2>4. MULTICAST \in ToSet(pend) => MULTICAST \in ToSet(pend')
    BY <1>1, <1>2
  <2>5. table'[q] = table[q] /\ uni'[q] = uni[q] /\ multi'[q] = multi[q]
    BY <1>4, <2>1
  <2> QED
    BY <2>2, <2>3, <2>4, <2>5, CoveredKept
<1>10. NoErrors'
  <2> SUFFICES ASSUME NEW q \in Able PROVE table'[q].result = "OK"
    BY DEF NoErrors
  <2>1. q \in Peers
    BY ConstantsAre DEF Able
  <2>2. CASE q = p
    BY <1>4, <2>2 DEF NoDecls
  <2>3. CASE q # p
    BY <1>4, <2>1, <2>3 DEF NoErrors
  <2> QED
    BY <2>2, <2>3
<1> QED
  BY <1>2, <1>5, <1>6, <1>7, <1>8, <1>9, <1>10

-----------------------------------------------------------------------------
(* Results. *)

LEMMA ResultOK ==
  ASSUME DeclInv, NEW p \in Peers, handle_dresult(p)
  PROVE  DeclInv'
<1> USE DEF DeclInv, handle_dresult
<1>1. results[p] \in Seq(Outcomes) /\ results[p] # <<>>
  BY DEF Tables
<1>2. Head(results[p]) \in Outcomes /\ Tail(results[p]) \in Seq(Outcomes)
      /\ Len(Tail(results[p])) = Len(results[p]) - 1 /\ Len(results[p]) \in Nat \ {0}
  BY <1>1, HeadTailProperties, EmptySeq
<1>3. results' = [results EXCEPT ![p] = Tail(results[p])]
  OBVIOUS
<1>4. status' \in Outcomes /\ waiting' \subseteq waiting /\ waiting \ {p} \subseteq waiting'
  BY <1>2 DEF zhe_note_declstatus, Tables
<1>5. Tables'
  <2>1. results' \in [Peers -> Seq(Outcomes)]
    BY <1>2, <1>3 DEF Tables
  <2> QED
    BY <1>4, <2>1 DEF Tables
<1>6. Sessions'
  BY <1>4 DEF Sessions
<1>7. Scheduled' /\ Fit' /\ NoErrors'
  BY DEF Scheduled, Fit, NoErrors
<1>8. Transactions'
  <2> SUFFICES ASSUME NEW q \in Peers PROVE Transaction(q)'
    BY DEF Transactions
  <2>1. CASE q = p
    <3>1. Transaction(p)
      BY DEF Transactions
    <3>2. \A k \in DOMAIN multi[p] : ~ IsCommit(p, k)
      BY <1>1, <3>1 DEF Transaction
    <3>3. Len(results[p]) = 1
      <4>1. Len(results[p]) <= 1
        BY <3>1 DEF Transaction
      <4>2. Len(results[p]) \in Nat /\ Len(results[p]) # 0
        BY <1>2
      <4>3. \A n \in Nat : n # 0 /\ n <= 1 => n = 1
        OBVIOUS
      <4> QED
        BY <4>1, <4>2, <4>3
    <3>4. Len(results'[p]) = 0 /\ results'[p] \in Seq(Outcomes)
      BY <1>2, <1>3, <3>3 DEF Tables
    <3>5. results'[p] = <<>>
      BY <3>4, EmptySeq
    <3> QED
      BY <2>1, <3>2, <3>4, <3>5 DEF Transaction, IsCommit
  <2>2. CASE q # p
    <3>1. results'[q] = results[q] /\ multi'[q] = multi[q] /\ (q \in waiting => q \in waiting')
      BY <1>3, <1>4, <2>2 DEF Tables
    <3> QED
      BY <3>1, TransactionKept DEF Transactions
  <2> QED
    BY <2>1, <2>2
<1>9. NothingLost'
  <2> SUFFICES ASSUME NEW q \in established \cap Able, NEW d \in Item, d[2] \in items[d[1]]
               PROVE  Covered(q, d)'
    BY DEF NothingLost
  <2>1. Covered(q, d)
    BY DEF NothingLost
  <2> QED
    BY <2>1, CoveredKept DEF ToDo
<1> QED
  BY <1>5, <1>6, <1>7, <1>8, <1>9

LEMMA GetOK ==
  ASSUME DeclInv, zhe_get_declstatus
  PROVE  DeclInv'
<1> USE DEF DeclInv, zhe_get_declstatus, remote
<1>1. Tables'
  BY DEF Tables, Outcomes
<1>2. Sessions' /\ Scheduled' /\ Fit' /\ NoErrors'
  BY DEF Sessions, Scheduled, Fit, NoErrors
<1>3. Transactions'
  BY TransactionKept DEF Transactions
<1>4. NothingLost'
  <2> SUFFICES ASSUME NEW q \in established \cap Able, NEW d \in Item, d[2] \in items[d[1]]
               PROVE  Covered(q, d)'
    BY DEF NothingLost
  <2>1. Covered(q, d)
    BY DEF NothingLost
  <2> QED
    BY <2>1, CoveredKept DEF ToDo
<1> QED
  BY <1>1, <1>2, <1>3, <1>4

-----------------------------------------------------------------------------
(* A step of housekeeping. *)

\* what it sends for cursor c, and whether it is the last for it
Committing(c) == zhe_send_declares1(c).done /\ c = MULTICAST /\ zhe_send_declares1(c).oc
Room1(c) == HasRoom(c, Len(zhe_send_declares1(c).out))
Sent(c) == IF Committing(c) /\ Room1(c)
           THEN Append(zhe_send_declares1(c).out, Commit)
           ELSE zhe_send_declares1(c).out
Gone(c) == zhe_send_declares1(c).done /\ (Committing(c) => Room1(c))

SendStep(c) ==
    /\ c \in ToSet(pend)
    /\ cursor' = [cursor EXCEPT ![c] = zhe_send_declares1(c).at]
    /\ Transmit(c, Sent(c))
    /\ c = MULTICAST => waiting = {}
    /\ Scheduled'
    /\ ToSet(pend') = IF Gone(c) THEN ToSet(pend) \ {c} ELSE ToSet(pend)
    /\ waiting' = IF Gone(c) /\ c = MULTICAST THEN waiting \cup established ELSE waiting
    /\ UNCHANGED <<items, status, established, sessions, results, table>>

LEMMA NextPos ==
  ASSUME NEW n \in Nat, n > 0, NEW x \in 0 .. n - 1
  PROVE  (x + 1) % n \in 0 .. n - 1
OBVIOUS

LEMMA StepIs ==
  ASSUME Scheduled, zhe_send_declares
  PROVE  \E c \in Cursors : SendStep(c)
<1> DEFINE c == pend[pos + 1]
           r == zhe_send_declares1(c)
           N == Len(pend)
<1>1. N \in Nat /\ N > 0 /\ DOMAIN pend = 1 .. N
  BY LenProperties, EmptySeq DEF Scheduled, zhe_send_declares
<1>2. pos \in 0 .. N - 1 /\ pos + 1 \in 1 .. N /\ (pos + 1) - 1 = pos
  <2>1. pos \in 0 .. N /\ (pos = N => pos = 0)
    BY DEF Scheduled
  <2> HIDE DEF N
  <2> QED
    BY <1>1, <2>1
<1>3. c \in Cursors /\ c \in ToSet(pend)
  <2>1. c \in ToSet(pend)
    BY <1>1, <1>2 DEF ToSet
  <2>2. pend \in Seq(Cursors) /\ pos + 1 \in 1 .. Len(pend)
    BY <1>2 DEF Scheduled
  <2>3. c \in Cursors
    BY <2>2, LenProperties
  <2> QED
    BY <2>1, <2>3
<1>4. /\ ~Held(c = MULTICAST)
      /\ cursor' = [cursor EXCEPT ![c] = r.at]
      /\ IF Gone(c) THEN Finished(r, c = MULTICAST) ELSE Postponed
      /\ Transmit(c, Sent(c))
      /\ UNCHANGED <<items, status, established, sessions, results, table>>
  BY DEF zhe_send_declares, Gone, Committing, Room1, Sent
<1>5. c = MULTICAST => waiting = {}
  BY <1>4 DEF Held
<1> HIDE DEF c, r
<1>6. CASE Gone(c)
  <2>1. pend' = Removed((pos + 1) - 1) /\ pos' = PosWithin /\ waiting' = IF c = MULTICAST THEN waiting \cup established ELSE waiting
    BY <1>2, <1>4, <1>6 DEF Finished
  <2>2. pend[pos + 1] = c
    BY DEF c
  <2>3. ToSet(pend) \ {c} \subseteq established' \cup {MULTICAST}
    BY <1>4 DEF Scheduled
  <2>4. Scheduled' /\ ToSet(pend') = ToSet(pend) \ {c}
    BY <1>2, <2>1, <2>2, <2>3, RemovingOK
  <2> QED
    BY <1>3, <1>4, <1>5, <1>6, <2>1, <2>4 DEF SendStep, r
<1>7. CASE ~Gone(c)
  <2>1. pend' = pend /\ waiting' = waiting /\ pos' = (pos + 1) % N
    BY <1>4, <1>7 DEF Postponed
  <2>2. pos' \in 0 .. N - 1
    <3> HIDE DEF N
    <3> QED
      BY <1>1, <1>2, <2>1, NextPos
  <2>3. pos' \in 0 .. N /\ (pos' = N => pos' = 0)
    <3> HIDE DEF N
    <3> QED
      BY <1>1, <2>2
  <2>4. Scheduled'
    BY <1>4, <2>1, <2>3 DEF Scheduled
  <2> QED
    BY <1>3, <1>4, <1>5, <1>7, <2>1, <2>4 DEF SendStep, r
<1> QED
  BY <1>3, <1>6, <1>7

\* what the step does with the cursor
LEMMA CursorIs ==
  ASSUME Tables, Sessions, Fit, NEW c \in Cursors, SendStep(c)
  PROVE  /\ cursor' \in [Cursors -> [ToSet(Kinds) -> 0 .. INVALID]]
         /\ \A b \in Cursors \ {c} : cursor'[b] = cursor[b]
         /\ zhe_out_conduit_is_connected(c) =>
              /\ zhe_send_declares1(c).oc
              /\ zhe_send_declares1(c).out = send_declare(c)
              /\ OutOK(c, send_declare(c))
              /\ cursor'[c] = Advanced(c, send_declare(c))
              /\ zhe_send_declares1(c).done = AllDone(cursor[c])
         /\ ~ zhe_out_conduit_is_connected(c) =>
              Gone(c) /\ Sent(c) = <<>>
<1>1. CASE zhe_out_conduit_is_connected(c)
  <2>1. zhe_send_declares1(c) = [at |-> Advanced(c, send_declare(c)), out |-> send_declare(c),
                                 done |-> AllDone(cursor[c]), oc |-> TRUE]
    BY <1>1 DEF zhe_send_declares1
  <2>2. OutOK(c, send_declare(c))
    BY <1>1, SendIs
  <2>3. Advanced(c, send_declare(c)) \in [ToSet(Kinds) -> 0 .. INVALID]
    BY <2>2, AdvancedIs DEF OutOK
  <2>4. cursor' = [cursor EXCEPT ![c] = Advanced(c, send_declare(c))]
    BY <2>1 DEF SendStep
  <2>5. zhe_send_declares1(c).oc /\ zhe_send_declares1(c).out = send_declare(c)
        /\ zhe_send_declares1(c).done = AllDone(cursor[c])
    BY <2>1
  <2> QED
    BY <1>1, <2>2, <2>3, <2>4, <2>5 DEF Tables
<1>2. CASE ~ zhe_out_conduit_is_connected(c)
  <2>1. zhe_send_declares1(c) = [at |-> [kind \in ToSet(Kinds) |-> INVALID], out |-> <<>>,
                                 done |-> TRUE, oc |-> FALSE]
    BY <1>2 DEF zhe_send_declares1
  <2>2. [kind \in ToSet(Kinds) |-> INVALID] \in [ToSet(Kinds) -> 0 .. INVALID]
    BY ConstantsAre
  <2>3. cursor' = [cursor EXCEPT ![c] = [kind \in ToSet(Kinds) |-> INVALID]]
    BY <2>1 DEF SendStep
  <2>4. Gone(c) /\ Sent(c) = <<>>
    BY <2>1 DEF Gone, Sent, Committing
  <2> QED
    BY <1>2, <2>2, <2>3, <2>4 DEF Tables
<1> QED
  BY <1>1, <1>2

\* an item that was still to be sent is sent, or still to be sent
LEMMA StillToDo ==
  ASSUME Tables, Sessions, Fit, NEW c \in Cursors, SendStep(c), zhe_out_conduit_is_connected(c),
         NEW d \in Item, d[2] \in items[d[1]], ToDo(c, d)
  PROVE  /\ ~ Gone(c)
         /\ \/ ToDo(c, d)'
            \/ \E k \in 1 .. Len(send_declare(c)) : Is(send_declare(c)[k], d)
<1>1. d[1] \in Real /\ d[1] \in ToSet(Kinds) /\ d[2] \in Nat /\ d[2] < MAX_ITEMS[d[1]]
  BY RealKinds DEF Item
<1>2. cursor[c][d[1]] \in Nat /\ cursor[c][d[1]] <= d[2] /\ INVALID \in Nat /\ MAX_ITEMS[d[1]] \in Nat
      /\ MAX_ITEMS[d[1]] < INVALID
  BY <1>1, ConstantsAre DEF Tables, ToDo
<1>3. /\ zhe_send_declares1(c).done = AllDone(cursor[c])
      /\ OutOK(c, send_declare(c))
      /\ cursor'[c] = Advanced(c, send_declare(c))
  BY CursorIs
<1>4. ~ Gone(c)
  <2>1. cursor[c][d[1]] # INVALID
    BY <1>1, <1>2
  <2>2. ~ AllDone(cursor[c])
    BY <1>1, <2>1 DEF AllDone
  <2> QED
    BY <1>3, <2>2 DEF Gone
<1>5. c \in ToSet(pend')
  BY <1>4 DEF SendStep
<1>6. send_declare(c) \in Seq(DeclMsg)
  BY <1>3 DEF OutOK
<1>7. \/ Advanced(c, send_declare(c))[d[1]] <= d[2]
      \/ cursor[c][d[1]] = d[2] /\ \E k \in 1 .. Len(send_declare(c)) : send_declare(c)[k].kind = d[1]
  BY <1>1, <1>2, <1>6, AdvancedIs
<1>8. CASE Advanced(c, send_declare(c))[d[1]] <= d[2]
  BY <1>3, <1>4, <1>5, <1>8 DEF ToDo
<1>9. ASSUME cursor[c][d[1]] = d[2], NEW k \in 1 .. Len(send_declare(c)), send_declare(c)[k].kind = d[1]
      PROVE  Is(send_declare(c)[k], d)
  BY <1>3, <1>9 DEF OutOK, Is
<1> QED
  BY <1>4, <1>7, <1>8, <1>9

\* what is sent goes behind what was there
LEMMA Behind ==
  ASSUME NEW S, NEW s \in Seq(S), NEW t \in Seq(S)
  PROVE  /\ s \o t \in Seq(S) /\ Len(s \o t) = Len(s) + Len(t)
         /\ DOMAIN s = 1 .. Len(s) /\ DOMAIN (s \o t) = 1 .. Len(s) + Len(t)
         /\ Len(s) \in Nat /\ Len(t) \in Nat
         /\ \A k \in 1 .. Len(s) : k \in 1 .. Len(s) + Len(t) /\ (s \o t)[k] = s[k]
         /\ \A k \in 1 .. Len(t) : Len(s) + k \in 1 .. Len(s) + Len(t) /\ (s \o t)[Len(s) + k] = t[k]
         /\ \A k \in 1 .. Len(s) + Len(t) : k \in 1 .. Len(s) \/ (k - Len(s) \in 1 .. Len(t) /\ (s \o t)[k] = t[k - Len(s)])
<1>1. /\ s \o t \in Seq(S) /\ Len(s \o t) = Len(s) + Len(t)
      /\ \A k \in 1 .. Len(s) + Len(t) : (s \o t)[k] = IF k <= Len(s) THEN s[k] ELSE t[k - Len(s)]
  BY ConcatProperties
<1>2. Len(s) \in Nat /\ Len(t) \in Nat /\ DOMAIN s = 1 .. Len(s) /\ DOMAIN (s \o t) = 1 .. Len(s) + Len(t)
  BY <1>1, LenProperties
<1> DEFINE m == Len(s)
           n == Len(t)
           u == s \o t
<1>3. m \in Nat /\ n \in Nat /\ \A k \in 1 .. m + n : u[k] = IF k <= m THEN s[k] ELSE t[k - m]
  BY <1>1, <1>2
<1> HIDE DEF m, n, u
<1>4. \A k \in 1 .. m : k \in 1 .. m + n /\ u[k] = s[k]
  BY <1>3
<1>5. \A k \in 1 .. n : m + k \in 1 .. m + n /\ u[m + k] = t[k]
  BY <1>3
<1>6. \A k \in 1 .. m + n : k \in 1 .. m \/ (k - m \in 1 .. n /\ u[k] = t[k - m])
  BY <1>3
<1> QED
  BY <1>1, <1>2, <1>4, <1>5, <1>6 DEF m, n, u

LEMMA SendNowhere ==
  ASSUME DeclInv, NEW c \in Cursors, SendStep(c), ~ zhe_out_conduit_is_connected(c)
  PROVE  DeclInv'
<1> USE DEF DeclInv
<1>1. c = MULTICAST /\ Listening = {}
  BY DEF zhe_out_conduit_is_connected, SendStep, Scheduled
<1>2. Sent(c) = <<>> /\ Gone(c)
      /\ cursor' \in [Cursors -> [ToSet(Kinds) -> 0 .. INVALID]]
  BY CursorIs
<1>3. uni' = uni /\ \A p \in Peers : multi'[p] = multi[p]
  BY <1>1 DEF SendStep, Transmit
<1>4. Tables'
  <2>1. multi' = [p \in Peers |-> IF p \in Listening THEN multi[p] \o Sent(c) ELSE multi[p]]
    BY <1>1 DEF SendStep, Transmit
  <2>2. multi' \in [Peers -> Seq(MultiMsg)]
    BY <1>1, <2>1 DEF Tables
  <2> QED
    BY <1>2, <1>3, <2>2 DEF SendStep, Tables
<1>5. Scheduled'
  BY DEF SendStep
<1>6. waiting \subseteq waiting' /\ waiting' \subseteq established
  BY DEF SendStep, Sessions
<1>7. Sessions'
  BY <1>6 DEF SendStep, Sessions
<1>8. Fit'
  BY <1>3 DEF Fit
<1>9. Transactions'
  <2> SUFFICES ASSUME NEW q \in Peers PROVE Transaction(q)'
    BY DEF Transactions
  <2>1. results'[q] = results[q] /\ multi'[q] = multi[q] /\ (q \in waiting => q \in waiting')
    BY <1>3, <1>6 DEF SendStep
  <2> QED
    BY <2>1, TransactionKept DEF Transactions
<1>10. NothingLost'
  BY <1>1 DEF NothingLost, SendStep, Listening, Able
<1>11. NoErrors'
  BY DEF NoErrors, SendStep
<1> QED
  BY <1>4, <1>5, <1>7, <1>8, <1>9, <1>10, <1>11

LEMMA SendToPeer ==
  ASSUME DeclInv, NEW c \in Peers, SendStep(c), zhe_out_conduit_is_connected(c)
  PROVE  DeclInv'
<1> DEFINE out == send_declare(c)
<1> USE DEF DeclInv
<1>1. c \in Cursors /\ c # MULTICAST
  BY ConstantsAre
<1>2. /\ cursor' \in [Cursors -> [ToSet(Kinds) -> 0 .. INVALID]]
      /\ \A b \in Cursors \ {c} : cursor'[b] = cursor[b]
      /\ zhe_send_declares1(c).out = out /\ OutOK(c, out)
  BY <1>1, CursorIs
<1>3. Sent(c) = out
  BY <1>1, <1>2 DEF Sent, Committing
<1>4. out \in Seq(DeclMsg)
  BY <1>2 DEF OutOK
<1>5. uni' = [uni EXCEPT ![c] = uni[c] \o out] /\ multi' = multi
  BY <1>1, <1>3 DEF SendStep, Transmit
<1>6. waiting' = waiting /\ items' = items /\ status' = status /\ established' = established
      /\ sessions' = sessions /\ results' = results /\ table' = table
  BY <1>1 DEF SendStep
<1>7. uni[c] \in Seq(DeclMsg)
  BY DEF Tables
<1> DEFINE u == uni[c] \o out
<1>8. uni'[c] = u /\ \A q \in Peers \ {c} : uni'[q] = uni[q]
  BY <1>5 DEF Tables
<1>9. /\ u \in Seq(DeclMsg) /\ Len(u) = Len(uni[c]) + Len(out)
      /\ DOMAIN uni[c] = 1 .. Len(uni[c]) /\ DOMAIN u = 1 .. Len(uni[c]) + Len(out)
      /\ \A k \in 1 .. Len(uni[c]) : k \in 1 .. Len(uni[c]) + Len(out) /\ u[k] = uni[c][k]
      /\ \A k \in 1 .. Len(out) : Len(uni[c]) + k \in 1 .. Len(uni[c]) + Len(out) /\ u[Len(uni[c]) + k] = out[k]
  BY <1>4, <1>7, Behind
<1> HIDE DEF u, out
<1>10. Tables'
  <2>1. uni' \in [Peers -> Seq(DeclMsg)]
    BY <1>5, <1>9 DEF Tables, u
  <2> QED
    BY <1>2, <1>5, <1>6, <2>1 DEF Tables
<1>11. Scheduled'
  BY DEF SendStep
<1>12. Sessions' /\ NoErrors'
  BY <1>6 DEF Sessions, NoErrors
<1>13. Fit'
  <2> SUFFICES ASSUME NEW q \in Peers PROVE Len(uni'[q]) <= Window /\ Len(multi'[q]) <= Window
    BY DEF Fit
  <2>1. CASE q = c
    <3>1. CASE out = <<>>
      <4>1. Len(u) = Len(uni[c])
        BY <1>7, <1>9, <3>1, LenProperties
      <4> QED
        BY <1>5, <1>8, <2>1, <4>1 DEF Fit
    <3>2. CASE out # <<>>
      <4>1. Backlog(c) = Len(uni[c])
        BY <1>1, BacklogIs
      <4>2. Len(u) <= Window
        BY <1>2, <1>9, <3>2, <4>1 DEF OutOK
      <4> QED
        BY <1>5, <1>8, <2>1, <4>2 DEF Fit
    <3> QED
      BY <3>1, <3>2
  <2>2. CASE q # c
    BY <1>5, <1>8, <2>2 DEF Fit
  <2> QED
    BY <2>1, <2>2
<1>14. Transactions'
  BY <1>5, <1>6, TransactionKept DEF Transactions
<1>15. ToSet(pend') = IF Gone(c) THEN ToSet(pend) \ {c} ELSE ToSet(pend)
  BY DEF SendStep
<1>16. NothingLost'
  <2> SUFFICES ASSUME NEW q \in established \cap Able, NEW d \in Item, d[2] \in items[d[1]]
               PROVE  Covered(q, d)'
    BY <1>6 DEF NothingLost
  <2>1. Covered(q, d) /\ q \in Peers /\ q \in Cursors
    BY ConstantsAre DEF NothingLost, Able
  <2>2. MULTICAST \in ToSet(pend) => MULTICAST \in ToSet(pend')
    BY <1>1, <1>15
  <2>3. ToDo(MULTICAST, d) => ToDo(MULTICAST, d)'
    BY <1>1, <1>2, <2>2, ConstantsAre DEF ToDo
  <2>4. CASE q # c
    <3>1. ToDo(q, d) => ToDo(q, d)'
      BY <1>2, <1>15, <2>1, <2>4 DEF ToDo
    <3>2. table'[q] = table[q] /\ uni'[q] = uni[q] /\ multi'[q] = multi[q]
      BY <1>5, <1>6, <1>8, <2>1, <2>4
    <3> QED
      BY <2>1, <2>2, <2>3, <3>1, <3>2, CoveredKept
  <2>5. CASE q = c
    <3>1. \A k : CommitComes(c, k) => CommitComes(c, k)'
      BY <1>5, <2>2 DEF CommitComes, IsCommit
    <3>2. Noted(c, d) => Noted(c, d)'
      BY <1>6, <3>1 DEF Noted
    <3>3. OnMulti(c, d) => OnMulti(c, d)'
      BY <1>5, <3>1 DEF OnMulti
    <3>4. OnUni(c, d) => OnUni(c, d)'
      <4> SUFFICES ASSUME NEW k \in DOMAIN uni[c], Is(uni[c][k], d) PROVE OnUni(c, d)'
        BY DEF OnUni
      <4>1. k \in DOMAIN uni'[c] /\ uni'[c][k] = uni[c][k]
        BY <1>8, <1>9
      <4> QED
        BY <4>1 DEF OnUni, Is
    <3>5. ToDo(c, d) => ToDo(c, d)' \/ OnUni(c, d)'
      <4> SUFFICES ASSUME ToDo(c, d), NEW k \in 1 .. Len(out), Is(out[k], d) PROVE OnUni(c, d)'
        BY <1>1, StillToDo DEF out
      <4>1. Len(uni[c]) + k \in DOMAIN uni'[c] /\ uni'[c][Len(uni[c]) + k] = out[k]
        BY <1>8, <1>9
      <4> QED
        BY <4>1 DEF OnUni, Is
    <3>6. d \in table[c].known => d \in table'[c].known
      BY <1>6
    <3> QED
      BY <2>1, <2>3, <2>5, <3>2, <3>3, <3>4, <3>5, <3>6 DEF Covered
  <2> QED
    BY <2>4, <2>5
<1> QED
  BY <1>10, <1>11, <1>12, <1>13, <1>14, <1>16

LEMMA SendToAll ==
  ASSUME DeclInv, SendStep(MULTICAST), zhe_out_conduit_is_connected(MULTICAST)
  PROVE  DeclInv'
<1> DEFINE c == MULTICAST
           out == send_declare(c)
           sent == Sent(c)
<1> USE DEF DeclInv
<1>1. c \in Cursors /\ c \notin Peers
  BY ConstantsAre
<1>2. /\ cursor' \in [Cursors -> [ToSet(Kinds) -> 0 .. INVALID]]
      /\ \A b \in Cursors \ {c} : cursor'[b] = cursor[b]
      /\ zhe_send_declares1(c).oc
      /\ zhe_send_declares1(c).out = out /\ OutOK(c, out)
      /\ zhe_send_declares1(c).done = AllDone(cursor[c])
  BY <1>1, CursorIs
<1>3. out \in Seq(DeclMsg) /\ Len(out) \in Nat /\ out \in Seq(MultiMsg)
  BY <1>2, LenProperties DEF OutOK, MultiMsg
<1>4. sent = IF Gone(c) THEN Append(out, Commit) ELSE out
  BY <1>2 DEF Sent, Gone, Committing, Room1
<1>5. Commit \in MultiMsg
  BY DEF MultiMsg
<1>6. sent \in Seq(MultiMsg) /\ Len(sent) = Len(out) + (IF Gone(c) THEN 1 ELSE 0)
      /\ \A k \in 1 .. Len(out) : k \in 1 .. Len(sent) /\ sent[k] = out[k]
  <2>1. CASE Gone(c)
    <3>1. /\ Append(out, Commit) \in Seq(MultiMsg) /\ Len(Append(out, Commit)) = Len(out) + 1
          /\ \A k \in 1 .. Len(out) : Append(out, Commit)[k] = out[k]
      BY <1>3, <1>5, AppendProperties
    <3> QED
      BY <1>3, <1>4, <2>1, <3>1
  <2>2. CASE ~Gone(c)
    BY <1>3, <1>4, <2>2
  <2> QED
    BY <2>1, <2>2
<1>7. \A k \in 1 .. Len(sent) : sent[k] = Commit <=> (Gone(c) /\ k = Len(sent))
  <2>1. \A k \in 1 .. Len(out) : sent[k] # Commit
    <3>1. \A k \in 1 .. Len(out) : out[k] \in DeclMsg
      BY <1>3
    <3> QED
      BY <1>6, <3>1, CommitIsNone
  <2>2. CASE Gone(c)
    <3>1. sent[Len(sent)] = Commit
      BY <1>3, <1>4, <1>5, <1>6, <2>2, AppendProperties
    <3>2. \A k \in 1 .. Len(sent) : k = Len(sent) \/ k \in 1 .. Len(out)
      BY <1>3, <1>6, <2>2
    <3>3. \A k \in 1 .. Len(out) : k # Len(sent)
      BY <1>3, <1>6, <2>2
    <3> QED
      BY <2>1, <2>2, <3>1, <3>2, <3>3
  <2>3. CASE ~Gone(c)
    BY <1>4, <2>1, <2>3
  <2> QED
    BY <2>2, <2>3
<1> DEFINE u(q) == multi[q] \o sent
<1>8. multi' = [q \in Peers |-> IF q \in Listening THEN u(q) ELSE multi[q]] /\ uni' = uni
  BY DEF SendStep, Transmit
<1>9. /\ waiting = {} /\ items' = items /\ status' = status /\ established' = established
      /\ sessions' = sessions /\ results' = results /\ table' = table
      /\ waiting' = IF Gone(c) THEN established ELSE {}
  BY DEF SendStep
<1>10. \A q \in Peers :
      /\ u(q) \in Seq(MultiMsg) /\ Len(u(q)) = Len(multi[q]) + Len(sent)
      /\ Len(multi[q]) \in Nat /\ Len(sent) \in Nat
      /\ DOMAIN multi[q] = 1 .. Len(multi[q]) /\ DOMAIN u(q) = 1 .. Len(multi[q]) + Len(sent)
      /\ \A k \in 1 .. Len(multi[q]) : k \in 1 .. Len(multi[q]) + Len(sent) /\ u(q)[k] = multi[q][k]
      /\ \A k \in 1 .. Len(sent) : Len(multi[q]) + k \in 1 .. Len(multi[q]) + Len(sent) /\ u(q)[Len(multi[q]) + k] = sent[k]
      /\ \A k \in 1 .. Len(multi[q]) + Len(sent) :
           k \in 1 .. Len(multi[q]) \/ (k - Len(multi[q]) \in 1 .. Len(sent) /\ u(q)[k] = sent[k - Len(multi[q])])
  <2> SUFFICES ASSUME NEW q \in Peers
               PROVE  /\ u(q) \in Seq(MultiMsg) /\ Len(u(q)) = Len(multi[q]) + Len(sent)
                      /\ Len(multi[q]) \in Nat /\ Len(sent) \in Nat
                      /\ DOMAIN multi[q] = 1 .. Len(multi[q]) /\ DOMAIN u(q) = 1 .. Len(multi[q]) + Len(sent)
                      /\ \A k \in 1 .. Len(multi[q]) : k \in 1 .. Len(multi[q]) + Len(sent) /\ u(q)[k] = multi[q][k]
                      /\ \A k \in 1 .. Len(sent) : Len(multi[q]) + k \in 1 .. Len(multi[q]) + Len(sent) /\ u(q)[Len(multi[q]) + k] = sent[k]
                      /\ \A k \in 1 .. Len(multi[q]) + Len(sent) :
                           k \in 1 .. Len(multi[q]) \/ (k - Len(multi[q]) \in 1 .. Len(sent) /\ u(q)[k] = sent[k - Len(multi[q])])
    OBVIOUS
  <2>1. multi[q] \in Seq(MultiMsg)
    BY DEF Tables
  <2>2. sent \in Seq(MultiMsg)
    BY <1>6
  <2> HIDE DEF sent
  <2> QED
    BY <2>1, <2>2, Behind
<1> HIDE DEF out, sent, u
<1>11. Tables'
  <2>1. multi' \in [Peers -> Seq(MultiMsg)]
    BY <1>8, <1>10 DEF Tables
  <2> QED
    BY <1>2, <1>8, <1>9, <2>1 DEF Tables
<1>12. Scheduled' /\ ToSet(pend') = IF Gone(c) THEN ToSet(pend) \ {c} ELSE ToSet(pend)
  BY DEF SendStep
<1>13. Sessions' /\ NoErrors'
  BY <1>9 DEF Sessions, NoErrors
<1>14. Fit'
  <2>1. Backlog(c) \in Nat /\ \A q \in Listening : Len(multi[q]) <= Backlog(c)
    BY <1>1, BacklogIs
  <2>2. Len(sent) = 0 \/ Backlog(c) + Len(sent) <= Window
    <3>1. CASE Gone(c)
      <4>1. HasRoom(c, Len(out))
        BY <1>2, <3>1 DEF Gone, Committing, Room1
      <4> HIDE DEF c
      <4> QED
        BY <1>3, <1>6, <2>1, <3>1, <4>1, ConstantsAre DEF HasRoom
    <3>2. CASE ~Gone(c)
      <4>1. out = <<>> => Len(sent) = 0
        BY <1>4, <3>2
      <4>2. sent = out
        BY <1>4, <3>2
      <4> QED
        BY <1>2, <4>1, <4>2 DEF OutOK
    <3> QED
      BY <3>1, <3>2
  <2> SUFFICES ASSUME NEW q \in Peers PROVE Len(uni'[q]) <= Window /\ Len(multi'[q]) <= Window
    BY DEF Fit
  <2>3. CASE q \in Listening
    <3>1. Len(multi'[q]) = Len(multi[q]) + Len(sent) /\ Len(multi[q]) \in Nat /\ Len(sent) \in Nat
      BY <1>8, <1>10, <2>3
    <3>2. Len(multi[q]) <= Window /\ Len(uni[q]) <= Window /\ Len(multi[q]) <= Backlog(c)
      BY <2>1, <2>3 DEF Fit
    <3>3. Len(multi'[q]) <= Window
      BY <2>1, <2>2, <3>1, <3>2, ConstantsAre
    <3> QED
      BY <1>8, <3>2, <3>3
  <2>4. CASE q \notin Listening
    BY <1>8, <2>4 DEF Fit
  <2> QED
    BY <2>3, <2>4
<1>15. Transactions'
  <2> SUFFICES ASSUME NEW q \in Peers PROVE Transaction(q)'
    BY DEF Transactions
  <2>1. Transaction(q)
    BY DEF Transactions
  <2>2. results'[q] = <<>> /\ \A k \in DOMAIN multi[q] : ~ IsCommit(q, k)
    BY <1>9, <2>1 DEF Transaction
  <2>3. CASE q \in Listening
    <3>1. q \in established
      BY <2>3 DEF Listening
    <3>2. multi'[q] = u(q)
      BY <1>8, <2>3
    <3>3. \A k \in DOMAIN multi'[q] : IsCommit(q, k)' => Gone(c) /\ k = Len(multi[q]) + Len(sent)
      <4> SUFFICES ASSUME NEW k \in 1 .. Len(multi[q]) + Len(sent), u(q)[k] = Commit
                   PROVE  Gone(c) /\ k = Len(multi[q]) + Len(sent)
        BY <1>10, <3>2 DEF IsCommit
      <4>1. k \notin 1 .. Len(multi[q])
        BY <1>10, <2>2 DEF IsCommit
      <4>2. k - Len(multi[q]) \in 1 .. Len(sent) /\ u(q)[k] = sent[k - Len(multi[q])]
        BY <1>10, <4>1
      <4>3. Gone(c) /\ k - Len(multi[q]) = Len(sent)
        BY <1>7, <4>2
      <4>4. Len(multi[q]) \in Nat /\ Len(sent) \in Nat
        BY <1>10
      <4> QED
        BY <4>3, <4>4
    <3>4. \A k \in DOMAIN multi'[q] : IsCommit(q, k)' => q \in waiting'
      BY <1>9, <3>1, <3>3
    <3> QED
      BY <2>2, <3>3, <3>4 DEF Transaction
  <2>4. CASE q \notin Listening
    <3>1. multi'[q] = multi[q]
      BY <1>8, <2>4
    <3> QED
      BY <2>2, <3>1 DEF Transaction, IsCommit
  <2> QED
    BY <2>3, <2>4
<1>16. NothingLost'
  <2> SUFFICES ASSUME NEW q \in established \cap Able, NEW d \in Item, d[2] \in items[d[1]]
               PROVE  Covered(q, d)'
    BY <1>9 DEF NothingLost
  <2>1. Covered(q, d) /\ q \in Peers /\ q \in Cursors /\ q # c
    BY <1>1, ConstantsAre DEF NothingLost, Able
  <2>2. q \in Listening /\ multi'[q] = u(q)
    BY <1>8, <2>1 DEF Listening, Able
  <2>3. \A k \in 0 .. Len(multi[q]) : CommitComes(q, k)'
    <3> SUFFICES ASSUME NEW k \in 0 .. Len(multi[q]) PROVE CommitComes(q, k)'
      OBVIOUS
    <3>1. CASE Gone(c)
      <4> DEFINE j == Len(multi[q]) + Len(sent)
      <4>1. Len(sent) \in Nat /\ Len(sent) > 0 /\ Len(multi[q]) \in Nat
        BY <1>3, <1>6, <3>1
           , <1>10, <2>1
      <4>2. Len(sent) \in 1 .. Len(sent) /\ sent[Len(sent)] = Commit
        BY <1>7, <3>1, <4>1
      <4>3. j \in DOMAIN u(q) /\ u(q)[j] = Commit
        BY <1>10, <2>1, <4>2
      <4>4. j > k
        BY <4>1
      <4> QED
        BY <2>2, <4>3, <4>4 DEF CommitComes, IsCommit
    <3>2. CASE ~Gone(c)
      <4>1. CASE MULTICAST \in ToSet(pend)
        BY <1>12, <3>2, <4>1 DEF CommitComes
      <4>2. MULTICAST \in ToSet(pend)
        BY DEF SendStep
      <4> QED
        BY <4>1, <4>2
    <3> QED
      BY <3>1, <3>2
  <2>4. CASE d \in table[q].known
    BY <1>9, <2>4 DEF Covered
  <2>5. CASE OnUni(q, d)
    BY <1>8, <2>5 DEF Covered, OnUni
  <2>6. CASE ToDo(q, d)
    <3>1. ToDo(q, d)'
      BY <1>2, <1>12, <2>1, <2>6 DEF ToDo
    <3> QED
      BY <3>1 DEF Covered
  <2>7. CASE ToDo(MULTICAST, d)
    <3>1. /\ ~ Gone(c)
          /\ ToDo(c, d)' \/ \E k \in 1 .. Len(out) : Is(out[k], d)
      BY <1>1, <2>7, StillToDo DEF out
    <3>2. ASSUME NEW k \in 1 .. Len(out), Is(out[k], d) PROVE OnMulti(q, d)'
      <4>1. k \in 1 .. Len(sent) /\ sent[k] = out[k]
        BY <1>6
      <4>2. Len(multi[q]) + k \in DOMAIN u(q) /\ u(q)[Len(multi[q]) + k] = out[k]
        BY <1>10, <2>1, <4>1
      <4>3. PICK K \in Int : K = Len(multi[q]) + k
        BY <1>10, <2>1
      <4>4. K \in DOMAIN multi'[q] /\ multi'[q][K] = out[k]
        BY <2>2, <4>2, <4>3
      <4>5. Is(multi'[q][K], d)
        BY <3>2, <4>4 DEF Is
      <4>6. CommitComes(q, K)'
        <5>1. MULTICAST \in ToSet(pend')
          BY <1>12, <3>1 DEF SendStep
        <5> QED
          BY <5>1 DEF CommitComes
      <4> QED
        BY <4>4, <4>5, <4>6 DEF OnMulti
    <3> QED
      BY <3>1, <3>2 DEF Covered
  <2>8. CASE Noted(q, d)
    <3>1. 0 \in 0 .. Len(multi[q])
      BY <1>10, <2>1
    <3> QED
      BY <1>9, <2>3, <2>8, <3>1 DEF Covered, Noted
  <2>9. CASE OnMulti(q, d)
    <3>1. PICK k \in DOMAIN multi[q] : Is(multi[q][k], d)
      BY <2>9 DEF OnMulti
    <3>2. k \in 0 .. Len(multi[q]) /\ k \in DOMAIN u(q) /\ u(q)[k] = multi[q][k]
      BY <1>10, <2>1
    <3>3. CommitComes(q, k)'
      BY <2>3, <3>2
    <3> QED
      BY <2>2, <3>1, <3>2, <3>3 DEF Covered, OnMulti, Is
  <2> QED
    BY <2>1, <2>4, <2>5, <2>6, <2>7, <2>8, <2>9 DEF Covered
<1> QED
  BY <1>11, <1>12, <1>13, <1>14, <1>15, <1>16

LEMMA SendOK ==
  ASSUME DeclInv, zhe_send_declares
  PROVE  DeclInv'
<1>1. PICK c \in Cursors : SendStep(c)
  BY StepIs DEF DeclInv
<1>2. CASE ~ zhe_out_conduit_is_connected(c)
  BY <1>1, <1>2, SendNowhere
<1>3. CASE zhe_out_conduit_is_connected(c) /\ c \in Peers
  BY <1>1, <1>3, SendToPeer
<1>4. CASE zhe_out_conduit_is_connected(c) /\ c = MULTICAST
  BY <1>1, <1>4, SendToAll
<1> QED
  BY <1>2, <1>3, <1>4 DEF Cursors

-----------------------------------------------------------------------------
(* Room at a peer. *)

LEMMA WantedIsFinite == IsFiniteSet(Wanted) /\ Cardinality(Wanted) \in Nat
<1> DEFINE M == MAX_ITEMS["SUBSCRIPTION"]
           I == 0 .. M - 1
           f == [i \in I |-> <<"SUBSCRIPTION", i>>]
<1>1. M \in Nat
  BY KindsAre, ConstantsAre
<1>2. IsFiniteSet(I)
  BY <1>1, FS_Interval
<1>3. f \in Surjection(I, Wanted)
  BY DEF Surjection, Wanted
<1> QED
  BY <1>2, <1>3, FS_Surjection, FS_CardinalityType

LEMMA SubsAreWanted ==
  ASSUME NEW decls, decls \subseteq Item
  PROVE  Subs(decls) \subseteq Wanted
<1> SUFFICES ASSUME NEW d \in decls, d[1] = "SUBSCRIPTION" PROVE d \in Wanted
  BY DEF Subs
<1>1. d \in Real \X Nat /\ d[2] < MAX_ITEMS["SUBSCRIPTION"]
  BY DEF Item
<1>2. MAX_ITEMS["SUBSCRIPTION"] \in Nat
  BY KindsAre, ConstantsAre
<1>3. d = <<"SUBSCRIPTION", d[2]>> /\ d[2] \in 0 .. MAX_ITEMS["SUBSCRIPTION"] - 1
  BY <1>1, <1>2
<1> QED
  BY <1>3 DEF Wanted

LEMMA SubsFit ==
  ASSUME NEW q \in Able, NEW decls, decls \subseteq Item
  PROVE  /\ Cardinality(Subs(decls)) \in Nat
         /\ 2 * Cardinality(Subs(decls)) <= Room[q] /\ Room[q] \in Nat
         /\ \A d \in Item : ~ NoRoomFor(d, decls, q)
<1> DEFINE S == Subs(decls)
<1>1. S \subseteq Wanted
  BY SubsAreWanted
<1>2. IsFiniteSet(S) /\ Cardinality(S) \in Nat /\ Cardinality(S) <= Cardinality(Wanted)
  BY <1>1, WantedIsFinite, FS_Subset, FS_CardinalityType
<1>3. Cardinality(Wanted) \in Nat /\ 2 * Cardinality(Wanted) <= Room[q] /\ Room[q] \in Nat
  BY WantedIsFinite, DeclarationsAssumption DEF Able
<1>4. ASSUME NEW d \in Item, d[1] = "SUBSCRIPTION", d \notin decls PROVE Cardinality(S) # Room[q]
  <2>1. Subs(decls \cup {d}) = S \cup {d} /\ d \notin S
    BY <1>4 DEF Subs
  <2>2. S \cup {d} \subseteq Wanted
    BY <2>1, SubsAreWanted
  <2>3. Cardinality(S \cup {d}) <= Cardinality(Wanted)
    BY <2>2, WantedIsFinite, FS_Subset
  <2>4. Cardinality(S \cup {d}) = Cardinality(S) + 1
    BY <1>2, <2>1, FS_AddElement
  <2> HIDE DEF S
  <2> QED
    BY <1>2, <1>3, <2>3, <2>4
<1>5. \A d \in Item : ~ NoRoomFor(d, decls, q)
  BY <1>4 DEF NoRoomFor
<1>6. 2 * Cardinality(S) <= Room[q]
  <2> HIDE DEF S
  <2> QED
    BY <1>2, <1>3
<1> QED
  BY <1>2, <1>3, <1>5, <1>6

-----------------------------------------------------------------------------
(* The peers. *)

\* what is left when the first message has been taken
LEMMA TakenIs ==
  ASSUME NEW S, NEW s \in Seq(S), s # <<>>
  PROVE  /\ Head(s) \in S /\ Head(s) = s[1] /\ Tail(s) \in Seq(S)
         /\ Len(s) \in Nat /\ Len(s) >= 1 /\ Len(Tail(s)) = Len(s) - 1
         /\ DOMAIN s = 1 .. Len(s) /\ DOMAIN Tail(s) = 1 .. Len(s) - 1
         /\ \A k \in 1 .. Len(s) - 1 : k + 1 \in 1 .. Len(s) /\ Tail(s)[k] = s[k + 1]
         /\ \A k \in 1 .. Len(s) : k = 1 \/ (k - 1 \in 1 .. Len(s) - 1 /\ Tail(s)[k - 1] = s[k])
<1> DEFINE n == Len(s)
           t == Tail(s)
<1>1. /\ Head(s) \in S /\ Head(s) = s[1] /\ t \in Seq(S) /\ n \in Nat /\ n # 0
      /\ DOMAIN s = 1 .. n /\ Len(t) = n - 1
      /\ \A k \in 1 .. Len(t) : t[k] = s[k + 1]
  BY HeadTailProperties, LenProperties, EmptySeq
<1>2. DOMAIN t = 1 .. n - 1
  BY <1>1, LenProperties
<1> HIDE DEF n, t
<1>3. n >= 1
  BY <1>1
<1>4. \A k \in 1 .. n - 1 : k + 1 \in 1 .. n /\ t[k] = s[k + 1]
  BY <1>1
<1>5. \A k \in 1 .. n : k = 1 \/ (k - 1 \in 1 .. n - 1 /\ t[k - 1] = s[k])
  <2> SUFFICES ASSUME NEW k \in 1 .. n, k # 1 PROVE k - 1 \in 1 .. n - 1 /\ t[k - 1] = s[k]
    OBVIOUS
  <2>1. k - 1 \in 1 .. n - 1 /\ (k - 1) + 1 = k
    BY <1>1
  <2> QED
    BY <1>4, <2>1
<1> QED
  BY <1>1, <1>2, <1>3, <1>4, <1>5 DEF n, t

LEMMA CommittedOK ==
  ASSUME DeclInv, NEW p \in Peers, receive_committed(p)
  PROVE  DeclInv'
<1> DEFINE m == Head(uni[p])
           d0 == <<m.kind, m.i>>
           error == NoRoomFor(d0, table[p].known, p) \/ table[p].result # "OK"
<1>1. CASE error
  <2>1. Reset(p)
    BY <1>1 DEF receive_committed
  <2> QED
    BY <2>1, ResetOK
<1>2. CASE ~ error
  <2>1. /\ uni[p] # <<>>
        /\ uni' = [uni EXCEPT ![p] = Tail(@)]
        /\ table' = [table EXCEPT ![p].known = @ \cup {d0}]
        /\ established' = established /\ sessions' = sessions /\ multi' = multi /\ results' = results
        /\ items' = items /\ pend' = pend /\ pos' = pos /\ cursor' = cursor /\ waiting' = waiting /\ status' = status
    BY <1>2 DEF receive_committed, local
  <2> HIDE DEF error
  <2> USE DEF DeclInv
  <2>2. uni[p] \in Seq(DeclMsg) /\ table[p] \in Table
    BY DEF Tables
  <2>3. /\ m \in DeclMsg /\ m = uni[p][1] /\ Tail(uni[p]) \in Seq(DeclMsg)
        /\ Len(uni[p]) \in Nat /\ Len(uni[p]) >= 1 /\ Len(Tail(uni[p])) = Len(uni[p]) - 1
        /\ DOMAIN uni[p] = 1 .. Len(uni[p]) /\ DOMAIN Tail(uni[p]) = 1 .. Len(uni[p]) - 1
        /\ \A k \in 1 .. Len(uni[p]) : k = 1 \/ (k - 1 \in 1 .. Len(uni[p]) - 1 /\ Tail(uni[p])[k - 1] = uni[p][k])
    BY <2>1, <2>2, TakenIs
  <2>4. d0 \in Item
    BY <2>3, ItemOf
  <2> HIDE DEF d0
  <2>5. /\ uni'[p] = Tail(uni[p]) /\ uni' \in [Peers -> Seq(DeclMsg)]
        /\ \A q \in Peers \ {p} : uni'[q] = uni[q]
    BY <2>1, <2>3 DEF Tables
  <2>6. /\ table' \in [Peers -> Table]
        /\ table'[p].known = table[p].known \cup {d0}
        /\ table'[p].pre = table[p].pre /\ table'[p].result = table[p].result
        /\ \A q \in Peers \ {p} : table'[q] = table[q]
    BY <2>1, <2>2, <2>4 DEF Tables, Table
  <2>7. Tables'
    BY <2>1, <2>5, <2>6 DEF Tables
  <2>8. Sessions' /\ Scheduled'
    BY <2>1 DEF Sessions, Scheduled
  <2>9. Fit'
    <3> SUFFICES ASSUME NEW q \in Peers PROVE Len(uni'[q]) <= Window /\ Len(multi'[q]) <= Window
      BY DEF Fit
    <3>1. CASE q = p
      <4>1. Len(uni[p]) <= Window /\ Len(multi'[p]) <= Window
        BY <2>1 DEF Fit
      <4>2. Len(uni'[p]) = Len(uni[p]) - 1 /\ Len(uni[p]) \in Nat
        BY <2>3, <2>5
      <4> QED
        BY <3>1, <4>1, <4>2, ConstantsAre
    <3>2. CASE q # p
      BY <2>1, <2>5, <3>2 DEF Fit
    <3> QED
      BY <3>1, <3>2
  <2>10. Transactions'
    BY <2>1, TransactionKept DEF Transactions
  <2>11. NothingLost'
    <3> SUFFICES ASSUME NEW q \in established \cap Able, NEW d \in Item, d[2] \in items[d[1]]
                 PROVE  Covered(q, d)'
      BY <2>1 DEF NothingLost
    <3>1. Covered(q, d) /\ q \in Peers
      BY ConstantsAre DEF NothingLost, Able
    <3>2. (ToDo(q, d) => ToDo(q, d)') /\ (ToDo(MULTICAST, d) => ToDo(MULTICAST, d)')
      BY <2>1 DEF ToDo
    <3>3. CASE q # p
      <4>1. table'[q] = table[q] /\ uni'[q] = uni[q] /\ multi'[q] = multi[q]
        BY <2>1, <2>5, <2>6, <3>1, <3>3
      <4> QED
        BY <2>1, <3>1, <3>2, <4>1, CoveredKept
    <3>4. CASE q = p
      <4>1. \A k : CommitComes(p, k) => CommitComes(p, k)'
        BY <2>1 DEF CommitComes, IsCommit
      <4>2. Noted(p, d) => Noted(p, d)'
        BY <2>6, <4>1 DEF Noted
      <4>3. OnMulti(p, d) => OnMulti(p, d)'
        BY <2>1, <4>1 DEF OnMulti
      <4>4. OnUni(p, d) => OnUni(p, d)' \/ d \in table'[p].known
        <5> SUFFICES ASSUME NEW k \in 1 .. Len(uni[p]), Is(uni[p][k], d)
                     PROVE  OnUni(p, d)' \/ d \in table'[p].known
          BY <2>3 DEF OnUni
        <5>1. CASE k = 1
          <6>1. m.kind = d[1] /\ m.i = d[2]
            BY <2>3, <5>1 DEF Is
          <6>2. d = d0
            BY <6>1 DEF Item, d0
          <6> QED
            BY <2>6, <6>2
        <5>2. CASE k # 1
          <6>1. k - 1 \in DOMAIN uni'[p] /\ uni'[p][k - 1] = uni[p][k]
            BY <2>3, <2>5, <5>2
          <6> QED
            BY <6>1 DEF OnUni, Is
        <5> QED
          BY <5>1, <5>2
      <4>5. d \in table[p].known => d \in table'[p].known
        BY <2>6
      <4> QED
        BY <3>1, <3>2, <3>4, <4>2, <4>3, <4>4, <4>5 DEF Covered
    <3> QED
      BY <3>3, <3>4
  <2>12. NoErrors'
    <3>1. \A q \in Able : q \in Peers /\ table'[q].result = table[q].result
      BY <2>6, ConstantsAre DEF Able
    <3> QED
      BY <3>1 DEF NoErrors
  <2> QED
    BY <2>7, <2>8, <2>9, <2>10, <2>11, <2>12
<1> QED
  BY <1>1, <1>2

\* Both kinds of message on the multicast conduit: the queue gets shorter.
LEMMA MultiTaken ==
  ASSUME DeclInv, NEW p \in Peers, multi[p] # <<>>, multi' = [multi EXCEPT ![p] = Tail(@)], uni' = uni
  PROVE  /\ Head(multi[p]) \in MultiMsg /\ Head(multi[p]) = multi[p][1] /\ 1 \in DOMAIN multi[p]
         /\ multi' \in [Peers -> Seq(MultiMsg)]
         /\ \A q \in Peers \ {p} : multi'[q] = multi[q]
         /\ \A k \in DOMAIN multi[p] : k \in Nat /\ k >= 1
         /\ \A k \in DOMAIN multi'[p] :
              k \in Nat /\ k + 1 \in DOMAIN multi[p] /\ multi'[p][k] = multi[p][k + 1]
         /\ \A k \in DOMAIN multi[p] : k = 1 \/ (k - 1 \in DOMAIN multi'[p] /\ multi'[p][k - 1] = multi[p][k])
         /\ Fit'
<1>1. multi[p] \in Seq(MultiMsg)
  BY DEF DeclInv, Tables
<1> DEFINE n == Len(multi[p])
<1>2. /\ Head(multi[p]) \in MultiMsg /\ Head(multi[p]) = multi[p][1] /\ Tail(multi[p]) \in Seq(MultiMsg)
      /\ n \in Nat /\ n >= 1 /\ Len(Tail(multi[p])) = n - 1
      /\ DOMAIN multi[p] = 1 .. n /\ DOMAIN Tail(multi[p]) = 1 .. n - 1
      /\ \A k \in 1 .. n - 1 : k + 1 \in 1 .. n /\ Tail(multi[p])[k] = multi[p][k + 1]
      /\ \A k \in 1 .. n : k = 1 \/ (k - 1 \in 1 .. n - 1 /\ Tail(multi[p])[k - 1] = multi[p][k])
  BY <1>1, TakenIs
<1>3. /\ multi'[p] = Tail(multi[p]) /\ multi' \in [Peers -> Seq(MultiMsg)]
      /\ \A q \in Peers \ {p} : multi'[q] = multi[q]
  BY <1>2 DEF DeclInv, Tables
<1>4. Fit'
  <2> SUFFICES ASSUME NEW q \in Peers PROVE Len(uni'[q]) <= Window /\ Len(multi'[q]) <= Window
    BY DEF Fit
  <2>1. Len(multi[q]) <= Window /\ Len(uni'[q]) <= Window
    BY DEF DeclInv, Fit
  <2>2. CASE q = p
    <3> HIDE DEF n
    <3>1. Len(multi'[q]) = n - 1 /\ n <= Window
      BY <1>2, <1>3, <2>1, <2>2 DEF n
    <3> QED
      BY <1>2, <2>1, <3>1, ConstantsAre
  <2>3. CASE q # p
    BY <1>3, <2>1, <2>3
  <2> QED
    BY <2>2, <2>3
<1> HIDE DEF n
<1>5. 1 \in 1 .. n /\ \A k \in 1 .. n : k \in Nat /\ k >= 1
  BY <1>2
<1>6. \A k \in 1 .. n - 1 : k \in Nat
  BY <1>2
<1> QED
  BY <1>2, <1>3, <1>4, <1>5, <1>6

LEMMA TentativeOK ==
  ASSUME DeclInv, NEW p \in Peers, receive_tentative(p)
  PROVE  DeclInv'
<1> DEFINE m == Head(multi[p])
           d0 == <<m.kind, m.i>>
           t == table[p]
           nt == IF NoRoomFor(d0, t.pre, p) THEN [t EXCEPT !.result = IF @ = "OK" THEN "NOSPACE" ELSE @]
                                            ELSE [t EXCEPT !.pre = @ \cup {d0}]
<1>1. /\ multi[p] # <<>> /\ m # Commit
      /\ multi' = [multi EXCEPT ![p] = Tail(@)]
      /\ table' = [table EXCEPT ![p] = nt]
      /\ established' = established /\ sessions' = sessions /\ uni' = uni /\ results' = results
      /\ items' = items /\ pend' = pend /\ pos' = pos /\ cursor' = cursor /\ waiting' = waiting /\ status' = status
  BY DEF receive_tentative, local
<1>2. /\ m \in MultiMsg /\ m = multi[p][1]
      /\ multi' \in [Peers -> Seq(MultiMsg)]
      /\ \A q \in Peers \ {p} : multi'[q] = multi[q]
      /\ \A k \in DOMAIN multi[p] : k \in Nat /\ k >= 1
      /\ \A k \in DOMAIN multi'[p] :
           k \in Nat /\ k + 1 \in DOMAIN multi[p] /\ multi'[p][k] = multi[p][k + 1]
      /\ \A k \in DOMAIN multi[p] : k = 1 \/ (k - 1 \in DOMAIN multi'[p] /\ multi'[p][k - 1] = multi[p][k])
      /\ Fit'
  BY <1>1, MultiTaken
<1> USE DEF DeclInv
<1>3. m \in DeclMsg
  BY <1>1, <1>2 DEF MultiMsg
<1>4. d0 \in Item
  BY <1>3, ItemOf
<1>5. t \in Table
  BY DEF Tables
<1> HIDE DEF d0
<1>6. /\ nt \in Table /\ nt.known = t.known
      /\ t.pre \subseteq nt.pre
      /\ ~ NoRoomFor(d0, t.pre, p) => nt.result = t.result /\ d0 \in nt.pre
  <2>1. CASE NoRoomFor(d0, t.pre, p)
    <3>1. nt = [t EXCEPT !.result = IF t.result = "OK" THEN "NOSPACE" ELSE t.result]
      BY <2>1
    <3> HIDE DEF nt
    <3> QED
      BY <1>5, <2>1, <3>1 DEF Table, Outcomes
  <2>2. CASE ~ NoRoomFor(d0, t.pre, p)
    <3>1. nt = [t EXCEPT !.pre = t.pre \cup {d0}]
      BY <2>2
    <3> HIDE DEF nt
    <3> QED
      BY <1>4, <1>5, <2>2, <3>1 DEF Table, Outcomes
  <2> QED
    BY <2>1, <2>2
<1> HIDE DEF nt
<1>7. table' \in [Peers -> Table] /\ table'[p] = nt /\ \A q \in Peers \ {p} : table'[q] = table[q]
  BY <1>1, <1>6 DEF Tables
<1>8. p \in Able => ~ NoRoomFor(d0, t.pre, p)
  BY <1>4, <1>5, SubsFit DEF Table
<1>9. Tables'
  BY <1>1, <1>2, <1>7 DEF Tables
<1>10. Sessions' /\ Scheduled'
  BY <1>1 DEF Sessions, Scheduled
<1>11. Transactions'
  <2> SUFFICES ASSUME NEW q \in Peers PROVE Transaction(q)'
    BY DEF Transactions
  <2>1. Transaction(q)
    BY DEF Transactions
  <2>2. CASE q = p
    <3>1. \A k \in DOMAIN multi'[p] : IsCommit(p, k)' => IsCommit(p, k + 1) /\ k + 1 \in DOMAIN multi[p]
      BY <1>2 DEF IsCommit
    <3>2. \A j, k \in DOMAIN multi'[p] : IsCommit(p, j)' /\ IsCommit(p, k)' => j = k
      <4> SUFFICES ASSUME NEW j \in DOMAIN multi'[p], NEW k \in DOMAIN multi'[p], IsCommit(p, j)', IsCommit(p, k)'
                   PROVE  j = k
        OBVIOUS
      <4>1. j + 1 = k + 1
        BY <2>1, <2>2, <3>1 DEF Transaction
      <4>2. j \in Nat /\ k \in Nat
        BY <1>2
      <4> QED
        BY <4>1, <4>2
    <3>3. \A k \in DOMAIN multi'[p] : IsCommit(p, k)' => results'[p] = <<>> /\ p \in waiting'
      BY <1>1, <2>1, <2>2, <3>1 DEF Transaction
    <3> QED
      BY <1>1, <2>1, <2>2, <3>2, <3>3 DEF Transaction
  <2>3. CASE q # p
    BY <1>1, <1>2, <2>1, <2>3, TransactionKept
  <2> QED
    BY <2>2, <2>3
<1>12. NothingLost'
  <2> SUFFICES ASSUME NEW q \in established \cap Able, NEW d \in Item, d[2] \in items[d[1]]
               PROVE  Covered(q, d)'
    BY <1>1 DEF NothingLost
  <2>1. Covered(q, d) /\ q \in Peers
    BY ConstantsAre DEF NothingLost, Able
  <2>2. (ToDo(q, d) => ToDo(q, d)') /\ (ToDo(MULTICAST, d) => ToDo(MULTICAST, d)')
    BY <1>1 DEF ToDo
  <2>3. CASE q # p
    <3>1. table'[q] = table[q] /\ uni'[q] = uni[q] /\ multi'[q] = multi[q]
      BY <1>1, <1>2, <1>7, <2>1, <2>3
    <3> QED
      BY <1>1, <2>1, <2>2, <3>1, CoveredKept
  <2>4. CASE q = p
    <3>1. nt.known = t.known /\ t.pre \subseteq nt.pre /\ d0 \in nt.pre
      BY <1>6, <1>8, <2>4
    <3>2. \A k \in Nat : k >= 1 /\ CommitComes(p, k) => CommitComes(p, k - 1)'
      <4> SUFFICES ASSUME NEW k \in Nat, k >= 1, NEW j \in DOMAIN multi[p], j > k, IsCommit(p, j)
                   PROVE  CommitComes(p, k - 1)'
        BY <1>1 DEF CommitComes
      <4>1. j - 1 \in DOMAIN multi'[p] /\ multi'[p][j - 1] = multi[p][j]
        BY <1>2
      <4>2. j - 1 > k - 1
        BY <1>2
      <4>3. PICK j1 \in Int : j1 = j - 1
        BY <1>2
      <4>4. j1 \in DOMAIN multi'[p] /\ j1 > k - 1 /\ IsCommit(p, j1)'
        BY <4>1, <4>2, <4>3 DEF IsCommit
      <4> QED
        BY <4>4 DEF CommitComes
    <3>3. CommitComes(p, 0) => CommitComes(p, 0)'
      <4> SUFFICES ASSUME NEW j \in DOMAIN multi[p], IsCommit(p, j)
                   PROVE  CommitComes(p, 0)'
        BY <1>1 DEF CommitComes
      <4>1. j # 1
        BY <1>1, <1>2 DEF IsCommit
      <4>2. PICK j1 \in Int : j1 = j - 1
        BY <1>2
      <4>3. j1 \in DOMAIN multi'[p] /\ multi'[p][j1] = multi[p][j]
        BY <1>2, <4>1, <4>2
      <4>4. j1 > 0
        BY <1>2, <4>1, <4>2
      <4>5. IsCommit(p, j1)'
        BY <4>3 DEF IsCommit
      <4> QED
        BY <4>3, <4>4, <4>5 DEF CommitComes
    <3>4. Noted(p, d) => Noted(p, d)'
      BY <1>7, <3>1, <3>3 DEF Noted
    <3>5. OnMulti(p, d) => OnMulti(p, d)' \/ Noted(p, d)'
      <4> SUFFICES ASSUME NEW k \in DOMAIN multi[p], Is(multi[p][k], d), CommitComes(p, k)
                   PROVE  OnMulti(p, d)' \/ Noted(p, d)'
        BY DEF OnMulti
      <4>1. k \in Nat /\ k >= 1
        BY <1>2
      <4>2. CASE k = 1
        <5>1. m.kind = d[1] /\ m.i = d[2]
          BY <1>2, <4>2 DEF Is
        <5>2. d = d0
          BY <5>1 DEF Item, d0
        <5>3. CommitComes(p, 0)'
          BY <3>2, <4>1, <4>2
        <5> QED
          BY <1>7, <3>1, <5>2, <5>3 DEF Noted
      <4>3. CASE k # 1
        <5>1. PICK k1 \in Int : k1 = k - 1
          BY <4>1
        <5>2. k1 \in DOMAIN multi'[p] /\ multi'[p][k1] = multi[p][k]
          BY <1>2, <4>3, <5>1
        <5>3. CommitComes(p, k1)'
          BY <3>2, <4>1, <5>1
        <5>4. Is(multi'[p][k1], d)
          BY <5>2 DEF Is
        <5> QED
          BY <5>2, <5>3, <5>4 DEF OnMulti
      <4> QED
        BY <4>2, <4>3
    <3>6. (d \in table[p].known => d \in table'[p].known) /\ (OnUni(p, d) => OnUni(p, d)')
      BY <1>1, <1>7, <3>1 DEF OnUni
    <3> QED
      BY <2>1, <2>2, <2>4, <3>4, <3>5, <3>6 DEF Covered
  <2> QED
    BY <2>3, <2>4
<1>13. NoErrors'
  <2> SUFFICES ASSUME NEW q \in Able PROVE table'[q].result = "OK"
    BY DEF NoErrors
  <2>1. q \in Peers /\ table[q].result = "OK"
    BY ConstantsAre DEF Able, NoErrors
  <2>2. CASE q = p
    BY <1>6, <1>7, <1>8, <2>1, <2>2
  <2>3. CASE q # p
    BY <1>7, <2>1, <2>3
  <2> QED
    BY <2>2, <2>3
<1> QED
  BY <1>2, <1>9, <1>10, <1>11, <1>12, <1>13

LEMMA CommitOK ==
  ASSUME DeclInv, NEW p \in Peers, receive_commit(p)
  PROVE  DeclInv'
<1> DEFINE t == table[p]
           fits == Cardinality(Subs(t.pre)) + Cardinality(Subs(t.known)) <= Room[p]
           res == IF t.result # "OK" THEN t.result ELSE IF fits THEN "OK" ELSE "NOSPACE"
           nt == IF res = "OK" THEN [t EXCEPT !.known = @ \cup t.pre, !.pre = Subs(@)]
                               ELSE [t EXCEPT !.pre = {}, !.result = "OK"]
<1>1. /\ multi[p] # <<>> /\ Head(multi[p]) = Commit
      /\ multi' = [multi EXCEPT ![p] = Tail(@)]
      /\ table' = [table EXCEPT ![p] = nt]
      /\ results' = [results EXCEPT ![p] = Append(@, res)]
      /\ established' = established /\ sessions' = sessions /\ uni' = uni
      /\ items' = items /\ pend' = pend /\ pos' = pos /\ cursor' = cursor /\ waiting' = waiting /\ status' = status
  BY DEF receive_commit, local
<1>2. /\ Head(multi[p]) = multi[p][1] /\ 1 \in DOMAIN multi[p]
      /\ multi' \in [Peers -> Seq(MultiMsg)]
      /\ \A q \in Peers \ {p} : multi'[q] = multi[q]
      /\ \A k \in DOMAIN multi[p] : k \in Nat /\ k >= 1
      /\ \A k \in DOMAIN multi'[p] :
           k \in Nat /\ k + 1 \in DOMAIN multi[p] /\ multi'[p][k] = multi[p][k + 1]
      /\ \A k \in DOMAIN multi[p] : k = 1 \/ (k - 1 \in DOMAIN multi'[p] /\ multi'[p][k - 1] = multi[p][k])
      /\ Fit'
  BY <1>1, MultiTaken
<1> USE DEF DeclInv
<1>3. t \in Table
  BY DEF Tables
<1>4. res \in Outcomes
  BY <1>3 DEF Table, Outcomes
<1>5. p \in Able => res = "OK"
  <2> SUFFICES ASSUME p \in Able PROVE res = "OK"
    OBVIOUS
  <2>1. t.result = "OK"
    BY DEF NoErrors
  <2>2. t.pre \subseteq Item /\ t.known \subseteq Item
    BY <1>3 DEF Table
  <2>3. /\ Cardinality(Subs(t.pre)) \in Nat /\ Cardinality(Subs(t.known)) \in Nat /\ Room[p] \in Nat
        /\ 2 * Cardinality(Subs(t.pre)) <= Room[p] /\ 2 * Cardinality(Subs(t.known)) <= Room[p]
    BY <2>2, SubsFit
  <2>4. \A a, b, c \in Nat : 2 * a <= c /\ 2 * b <= c => a + b <= c
    OBVIOUS
  <2>5. fits
    BY <2>3, <2>4
  <2> QED
    BY <2>1, <2>5
<1> HIDE DEF res
<1>6. /\ nt \in Table /\ nt.result = "OK"
      /\ res = "OK" => nt.known = t.known \cup t.pre
  <2>1. CASE res = "OK"
    <3>1. nt = [t EXCEPT !.known = t.known \cup t.pre, !.pre = Subs(t.pre)]
      BY <2>1
    <3>2. t.result = "OK"
      BY <2>1 DEF res
    <3>3. Subs(t.pre) \subseteq t.pre
      BY DEF Subs
    <3> HIDE DEF nt
    <3>4. nt = [known |-> t.known \cup t.pre, pre |-> Subs(t.pre), result |-> t.result]
      BY <1>3, <3>1 DEF Table
    <3> QED
      BY <1>3, <2>1, <3>2, <3>3, <3>4 DEF Table
  <2>2. CASE res # "OK"
    <3>1. nt = [t EXCEPT !.pre = {}, !.result = "OK"]
      BY <2>2
    <3> HIDE DEF nt
    <3>2. nt = [known |-> t.known, pre |-> {}, result |-> "OK"]
      BY <1>3, <3>1 DEF Table
    <3> QED
      BY <1>3, <2>2, <3>2 DEF Table, Outcomes
  <2> QED
    BY <2>1, <2>2
<1> HIDE DEF nt
<1>7. table' \in [Peers -> Table] /\ table'[p] = nt /\ \A q \in Peers \ {p} : table'[q] = table[q]
  BY <1>1, <1>6 DEF Tables
<1>8. Transaction(p) /\ IsCommit(p, 1)
  BY <1>1, <1>2 DEF Transactions, IsCommit
<1>9. results[p] = <<>> /\ p \in waiting
  BY <1>2, <1>8 DEF Transaction
<1>10. /\ results' \in [Peers -> Seq(Outcomes)] /\ Len(results'[p]) = 1
       /\ \A q \in Peers \ {p} : results'[q] = results[q]
  <2>1. results[p] \in Seq(Outcomes)
    BY DEF Tables
  <2>2. Append(results[p], res) \in Seq(Outcomes) /\ Len(Append(results[p], res)) = 1
    BY <1>4, <1>9, <2>1, AppendProperties
  <2> QED
    BY <1>1, <2>2 DEF Tables
<1>11. Tables'
  BY <1>1, <1>2, <1>7, <1>10 DEF Tables
<1>12. Sessions' /\ Scheduled'
  BY <1>1 DEF Sessions, Scheduled
<1>13. Transactions'
  <2> SUFFICES ASSUME NEW q \in Peers PROVE Transaction(q)'
    BY DEF Transactions
  <2>1. CASE q = p
    <3>1. \A k \in DOMAIN multi'[p] : ~ IsCommit(p, k)'
      <4> SUFFICES ASSUME NEW k \in DOMAIN multi'[p], IsCommit(p, k)' PROVE FALSE
        OBVIOUS
      <4>1. k \in Nat /\ k >= 1 /\ k + 1 \in DOMAIN multi[p] /\ IsCommit(p, k + 1)
        <5>1. k \in Nat /\ k + 1 \in DOMAIN multi[p] /\ multi[p][k + 1] = Commit
          BY <1>2 DEF IsCommit
        <5>2. multi'[p] \in Seq(MultiMsg)
          BY <1>2
        <5>3. k >= 1
          BY <5>2, LenProperties
        <5> QED
          BY <5>1, <5>3 DEF IsCommit
      <4>2. k + 1 = 1
        BY <1>2, <1>8, <4>1 DEF Transaction
      <4> QED
        BY <4>1, <4>2
    <3> QED
      BY <1>1, <1>9, <1>10, <2>1, <3>1 DEF Transaction
  <2>2. CASE q # p
    <3>1. multi'[q] = multi[q] /\ results'[q] = results[q] /\ Transaction(q)
      BY <1>2, <1>10, <2>2 DEF Transactions
    <3> QED
      BY <1>1, <3>1, TransactionKept
  <2> QED
    BY <2>1, <2>2
<1>14. NothingLost'
  <2> SUFFICES ASSUME NEW q \in established \cap Able, NEW d \in Item, d[2] \in items[d[1]]
               PROVE  Covered(q, d)'
    BY <1>1 DEF NothingLost
  <2>1. Covered(q, d) /\ q \in Peers
    BY ConstantsAre DEF NothingLost, Able
  <2>2. (ToDo(q, d) => ToDo(q, d)') /\ (ToDo(MULTICAST, d) => ToDo(MULTICAST, d)')
    BY <1>1 DEF ToDo
  <2>3. CASE q # p
    <3>1. table'[q] = table[q] /\ uni'[q] = uni[q] /\ multi'[q] = multi[q]
      BY <1>1, <1>2, <1>7, <2>1, <2>3
    <3> QED
      BY <1>1, <2>1, <2>2, <3>1, CoveredKept
  <2>4. CASE q = p
    <3>1. table'[p].known = t.known \cup t.pre
      BY <1>5, <1>6, <1>7, <2>4
    <3>2. \A k \in Nat : k >= 1 /\ CommitComes(p, k) => CommitComes(p, k - 1)'
      <4> SUFFICES ASSUME NEW k \in Nat, k >= 1, NEW j \in DOMAIN multi[p], j > k, IsCommit(p, j)
                   PROVE  CommitComes(p, k - 1)'
        BY <1>1 DEF CommitComes
      <4>1. j - 1 \in DOMAIN multi'[p] /\ multi'[p][j - 1] = multi[p][j]
        BY <1>2
      <4>2. j - 1 > k - 1
        BY <1>2
      <4>3. PICK j1 \in Int : j1 = j - 1
        BY <1>2
      <4>4. j1 \in DOMAIN multi'[p] /\ j1 > k - 1 /\ IsCommit(p, j1)'
        BY <4>1, <4>2, <4>3 DEF IsCommit
      <4> QED
        BY <4>4 DEF CommitComes
    <3>3. OnMulti(p, d) => OnMulti(p, d)'
      <4> SUFFICES ASSUME NEW k \in DOMAIN multi[p], Is(multi[p][k], d), CommitComes(p, k)
                   PROVE  OnMulti(p, d)'
        BY DEF OnMulti
      <4>1. k # 1 /\ k \in Nat /\ k >= 1
        BY <1>1, <1>2, CommitIsNone
      <4>2. PICK k1 \in Int : k1 = k - 1
        BY <4>1
      <4>3. k1 \in DOMAIN multi'[p] /\ multi'[p][k1] = multi[p][k]
        BY <1>2, <4>1, <4>2
      <4>4. CommitComes(p, k1)'
        BY <3>2, <4>1, <4>2
      <4>5. Is(multi'[p][k1], d)
        BY <4>3 DEF Is
      <4> QED
        BY <4>3, <4>4, <4>5 DEF OnMulti
    <3>4. (d \in table[p].known \/ Noted(p, d) => d \in table'[p].known) /\ (OnUni(p, d) => OnUni(p, d)')
      BY <1>1, <3>1 DEF OnUni, Noted
    <3> QED
      BY <2>1, <2>2, <2>4, <3>3, <3>4 DEF Covered
  <2> QED
    BY <2>3, <2>4
<1>15. NoErrors'
  <2> SUFFICES ASSUME NEW q \in Able PROVE table'[q].result = "OK"
    BY DEF NoErrors
  <2>1. q \in Peers /\ table[q].result = "OK"
    BY ConstantsAre DEF Able, NoErrors
  <2>2. CASE q = p
    BY <1>6, <1>7, <2>2
  <2>3. CASE q # p
    BY <1>7, <2>1, <2>3
  <2> QED
    BY <2>2, <2>3
<1> QED
  BY <1>2, <1>11, <1>12, <1>13, <1>14, <1>15

-----------------------------------------------------------------------------
(* The theorems. *)

LEMMA NextOK == DeclInv /\ [Next]_vars => DeclInv'
<1> SUFFICES ASSUME DeclInv, [Next]_vars PROVE DeclInv'
  OBVIOUS
<1>1. ASSUME NEW kind \in ToSet(Kinds), NEW i \in 0 .. MAX_ITEMS[kind] - 1, Declare(kind, i) PROVE DeclInv'
  BY <1>1, DeclareOK
<1>2. ASSUME NEW p \in Peers, accept_peer(p) PROVE DeclInv'
  BY <1>2, AcceptOK
<1>3. ASSUME NEW p \in Peers, reset_peer(p) PROVE DeclInv'
  BY <1>3, ResetOK DEF reset_peer
<1>4. CASE zhe_send_declares
  BY <1>4, SendOK
<1>5. ASSUME NEW p \in Peers, receive_committed(p) PROVE DeclInv'
  BY <1>5, CommittedOK
<1>6. ASSUME NEW p \in Peers, receive_tentative(p) PROVE DeclInv'
  BY <1>6, TentativeOK
<1>7. ASSUME NEW p \in Peers, receive_commit(p) PROVE DeclInv'
  BY <1>7, CommitOK
<1>8. ASSUME NEW p \in Peers, handle_dresult(p) PROVE DeclInv'
  BY <1>8, ResultOK
<1>9. CASE zhe_get_declstatus
  BY <1>9, GetOK
<1>10. CASE UNCHANGED vars
  <2>1. /\ items' = items /\ pend' = pend /\ pos' = pos /\ cursor' = cursor /\ waiting' = waiting /\ status' = status
        /\ established' = established /\ sessions' = sessions /\ uni' = uni /\ multi' = multi
        /\ results' = results /\ table' = table
    BY <1>10 DEF vars
  <2>2. Tables' /\ Sessions' /\ Scheduled' /\ Fit' /\ NoErrors'
    BY <2>1 DEF DeclInv, Tables, Sessions, Scheduled, Fit, NoErrors
  <2>3. Transactions'
    BY <2>1, TransactionKept DEF DeclInv, Transactions
  <2>4. NothingLost'
    BY <2>1, CoveredKept DEF DeclInv, NothingLost, ToDo
  <2> QED
    BY <2>2, <2>3, <2>4 DEF DeclInv
<1> QED
  BY <1>1, <1>2, <1>3, <1>4, <1>5, <1>6, <1>7, <1>8, <1>9, <1>10 DEF Next

\* The invariant: what a peer does not know yet is on its way to it or still to be
\* sent, whatever order housekeeping, the conduits and the ends of sessions take.
THEOREM NothingFallsThrough == Spec => []DeclInv
<1>1. Init => DeclInv
  BY InitOK
<1>2. DeclInv /\ [Next]_vars => DeclInv'
  BY NextOK
<1> QED
  BY <1>1, <1>2, PTL DEF Spec

LEMMA TypesFollow == DeclInv => TypeOK
<1> SUFFICES ASSUME DeclInv PROVE TypeOK
  OBVIOUS
<1> USE DEF DeclInv
<1>1. \A p \in Peers : results[p] \in BoundedSeq(Outcomes, MaxSessions)
  <2> SUFFICES ASSUME NEW p \in Peers PROVE results[p] \in BoundedSeq(Outcomes, MaxSessions)
    OBVIOUS
  <2>1. results[p] \in Seq(Outcomes) /\ Transaction(p)
    BY DEF Tables, Transactions
  <2>2. Len(results[p]) \in Nat /\ results[p] \in [1 .. Len(results[p]) -> Outcomes]
    BY <2>1, LenProperties
  <2>3. Len(results[p]) \in 0 .. MaxSessions
    <3>1. CASE results[p] = <<>>
      BY <3>1, ConstantsAre
    <3>2. CASE results[p] # <<>>
      <4>1. p \in established
        BY <2>1, <3>2 DEF Transaction, Sessions
      <4>2. MaxSessions >= 1
        BY <4>1, ConstantsAre DEF Sessions
      <4>3. Len(results[p]) <= 1
        BY <2>1 DEF Transaction
      <4> QED
        BY <2>2, <4>2, <4>3, ConstantsAre
    <3> QED
      BY <3>1, <3>2
  <2> QED
    BY <2>2, <2>3 DEF BoundedSeq, SeqOf
<1> QED
  BY <1>1 DEF TypeOK, Tables, Sessions, Scheduled, Fit

\* The assertions of zhe-pubsub hold: no cursor is scheduled twice, pos is within
\* the schedule, nobody without a session is waited for, no window overflows.
THEOREM ScheduleSound == Spec => []TypeOK
BY NothingFallsThrough, TypesFollow, PTL

LEMMA OneFollows == DeclInv => OneTransaction
<1> SUFFICES ASSUME DeclInv, NEW p \in Peers
             PROVE  Unanswered(p) <= 1 /\ (Unanswered(p) = 1 => p \in waiting)
  BY DEF OneTransaction
<1> DEFINE C == {k \in DOMAIN multi[p] : multi[p][k] = Commit}
<1>1. Transaction(p) /\ results[p] \in Seq(Outcomes)
  BY DEF DeclInv, Transactions, Tables
<1>2. Len(results[p]) \in Nat /\ Len(results[p]) <= 1
  BY <1>1, LenProperties DEF Transaction
<1>3. \A k \in C : IsCommit(p, k)
  BY DEF IsCommit
<1>4. CASE C = {}
  <2>1. Cardinality(C) = 0
    BY <1>4, FS_EmptySet
  <2>2. Unanswered(p) = Len(results[p])
    BY <1>2, <2>1 DEF Unanswered
  <2>3. Len(results[p]) = 1 => results[p] # <<>>
    OBVIOUS
  <2> QED
    BY <1>1, <1>2, <2>2, <2>3 DEF Transaction
<1>5. CASE C # {}
  <2>1. PICK k \in C : TRUE
    BY <1>5
  <2>2. C = {k}
    BY <1>1, <1>3, <2>1 DEF Transaction
  <2>3. Cardinality(C) = 1
    BY <2>2, FS_Singleton
  <2>4. results[p] = <<>> /\ p \in waiting
    BY <1>1, <1>3, <2>1 DEF Transaction
  <2>5. Unanswered(p) = 1
    BY <2>3, <2>4 DEF Unanswered
  <2> QED
    BY <2>4, <2>5
<1> QED
  BY <1>4, <1>5

\* A result belongs to the last transaction: no peer is sent a commit before its
\* answer to the one before, and it is waited for until the answer is there.
THEOREM ResultOfLast == Spec => []OneTransaction
BY NothingFallsThrough, OneFollows, PTL

LEMMA DeclaredFollows == DeclInv => EverythingDeclared
<1> SUFFICES ASSUME DeclInv, NEW p \in Able, Settled(p), NEW d \in Declared
             PROVE  d \in table[p].known
  BY DEF EverythingDeclared
<1>1. d \in Real \X (0 .. INVALID) /\ d[2] \in items[d[1]]
  BY DEF Declared, Real
<1>2. d \in Item
  <2>1. d[1] \in ToSet(Kinds)
    BY <1>1, RealKinds
  <2>2. d[2] \in Nat /\ d[2] < MAX_ITEMS[d[1]]
    BY <1>1, <2>1 DEF DeclInv, Tables
  <2> QED
    BY <1>1, <2>2 DEF Item
<1>3. Covered(p, d)
  BY <1>1, <1>2 DEF DeclInv, NothingLost, Settled
<1>4. p \notin ToSet(pend) /\ MULTICAST \notin ToSet(pend) /\ uni[p] = <<>> /\ multi[p] = <<>>
  BY DEF Settled
<1>5. DOMAIN uni[p] = {} /\ DOMAIN multi[p] = {}
  BY <1>4
<1> QED
  BY <1>3, <1>4, <1>5 DEF Covered, ToDo, OnUni, OnMulti, Noted, CommitComes

\* A peer that listens and has room knows everything that was declared before,
\* during and after the opening of its session once nothing is pending: nothing
\* falls through between the historical and the fresh declarations.
THEOREM PeersKnowAll == Spec => []EverythingDeclared
BY NothingFallsThrough, DeclaredFollows, PTL

=============================================================================
