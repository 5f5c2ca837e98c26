--------------------------- MODULE UriStoreProofs ---------------------------
(***************************************************************************)
(* The table of resources and the buffer of URIs, for any number of peers, *)
(* entries and resources, any URIs and any size of the buffer: the table   *)
(* is well formed, "committed" says what its comment says, only the end of *)
(* a peer's session withdraws what that peer had committed, and the buffer *)
(* holds the URIs of the entries in use, and nothing else.                 *)
(*                                                                         *)
(* The inductive invariant, StoreInv, is about each row of the table, the  *)
(* order of the entries (StoreOK), and the blocks (BlocksOK): headers tile *)
(* the buffer, firstfree and openspace are where they should be, every     *)
(* entry in use knows the block that holds its URI, and the bytes that are *)
(* not in a block of an entry are the free ones.                           *)
(***************************************************************************)
EXTENDS UriStore, SequenceTheorems, FiniteSetTheorems, WellFoundedInduction, TLAPS

ResRecords == [rid : Rids \cup {0}, committed : BOOLEAN,
               tentative : Peers \cup {NONE}, peers : SUBSET (Peers \cup {SELF})]

Several(P) == \E p, q \in P : p # q

\* an entry that is free or belongs to a resource
RowOK(r) ==
    /\ r \in ResRecords
    /\ r.rid = 0 => r = FreeEntry
    /\ r.rid # 0 =>
          /\ IsFiniteSet(r.peers) /\ r.peers # {}
          /\ r.committed <=> (r.tentative = NONE \/ Several(r.peers))
          /\ r.tentative # NONE => r.tentative \in r.peers

\* the entries in use, in the order of their rid, and the others
OrderOK(s) ==
    /\ s.used \in Seq(Entries) /\ s.free \in Seq(Entries)
    /\ \A j, k \in 1 .. Len(s.used) : j < k => s.ress[s.used[j]].rid < s.ress[s.used[k]].rid
    /\ \A j, k \in 1 .. Len(s.free) : s.free[j] = s.free[k] => j = k
    /\ \A i \in Entries : (\E k \in 1 .. Len(s.used) : s.used[k] = i) <=> s.ress[i].rid # 0
    /\ \A i \in Entries : (\E k \in 1 .. Len(s.free) : s.free[k] = i) <=> s.ress[i].rid = 0

StoreOK(s) ==
    /\ s = [b |-> s.b, ress |-> s.ress, where |-> s.where, used |-> s.used, free |-> s.free]
    /\ s.ress \in [Entries -> ResRecords]
    /\ \A i \in Entries : RowOK(s.ress[i])
    /\ OrderOK(s)

\* p has committed its declaration in this row
Commits(r, p) == r.rid # 0 /\ p \in r.peers /\ p # r.tentative

\* what peers other than those in out have committed in s is committed in t
KeepsBut(out, s, t) ==
    \A i \in Entries : \A p :
        p \notin out /\ Commits(s.ress[i], p) => Commits(t.ress[i], p) /\ t.ress[i].rid = s.ress[i].rid

-----------------------------------------------------------------------------
(* Constants, sets and sequences. *)

LEMMA Consts ==
  /\ MAX_RESOURCES \in Nat /\ MAX_RESOURCES >= 1
  /\ Peers \subseteq Nat /\ SELF \notin Peers /\ NONE \notin Peers /\ NONE # SELF
  /\ \A rid \in Rids : rid \in Nat /\ rid # 0
<1>1. \A r \in Resources : r[1] \in Nat \ {0}
  BY StoreAssumption
<1> QED
  BY <1>1, StoreAssumption DEF Rids

LEMMA NatHasMin ==
  ASSUME NEW S, S \subseteq Nat, S # {}
  PROVE  \E i \in S : \A j \in S : i <= j
<1> DEFINE R == {ss \in Nat \X Nat : ss[1] < ss[2]}
<1>1. IsWellFoundedOn(R, Nat)
  BY NatLessThanWellFounded DEF OpToRel
<1>2. \A p \in Nat, q \in Nat : <<p, q>> \in R <=> p < q
  OBVIOUS
<1> HIDE DEF R
<1>3. \E x \in S : \A y \in S : ~ (<<y, x>> \in R)
  BY <1>1, WFMin
<1>4. PICK x \in S : \A y \in S : ~ (<<y, x>> \in R)
  BY <1>3
<1>5. ASSUME NEW y \in S PROVE x <= y
  <2>1. x \in Nat /\ y \in Nat
    OBVIOUS
  <2>2. ~ (y < x)
    BY <1>2, <1>4, <2>1
  <2> QED
    BY <2>1, <2>2
<1> QED
  BY <1>5

LEMMA MinIs ==
  ASSUME NEW S, S \subseteq Nat, S # {}
  PROVE  Min(S) \in S /\ \A j \in S : Min(S) <= j
BY NatHasMin DEF Min

\* Induction: a set of numbers with 0 and the successors of its members up to N.
LEMMA NatInSet ==
  ASSUME NEW N \in Nat, NEW S, S \subseteq 0 .. N, 0 \in S,
         \A n \in 1 .. N : n - 1 \in S => n \in S
  PROVE  \A n \in 0 .. N : n \in S
<1> SUFFICES ASSUME (0 .. N) \ S # {} PROVE FALSE
  OBVIOUS
<1>0. (0 .. N) \ S \subseteq Nat
  OBVIOUS
<1>1. PICK m \in (0 .. N) \ S : \A j \in (0 .. N) \ S : m <= j
  BY <1>0, NatHasMin
<1>2. m # 0 /\ m \in 1 .. N
  BY <1>1
<1>3. m - 1 \in 0 .. N /\ m - 1 \in S
  BY <1>1, <1>2
<1> QED
  BY <1>1, <1>2, <1>3

-----------------------------------------------------------------------------
(* Sums over finite sets. *)

Sum(f, S) == SumFunctionOnSet(f, S)
First(s) == CHOOSE x \in s : TRUE
SumBody(f, g, s) == IF s = {} THEN 0 ELSE f[First(s)] + g[s \ {First(s)}]

\* g has the sums of f over the subsets of S
SumsOf(f, S, g) == g = [s \in SUBSET S |-> SumBody(f, g, s)]

LEMMA FirstIs == ASSUME NEW s, s # {} PROVE First(s) \in s
BY DEF First

LEMMA OneFewer ==
  ASSUME NEW s, IsFiniteSet(s), NEW x \in s
  PROVE  /\ IsFiniteSet(s \ {x}) /\ Cardinality(s) \in Nat \ {0}
         /\ Cardinality(s \ {x}) = Cardinality(s) - 1
<1>1. IsFiniteSet(s \ {x}) /\ Cardinality(s \ {x}) = Cardinality(s) - 1
  BY FS_RemoveElement
<1>2. Cardinality(s) \in Nat /\ (Cardinality(s) = 0 <=> s = {})
  BY FS_CardinalityType, FS_EmptySet
<1> QED
  BY <1>1, <1>2

LEMMA SumsExist ==
  ASSUME NEW f, NEW S, IsFiniteSet(S)
  PROVE  \E g : SumsOf(f, S, g)
<1> DEFINE N == Cardinality(S)
           Upto(g, n) == /\ g = [s \in SUBSET S |-> g[s]]
                         /\ \A s \in SUBSET S : Cardinality(s) <= n => g[s] = SumBody(f, g, s)
           T == {n \in 0 .. N : \E g : Upto(g, n)}
<1>0. N \in Nat /\ \A s \in SUBSET S : IsFiniteSet(s) /\ Cardinality(s) \in 0 .. N
                                       /\ (Cardinality(s) = 0 <=> s = {})
  <2>1. \A s \in SUBSET S : IsFiniteSet(s) /\ Cardinality(s) <= N
    BY FS_Subset
  <2>2. \A s \in SUBSET S : Cardinality(s) \in Nat /\ (Cardinality(s) = 0 <=> s = {})
    BY <2>1, FS_CardinalityType, FS_EmptySet
  <2>3. N \in Nat
    BY FS_CardinalityType
  <2> HIDE DEF N
  <2> QED
    BY <2>1, <2>2, <2>3
<1>1. 0 \in T
  <2> DEFINE g == [s \in SUBSET S |-> 0]
  <2>1. Upto(g, 0)
    <3>1. g = [s \in SUBSET S |-> g[s]]
      OBVIOUS
    <3>2. ASSUME NEW s \in SUBSET S, Cardinality(s) <= 0 PROVE g[s] = SumBody(f, g, s)
      BY <1>0, <3>2 DEF SumBody
    <3> QED
      BY <3>1, <3>2
  <2>2. 0 \in 0 .. N
    BY <1>0
  <2> HIDE DEF Upto, N
  <2> QED
    BY <2>1, <2>2
<1>2. ASSUME NEW n \in 1 .. N, n - 1 \in T PROVE n \in T
  <2>1. PICK g : Upto(g, n - 1)
    BY <1>2
  <2> DEFINE h == [s \in SUBSET S |-> IF Cardinality(s) <= n - 1 THEN g[s] ELSE SumBody(f, g, s)]
  <2>2. h = [s \in SUBSET S |-> h[s]]
    OBVIOUS
  <2>3. ASSUME NEW s \in SUBSET S, Cardinality(s) <= n PROVE h[s] = SumBody(f, h, s)
    <3>1. h[s] = SumBody(f, g, s)
      BY <2>1
    <3>2. CASE s = {}
      BY <3>1, <3>2 DEF SumBody
    <3>3. CASE s # {}
      <4>1. First(s) \in s /\ s \ {First(s)} \in SUBSET S
        BY <3>3, FirstIs
      <4>2. Cardinality(s \ {First(s)}) = Cardinality(s) - 1
        BY <1>0, <4>1, OneFewer
      <4>3. Cardinality(s \ {First(s)}) <= n - 1
        <5>1. Cardinality(s) \in 0 .. N /\ n \in 0 .. N
          BY <1>0
        <5> HIDE DEF N
        <5> QED
          BY <1>0, <2>3, <4>2, <5>1
      <4>4. h[s \ {First(s)}] = g[s \ {First(s)}]
        BY <4>1, <4>3
      <4> HIDE DEF h
      <4> QED
        BY <3>1, <3>3, <4>4 DEF SumBody
    <3> QED
      BY <3>2, <3>3
  <2> HIDE DEF h
  <2>4. Upto(h, n)
    BY <2>2, <2>3
  <2> HIDE DEF Upto
  <2>5. n \in 0 .. N
    BY <1>0
  <2> QED
    BY <2>4, <2>5
<1>3. N \in T
  <2>1. T \subseteq 0 .. N
    OBVIOUS
  <2> HIDE DEF T, N
  <2>2. \A n \in 0 .. N : n \in T
    BY <1>0, <1>1, <1>2, <2>1, NatInSet
  <2> QED
    BY <1>0, <2>2
<1>4. PICK g : Upto(g, N)
  BY <1>3
<1>5. \A s \in SUBSET S : g[s] = SumBody(f, g, s)
  <2>1. \A s \in SUBSET S : Cardinality(s) <= N
    BY <1>0
  <2> QED
    BY <1>4, <2>1
<1>6. g = [s \in SUBSET S |-> SumBody(f, g, s)]
  BY <1>4, <1>5
<1> QED
  BY <1>6 DEF SumsOf

LEMMA SumIs ==
  ASSUME NEW f, NEW S, IsFiniteSet(S)
  PROVE  \E g : SumsOf(f, S, g) /\ Sum(f, S) = g[S]
<1> DEFINE g == CHOOSE iter : iter = [s \in SUBSET S |->
                   IF s = {} THEN 0
                   ELSE f[CHOOSE x \in s : TRUE] + iter[s \ {CHOOSE x \in s : TRUE}]]
<1>1. Sum(f, S) = g[S]
  BY DEF Sum, SumFunctionOnSet, FoldFunctionOnSet, MapThenFoldSet
<1>2. \E h : h = [s \in SUBSET S |-> IF s = {} THEN 0
                    ELSE f[CHOOSE x \in s : TRUE] + h[s \ {CHOOSE x \in s : TRUE}]]
  <2>1. PICK h : SumsOf(f, S, h)
    BY SumsExist
  <2> QED
    BY <2>1, Zenon DEF SumsOf, SumBody, First
<1>3. SumsOf(f, S, g)
  <2>1. g = [s \in SUBSET S |-> IF s = {} THEN 0
                    ELSE f[CHOOSE x \in s : TRUE] + g[s \ {CHOOSE x \in s : TRUE}]]
    BY <1>2, Zenon
  <2> QED
    BY <2>1, Zenon DEF SumsOf, SumBody, First
<1> QED
  BY <1>1, <1>3

\* The sum over s is the same in every set that it is a subset of, and for every
\* function with the same values on s.
LEMMA SumsAgree ==
  ASSUME NEW f, NEW g, NEW S, NEW h, NEW e, NEW Z, SumsOf(f, S, g), SumsOf(h, Z, e),
         NEW s, IsFiniteSet(s), s \subseteq S, s \subseteq Z, \A x \in s : f[x] = h[x]
  PROVE  g[s] = e[s]
<1> DEFINE N == Cardinality(s)
           T == {n \in 0 .. N : \A t \in SUBSET s : Cardinality(t) = n => g[t] = e[t]}
<1>0. N \in Nat /\ \A t \in SUBSET s : IsFiniteSet(t) /\ (Cardinality(t) = 0 <=> t = {})
  <2>1. \A t \in SUBSET s : IsFiniteSet(t)
    BY FS_Subset
  <2>2. \A t \in SUBSET s : Cardinality(t) = 0 <=> t = {}
    BY <2>1, FS_EmptySet
  <2>3. N \in Nat
    BY FS_CardinalityType
  <2> QED
    BY <2>1, <2>2, <2>3
<1>1. \A t \in SUBSET s : g[t] = SumBody(f, g, t) /\ e[t] = SumBody(h, e, t)
  BY DEF SumsOf
<1>2. 0 \in T
  <2>1. ASSUME NEW t \in SUBSET s, Cardinality(t) = 0 PROVE g[t] = e[t]
    <3>1. t = {}
      BY <1>0, <2>1
    <3> QED
      BY <1>1, <3>1 DEF SumBody
  <2>2. 0 \in 0 .. N
    BY <1>0
  <2> HIDE DEF N
  <2> QED
    BY <2>1, <2>2
<1>3. ASSUME NEW n \in 1 .. N, n - 1 \in T PROVE n \in T
  <2>1. ASSUME NEW t \in SUBSET s, Cardinality(t) = n PROVE g[t] = e[t]
    <3>1. t # {} /\ IsFiniteSet(t)
      <4>1. n # 0
        BY <1>0
      <4> QED
        BY <1>0, <2>1, <4>1
    <3>2. First(t) \in t /\ t \ {First(t)} \in SUBSET s
      BY <3>1, FirstIs
    <3>3. Cardinality(t \ {First(t)}) = n - 1
      BY <2>1, <3>1, <3>2, OneFewer
    <3>4. g[t \ {First(t)}] = e[t \ {First(t)}]
      BY <1>3, <3>2, <3>3
    <3>5. f[First(t)] = h[First(t)]
      BY <3>2
    <3> QED
      BY <1>1, <3>1, <3>4, <3>5 DEF SumBody
  <2>2. n \in 0 .. N
    BY <1>0
  <2> HIDE DEF N
  <2> QED
    BY <2>1, <2>2
<1>4. N \in T
  <2>1. T \subseteq 0 .. N
    OBVIOUS
  <2> HIDE DEF T, N
  <2>2. \A n \in 0 .. N : n \in T
    BY <1>0, <1>2, <1>3, <2>1, NatInSet
  <2> QED
    BY <1>0, <2>2
<1> QED
  BY <1>4

LEMMA SumSame ==
  ASSUME NEW f, NEW h, NEW S, IsFiniteSet(S), \A x \in S : f[x] = h[x]
  PROVE  Sum(f, S) = Sum(h, S)
<1>1. PICK g : SumsOf(f, S, g) /\ Sum(f, S) = g[S]
  BY SumIs
<1>2. PICK e : SumsOf(h, S, e) /\ Sum(h, S) = e[S]
  BY SumIs
<1> QED
  BY <1>1, <1>2, SumsAgree

LEMMA SumEmpty == ASSUME NEW f PROVE Sum(f, {}) = 0
<1>1. IsFiniteSet({})
  BY FS_EmptySet
<1>2. PICK g : SumsOf(f, {}, g) /\ Sum(f, {}) = g[{}]
  BY <1>1, SumIs
<1> QED
  BY <1>2 DEF SumsOf, SumBody

\* The sum over a set of numbers does not depend on the order in which they are taken.
LEMMA SumsAnyOrder ==
  ASSUME NEW f, NEW S, IsFiniteSet(S), NEW g, SumsOf(f, S, g), \A x \in S : f[x] \in Nat
  PROVE  \A t \in SUBSET S : g[t] \in Nat /\ \A x \in t : g[t] = f[x] + g[t \ {x}]
<1> DEFINE N == Cardinality(S)
           AnyOrder(t) == g[t] \in Nat /\ \A x \in t : g[t] = f[x] + g[t \ {x}]
           T == {n \in 0 .. N : \A t \in SUBSET S : Cardinality(t) <= n => AnyOrder(t)}
<1>0. N \in Nat /\ \A t \in SUBSET S : IsFiniteSet(t) /\ (Cardinality(t) = 0 <=> t = {})
                   /\ Cardinality(t) \in 0 .. N
  <2>1. \A t \in SUBSET S : IsFiniteSet(t) /\ Cardinality(t) <= N
    BY FS_Subset
  <2>2. \A t \in SUBSET S : (Cardinality(t) = 0 <=> t = {}) /\ Cardinality(t) \in Nat
    BY <2>1, FS_EmptySet, FS_CardinalityType
  <2>3. N \in Nat
    BY FS_CardinalityType
  <2> HIDE DEF N
  <2> QED
    BY <2>1, <2>2, <2>3
<1>1. \A t \in SUBSET S : g[t] = SumBody(f, g, t)
  BY DEF SumsOf
<1>2. 0 \in T
  <2>1. ASSUME NEW t \in SUBSET S, Cardinality(t) <= 0 PROVE AnyOrder(t)
    <3>1. t = {}
      <4>1. Cardinality(t) \in Nat
        BY <1>0
      <4> QED
        BY <1>0, <2>1, <4>1
    <3> QED
      BY <1>1, <3>1 DEF SumBody
  <2>2. 0 \in 0 .. N
    BY <1>0
  <2> HIDE DEF N, AnyOrder
  <2> QED
    BY <2>1, <2>2
<1>3. ASSUME NEW n \in 1 .. N, n - 1 \in T PROVE n \in T
  <2>1. ASSUME NEW t \in SUBSET S, Cardinality(t) <= n PROVE AnyOrder(t)
    <3> DEFINE y == First(t)
               u == t \ {y}
    <3>0. CASE t = {}
      BY <1>1, <3>0 DEF SumBody
    <3> SUFFICES ASSUME t # {} PROVE AnyOrder(t)
      BY <3>0
    <3>1. t # {} /\ IsFiniteSet(t)
      BY <1>0
    <3>2. y \in t /\ u \in SUBSET S
      BY <3>1, FirstIs
    <3>3. \A x \in t : t \ {x} \in SUBSET S /\ Cardinality(t \ {x}) <= n - 1
      <4>1. n \in Nat /\ Cardinality(t) \in Nat
        BY <1>0
      <4>2. \A x \in t : Cardinality(t \ {x}) = Cardinality(t) - 1
        BY <3>1, OneFewer
      <4> QED
        BY <2>1, <4>1, <4>2
    <3> HIDE DEF AnyOrder
    <3>4. \A x \in t : AnyOrder(t \ {x})
      BY <1>3, <3>3
    <3>5. g[t] = f[y] + g[u]
      BY <1>1, <3>1 DEF SumBody
    <3>6. g[t] \in Nat
      <4>1. f[y] \in Nat
        BY <3>2
      <4>2. g[u] \in Nat
        BY <3>2, <3>4 DEF AnyOrder
      <4> QED
        BY <3>5, <4>1, <4>2
    <3>7. ASSUME NEW x \in t, x # y PROVE g[t] = f[x] + g[t \ {x}]
      <4> DEFINE v == t \ {x}
                 w == u \ {x}
      <4>1. x \in u /\ y \in v /\ v \ {y} = w /\ w \in SUBSET S
        BY <3>2, <3>7
      <4>2. g[u] = f[x] + g[w] /\ g[v] = f[y] + g[w]
        BY <3>2, <3>4, <4>1 DEF AnyOrder
      <4>3. f[x] \in Nat /\ f[y] \in Nat
        BY <3>2
      <4>4. g[w] \in Nat
        <5>1. IsFiniteSet(t) /\ IsFiniteSet(v) /\ IsFiniteSet(w)
          BY <1>0, <3>3, <4>1
        <5>2. Cardinality(w) <= n - 1
          <6>1. Cardinality(v) <= n - 1 /\ Cardinality(w) = Cardinality(v) - 1
                /\ Cardinality(v) \in Nat
            BY <3>3, <4>1, <5>1, OneFewer
          <6>2. n \in Nat
            BY <1>0
          <6> QED
            BY <6>1, <6>2
        <5>3. AnyOrder(w)
          BY <1>3, <4>1, <5>2
        <5> QED
          BY <5>3 DEF AnyOrder
      <4> HIDE DEF u, v, w, y
      <4> QED
        BY <3>5, <4>2, <4>3, <4>4 DEF v
    <3> QED
      BY <3>5, <3>6, <3>7 DEF AnyOrder
  <2>2. n \in 0 .. N
    BY <1>0
  <2> HIDE DEF N, AnyOrder
  <2> QED
    BY <2>1, <2>2
<1>4. \A n \in 0 .. N : n \in T
  <2>1. T \subseteq 0 .. N
    OBVIOUS
  <2> HIDE DEF T, N
  <2> QED
    BY <1>0, <1>2, <1>3, <2>1, NatInSet
<1>5. ASSUME NEW t \in SUBSET S PROVE AnyOrder(t)
  <2>1. Cardinality(t) \in 0 .. N /\ Cardinality(t) <= Cardinality(t)
    BY <1>0
  <2> HIDE DEF N, AnyOrder
  <2> QED
    BY <1>4, <2>1
<1> QED
  BY <1>5

LEMMA SumType ==
  ASSUME NEW f, NEW S, IsFiniteSet(S), \A x \in S : f[x] \in Nat
  PROVE  Sum(f, S) \in Nat
<1>1. PICK g : SumsOf(f, S, g) /\ Sum(f, S) = g[S]
  BY SumIs
<1> QED
  BY <1>1, SumsAnyOrder

LEMMA SumWithout ==
  ASSUME NEW f, NEW S, IsFiniteSet(S), \A x \in S : f[x] \in Nat, NEW y \in S
  PROVE  Sum(f, S) = f[y] + Sum(f, S \ {y})
<1>1. PICK g : SumsOf(f, S, g) /\ Sum(f, S) = g[S]
  BY SumIs
<1>2. IsFiniteSet(S \ {y})
  BY FS_RemoveElement
<1>3. PICK e : SumsOf(f, S \ {y}, e) /\ Sum(f, S \ {y}) = e[S \ {y}]
  BY <1>2, SumIs
<1>4. g[S \ {y}] = e[S \ {y}]
  <2>1. S \ {y} \subseteq S /\ S \ {y} \subseteq S \ {y}
    OBVIOUS
  <2> QED
    BY <1>1, <1>2, <1>3, <2>1, SumsAgree
<1>5. g[S] = f[y] + g[S \ {y}]
  BY <1>1, SumsAnyOrder
<1> QED
  BY <1>1, <1>3, <1>4, <1>5

-----------------------------------------------------------------------------
(* Sizes in bytes and in units. *)

\* q and r are the quotient and the remainder of n
Parts(n, q, r) == q \in Int /\ r \in Nat /\ r < UNIT /\ n = UNIT * q + r

LEMMA Divided == ASSUME NEW n \in Nat PROVE Parts(n, n \div UNIT, n % UNIT)
<1> DEFINE q == n \div UNIT
           r == n % UNIT
<1>1. UNIT \in Nat /\ UNIT > 1
  BY BufferAssumption
<1>2. q \in Int /\ r \in Nat /\ r < UNIT /\ n = UNIT * q + r
  BY <1>1
<1> HIDE DEF q, r
<1>3. Parts(n, q, r)
  BY <1>2 DEF Parts
<1> QED
  BY <1>3 DEF q, r

LEMMA BufferConsts ==
  /\ UNIT \in Nat /\ UNIT > 1 /\ MAX_BLOCKS \in Nat
  /\ Sentinel \in Nat /\ Sentinel >= 1
  /\ Nobody \notin Entries
  /\ \A uri \in Uris : UriLen[uri] \in Nat /\ UriLen[uri] >= 1
<1>1. UNIT \in Nat /\ UNIT > 1 /\ URISPACE \in Nat /\ URISPACE >= 2 * UNIT /\ MAX_BLOCKS \in Nat
  BY BufferAssumption
<1>2. Sentinel \in Nat /\ Sentinel >= 1
  <2>1. URISPACE - UNIT \in Nat /\ URISPACE - UNIT >= UNIT
    BY <1>1
  <2> DEFINE n == URISPACE - UNIT
             q == n \div UNIT
             r == n % UNIT
  <2>2. Parts(n, q, r)
    BY <2>1, Divided
  <2> HIDE DEF n, q, r
  <2>3. q \in Int /\ r \in Nat /\ r < UNIT /\ n = UNIT * q + r
    BY <2>2 DEF Parts
  <2>4. n \in Nat /\ n >= UNIT
    BY <2>1 DEF n
  <2>5. q >= 1
    <3> SUFFICES ASSUME q <= 0 PROVE FALSE
      BY <2>3
    <3>1. UNIT * q <= 0
      BY <1>1, <2>3
    <3> QED
      BY <1>1, <2>3, <2>4, <3>1
  <2> QED
    BY <2>3, <2>5 DEF Sentinel, n, q
<1>3. Nobody \notin Entries
  BY StoreAssumption DEF Entries
<1>4. \A uri \in Uris : UriLen[uri] \in Nat /\ UriLen[uri] >= 1
  BY <1>1, StoreAssumption
<1> QED
  BY <1>1, <1>2, <1>3, <1>4

LEMMA QuotientIs ==
  ASSUME NEW n \in Nat, NEW q \in Int, q * UNIT <= n, n < (q + 1) * UNIT
  PROVE  n \div UNIT = q
<1> DEFINE d == n \div UNIT
           r == n % UNIT
<1>0. UNIT \in Nat /\ UNIT > 1
  BY BufferConsts
<1>1. d \in Int /\ r \in Nat /\ r < UNIT /\ n = UNIT * d + r
  BY <1>0
<1> HIDE DEF d, r
<1>2. ~ d < q
  <2> SUFFICES ASSUME d < q PROVE FALSE
    OBVIOUS
  <2>1. d + 1 <= q
    BY <1>1
  <2>2. (d + 1) * UNIT <= q * UNIT
    BY <1>0, <1>1, <2>1
  <2>3. (d + 1) * UNIT = UNIT * d + UNIT
    BY <1>0, <1>1
  <2> QED
    BY <1>0, <1>1, <2>2, <2>3
<1>3. ~ q < d
  <2> SUFFICES ASSUME q < d PROVE FALSE
    OBVIOUS
  <2>1. q + 1 <= d
    BY <1>1
  <2>2. (q + 1) * UNIT <= d * UNIT
    BY <1>0, <1>1, <2>1
  <2> QED
    BY <1>0, <1>1, <2>2
<1> QED
  BY <1>1, <1>2, <1>3 DEF d

LEMMA UnitsIs ==
  ASSUME NEW n \in Nat
  PROVE  /\ Units(n) \in Nat /\ alignup(n) = Units(n) * UNIT /\ alignup(n) \in Nat
         /\ n <= alignup(n) /\ alignup(n) < n + UNIT
         /\ n > 0 => Units(n) > 0
         /\ n = 0 => Units(n) = 0
<1> DEFINE k == n + UNIT - 1
           q == k \div UNIT
           r == k % UNIT
<1>0. UNIT \in Nat /\ UNIT > 1
  BY BufferConsts
<1>1. k \in Nat
  BY <1>0
<1>2. q \in Int /\ r \in Nat /\ r < UNIT /\ k = UNIT * q + r
  <2> HIDE DEF k
  <2> QED
    BY <1>0, <1>1
<1>3. Units(n) = q /\ alignup(n) = q * UNIT
  BY DEF Units, alignup
<1> HIDE DEF q, r
<1>4. q >= 0
  <2> SUFFICES ASSUME q <= -1 PROVE FALSE
    BY <1>2
  <2>1. UNIT * q <= -UNIT
    BY <1>0, <1>2
  <2> QED
    BY <1>0, <1>1, <1>2, <2>1
<1>5. q * UNIT = UNIT * q /\ UNIT * q \in Int
  BY <1>0, <1>2
<1> DEFINE m == UNIT * q
<1>6. m \in Nat
  BY <1>0, <1>2, <1>4
<1>7. k = m + r /\ m = q * UNIT
  BY <1>2, <1>5
<1>8. q = 0 => m = 0
  BY <1>0
<1>9. n = 0 => q = 0
  <2> SUFFICES ASSUME n = 0, q >= 1 PROVE FALSE
    BY <1>2, <1>4
  <2>1. UNIT * q >= UNIT
    BY <1>0, <1>2
  <2> QED
    BY <1>0, <1>2, <2>1
<1> HIDE DEF m
<1>10. n <= m /\ m < n + UNIT
  BY <1>0, <1>2, <1>6, <1>7
<1>11. n > 0 => q > 0
  BY <1>2, <1>4, <1>8, <1>10
<1> QED
  BY <1>2, <1>3, <1>4, <1>6, <1>7, <1>9, <1>10, <1>11

LEMMA UnitsOfMultiple ==
  ASSUME NEW q \in Nat
  PROVE  Units(q * UNIT) = q /\ q * UNIT \in Nat /\ (q * UNIT) % UNIT = 0 /\ (q * UNIT) \div UNIT = q
<1>0. UNIT \in Nat /\ UNIT > 1
  BY BufferConsts
<1> DEFINE m == q * UNIT
<1>1. m \in Nat /\ (q + 1) * UNIT = m + UNIT
  BY <1>0
<1>2. Units(m) = q
  <2>1. m + UNIT - 1 \in Nat /\ q * UNIT <= m + UNIT - 1 /\ m + UNIT - 1 < (q + 1) * UNIT
    BY <1>0, <1>1
  <2> QED
    BY <2>1, QuotientIs DEF Units
<1>3. m \div UNIT = q
  <2>1. q * UNIT <= m /\ m < (q + 1) * UNIT
    BY <1>0, <1>1
  <2> QED
    BY <1>1, <2>1, QuotientIs
<1>4. m % UNIT = 0
  <2> DEFINE d == m \div UNIT
             r == m % UNIT
  <2>1. Parts(m, d, r) /\ d = q
    BY <1>1, <1>3, Divided
  <2>2. UNIT * q = m
    BY <1>0
  <2> HIDE DEF m, d, r
  <2>3. r \in Nat /\ m = m + r
    BY <2>1, <2>2 DEF Parts
  <2>4. r = 0
    BY <1>1, <2>3
  <2> QED
    BY <2>4 DEF r
<1> QED
  BY <1>1, <1>2, <1>3, <1>4

LEMMA UnitsPlus ==
  ASSUME NEW n \in Nat
  PROVE  /\ Units(UNIT + n) = 1 + Units(n)
         /\ BlockSize(n) = (1 + Units(n)) * UNIT
         /\ alignup(UNIT + n) = BlockSize(n)
         /\ BlockSize(n) \in Nat
<1>0. UNIT \in Nat /\ UNIT > 1
  BY BufferConsts
<1> DEFINE q == Units(n)
           m == q * UNIT
<1>1. q \in Nat /\ m \in Nat /\ n <= m /\ m < n + UNIT /\ alignup(n) = m
  BY UnitsIs
<1> HIDE DEF q
<1>2. (1 + q) * UNIT = UNIT + m /\ (1 + q + 1) * UNIT = m + UNIT + UNIT
  BY <1>0, <1>1
<1> HIDE DEF m
<1>3. Units(UNIT + n) = 1 + q
  <2> DEFINE k == UNIT + n + UNIT - 1
  <2>1. k \in Nat /\ (1 + q) * UNIT <= k /\ k < (1 + q + 1) * UNIT
    BY <1>0, <1>1, <1>2
  <2>2. k \div UNIT = 1 + q
    <3> HIDE DEF k
    <3> QED
      BY <1>1, <2>1, QuotientIs
  <2> QED
    BY <2>2 DEF Units
<1>4. BlockSize(n) = UNIT + m
  BY <1>1 DEF BlockSize
<1>5. alignup(UNIT + n) = (1 + q) * UNIT
  BY <1>3 DEF alignup
<1> QED
  BY <1>0, <1>1, <1>2, <1>3, <1>4, <1>5 DEF q

\* a number of bytes that is a whole number of units
LEMMA WholeUnits ==
  ASSUME NEW n \in Nat, n % UNIT = 0
  PROVE  n = Units(n) * UNIT /\ n \div UNIT = Units(n)
<1>0. UNIT \in Nat /\ UNIT > 1
  BY BufferConsts
<1> DEFINE q == n \div UNIT
<1>1. q \in Int /\ n = UNIT * q
  BY <1>0
<1> HIDE DEF q
<1>2. q >= 0
  <2> SUFFICES ASSUME q <= -1 PROVE FALSE
    BY <1>1
  <2>1. UNIT * q <= -UNIT
    BY <1>0, <1>1
  <2> QED
    BY <1>0, <1>1, <2>1
<1>3. q \in Nat /\ n = q * UNIT
  BY <1>0, <1>1, <1>2
<1> QED
  BY <1>3, UnitsOfMultiple DEF q

-----------------------------------------------------------------------------
(* How blocks lie in the buffer: H is the set of the positions of headers. *)

Places == 0 .. Sentinel

Cell(c) ==
    /\ c = [size |-> c.size, ref |-> c.ref, text |-> c.text]
    /\ c.size \in Nat /\ c.ref \in Entries \cup {Nobody}

Cells(e) == e = [x \in Places |-> e[x]] /\ \A x \in Places : Cell(e[x])

\* the header of a block in use, or of a free one
IsHeader(c) ==
    /\ c.size >= UNIT
    /\ c.ref = Nobody => c.size = Units(c.size) * UNIT
    /\ c.ref # Nobody => c.size > UNIT

After(e, h) == h + Units(e[h].size)

\* each block ends where the next begins, and the last at the sentinel
Tiled(e, H) ==
    /\ H \subseteq Places /\ 0 \in H /\ Sentinel \in H
    /\ e[Sentinel].size = 0 /\ e[Sentinel].ref = Nobody
    /\ \A h \in H : h # Sentinel => IsHeader(e[h]) /\ After(e, h) \in H
    /\ \A g, h \in H : g < h => After(e, g) <= h

LEMMA PlacesAre == \A x : x \in Places <=> x \in Nat /\ x <= Sentinel
BY BufferConsts DEF Places

LEMMA BlockEnds ==
  ASSUME NEW e, Cells(e), NEW H, Tiled(e, H), NEW h \in H
  PROVE  /\ h \in Nat /\ h <= Sentinel /\ h \in Places
         /\ Units(e[h].size) \in Nat /\ After(e, h) \in Nat
         /\ h # Sentinel => h < After(e, h) /\ After(e, h) <= Sentinel /\ After(e, h) \in H
         /\ h = Sentinel => After(e, h) = Sentinel
<1>1. h \in Nat /\ h <= Sentinel /\ h \in Places
  BY PlacesAre DEF Tiled
<1>2. e[h].size \in Nat
  BY <1>1 DEF Cells, Cell
<1>3. Units(e[h].size) \in Nat /\ (e[h].size > 0 => Units(e[h].size) > 0)
      /\ (e[h].size = 0 => Units(e[h].size) = 0)
  BY <1>2, UnitsIs
<1>4. h # Sentinel => e[h].size > 0 /\ After(e, h) \in H
  <2>1. h # Sentinel => e[h].size >= UNIT /\ After(e, h) \in H
    BY DEF Tiled, IsHeader
  <2> QED
    BY <1>2, <2>1, BufferConsts
<1>5. h = Sentinel => e[h].size = 0
  BY DEF Tiled
<1>6. h # Sentinel => After(e, h) <= Sentinel
  BY <1>4, PlacesAre DEF Tiled
<1> HIDE DEF Tiled
<1> QED
  BY <1>1, <1>3, <1>4, <1>5, <1>6, BufferConsts DEF After

\* The inside of a block has no headers.
LEMMA InsideBlock ==
  ASSUME NEW e, Cells(e), NEW H, Tiled(e, H), NEW h \in H, NEW x \in Nat,
         h < x, x < After(e, h)
  PROVE  x \notin H /\ x \in Places
<1>1. h \in Nat /\ After(e, h) \in Nat /\ After(e, h) <= Sentinel
  BY BlockEnds, BufferConsts
<1>2. x \in Places
  BY <1>1, BufferConsts, PlacesAre
<1>3. x \in H => After(e, h) <= x
  BY DEF Tiled
<1> QED
  BY <1>1, <1>2, <1>3

\* what the walk of Headers does from position at
Onward(e, at) == IF at >= Sentinel THEN at ELSE at + Units(e[at].size)

Walk(e, g, n) ==
    /\ g = [k \in 0 .. n |-> g[k]]
    /\ g[0] = 0
    /\ \A k \in 1 .. n : g[k] = Onward(e, g[k - 1])

LEMMA WalkExists ==
  ASSUME NEW e, NEW N \in Nat
  PROVE  \E g : Walk(e, g, N)
<1> DEFINE S == {n \in 0 .. N : \E g : Walk(e, g, n)}
<1>1. 0 \in S
  <2>1. Walk(e, [k \in 0 .. 0 |-> 0], 0)
    BY DEF Walk
  <2> QED
    BY <2>1
<1>2. ASSUME NEW n \in 1 .. N, n - 1 \in S PROVE n \in S
  <2>1. PICK g : Walk(e, g, n - 1)
    BY <1>2
  <2> DEFINE h == [k \in 0 .. n |-> IF k = n THEN Onward(e, g[n - 1]) ELSE g[k]]
  <2>2. h = [k \in 0 .. n |-> h[k]] /\ h[0] = 0
    BY <2>1 DEF Walk
  <2>3. ASSUME NEW k \in 1 .. n PROVE h[k] = Onward(e, h[k - 1])
    <3>1. k - 1 \in 0 .. n /\ k - 1 # n
      OBVIOUS
    <3>2. h[k - 1] = g[k - 1]
      BY <3>1
    <3>3. CASE k = n
      BY <3>2, <3>3
    <3>4. CASE k # n
      <4>1. k \in 1 .. n - 1
        BY <3>4
      <4>2. h[k] = g[k]
        BY <3>4
      <4>3. g[k] = Onward(e, g[k - 1])
        BY <2>1, <4>1 DEF Walk
      <4> QED
        BY <3>2, <4>2, <4>3
    <3> QED
      BY <3>3, <3>4
  <2> HIDE DEF h
  <2>4. Walk(e, h, n)
    BY <2>2, <2>3 DEF Walk
  <2> QED
    BY <2>4
<1>3. \A n \in 0 .. N : n \in S
  <2> HIDE DEF S
  <2>1. S \subseteq 0 .. N
    BY DEF S
  <2> QED
    BY <1>1, <1>2, <2>1, NatInSet
<1> QED
  BY <1>3

LEMMA HeadersWalk ==
  ASSUME NEW b
  PROVE  \E g : Walk(b.e, g, Sentinel) /\ Headers(b) = {g[k] : k \in Places} \cap Places
<1> DEFINE n == Sentinel
           Step(f) == [k \in 0 .. Sentinel |->
                         IF k = 0 THEN 0
                         ELSE LET at == f[k - 1]
                              IN  IF at >= Sentinel THEN at ELSE at + Units(b.e[at].size)]
           walk == CHOOSE f : f = Step(f)
<1>0. Sentinel \in Nat
  BY BufferConsts
<1>1. Headers(b) = {walk[k] : k \in Places} \cap Places
  BY DEF Headers, Places
<1>2. PICK g : Walk(b.e, g, Sentinel)
  BY <1>0, WalkExists
<1>3. \A k \in 0 .. Sentinel : k = 0 \/ k \in 1 .. Sentinel
  BY <1>0
<1>4. g = Step(g)
  <2>1. \A k \in 0 .. Sentinel : g[k] = Step(g)[k]
    BY <1>2, <1>3 DEF Walk, Onward
  <2> QED
    BY <1>2, <2>1 DEF Walk
<1>5. walk = Step(walk)
  BY <1>4
<1> HIDE DEF walk
<1>6. Walk(b.e, walk, Sentinel)
  <2>1. 0 \in 0 .. Sentinel /\ \A k \in 1 .. Sentinel : k \in 0 .. Sentinel /\ k # 0
    BY <1>0
  <2>2. walk = [k \in 0 .. Sentinel |-> walk[k]] /\ walk[0] = 0
    BY <1>5, <2>1
  <2>3. \A k \in 1 .. Sentinel : walk[k] = Onward(b.e, walk[k - 1])
    BY <1>5, <2>1 DEF Onward
  <2> QED
    BY <2>2, <2>3 DEF Walk
<1> QED
  BY <1>1, <1>6

\* The walk meets the headers, and all of them.
LEMMA HeadersAre ==
  ASSUME NEW b, Cells(b.e), NEW H, Tiled(b.e, H)
  PROVE  Headers(b) = H
<1> DEFINE e == b.e
           N == Sentinel
<1>0. N \in Nat /\ \A h \in H : h \in Nat /\ h <= N /\ h \in Places
  BY BlockEnds, BufferConsts
<1>1. PICK g : Walk(e, g, N) /\ Headers(b) = {g[k] : k \in Places} \cap Places
  BY HeadersWalk
<1> DEFINE S == {k \in 0 .. N : g[k] \in H /\ (g[k] >= k \/ g[k] = N)}
<1> HIDE DEF N, e
<1>2. \A k \in 1 .. N : g[k] = Onward(e, g[k - 1])
  BY <1>1 DEF Walk
<1>3. \A h \in H : /\ Onward(e, h) \in H
                    /\ (h = N => Onward(e, h) = N)
                    /\ (h # N => Onward(e, h) > h /\ Onward(e, h) = After(e, h))
  <2> SUFFICES ASSUME NEW h \in H
               PROVE  /\ Onward(e, h) \in H
                      /\ (h = N => Onward(e, h) = N)
                      /\ (h # N => Onward(e, h) > h /\ Onward(e, h) = After(e, h))
    OBVIOUS
  <2>1. h = N => Onward(e, h) = N
    BY <1>0 DEF Onward, N
  <2>2. h # N => Onward(e, h) = After(e, h)
    BY <1>0 DEF Onward, After, N
  <2> QED
    BY <1>0, <2>1, <2>2, BlockEnds DEF N, e
<1>4. 0 \in S
  BY <1>0, <1>1 DEF Walk, Tiled
<1>5. ASSUME NEW k \in 1 .. N, k - 1 \in S PROVE k \in S
  <2>1. g[k - 1] \in H /\ (g[k - 1] >= k - 1 \/ g[k - 1] = N)
    BY <1>5
  <2>2. g[k] = Onward(e, g[k - 1])
    BY <1>2
  <2> PICK x : x = g[k - 1]
    OBVIOUS
  <2>3. x \in H /\ g[k] = Onward(e, x)
    BY <2>1, <2>2
  <2>4. g[k] \in H /\ (x = N => g[k] = N) /\ (x # N => g[k] > x)
    BY <1>3, <2>3
  <2>5. x \in Nat /\ g[k] \in Nat /\ (x >= k - 1 \/ x = N)
    BY <1>0, <2>1, <2>3, <2>4
  <2>6. g[k] >= k \/ g[k] = N
    BY <2>4, <2>5
  <2> QED
    BY <1>0, <2>4, <2>6
<1>6. \A k \in 0 .. N : k \in S
  <2> HIDE DEF S
  <2>1. S \subseteq 0 .. N
    BY DEF S
  <2> QED
    BY <1>0, <1>4, <1>5, <2>1, NatInSet
<1>7. ASSUME NEW h \in H PROVE \E k \in 0 .. N : g[k] = h
  <2> DEFINE T == {k \in 0 .. N : g[k] >= h}
  <2>1. N \in T
    <3>1. N \in S /\ N \in 0 .. N
      BY <1>0, <1>6
    <3>2. g[N] \in Nat /\ g[N] >= N
      BY <1>0, <3>1
    <3> QED
      BY <1>0, <3>1, <3>2
  <2>2. T \subseteq Nat /\ T # {}
    BY <2>1
  <2>3. PICK k \in T : \A j \in T : k <= j
    BY <2>2, NatHasMin
  <2>4. k \in 0 .. N /\ g[k] \in H /\ g[k] >= h
    BY <1>6, <2>3
  <2>5. CASE k = 0
    BY <1>0, <1>1, <2>4, <2>5 DEF Walk
  <2>6. CASE k # 0
    <3>1. k \in 1 .. N /\ k - 1 \in 0 .. N
      BY <1>0, <2>4, <2>6
    <3>2. g[k - 1] \in H /\ ~ (g[k - 1] >= h)
      <4>1. k - 1 \notin T
        BY <2>3, <3>1
      <4> QED
        BY <1>6, <3>1, <4>1
    <3>3. g[k - 1] < h
      BY <1>0, <3>2
    <3>4. After(e, g[k - 1]) <= h
      BY <3>2, <3>3 DEF Tiled, e
    <3>5. g[k - 1] # N
      BY <1>0, <3>2, <3>3
    <3>6. g[k] = After(e, g[k - 1])
      <4> PICK x : x = g[k - 1]
        OBVIOUS
      <4>1. g[k] = Onward(e, x) /\ x \in H /\ x # N
        BY <1>2, <3>1, <3>2, <3>5
      <4> QED
        BY <1>3, <4>1
    <3>7. g[k] = h
      BY <1>0, <2>4, <3>4, <3>6
    <3> QED
      BY <2>4, <3>7
  <2> QED
    BY <2>5, <2>6
<1>8. {g[k] : k \in 0 .. N} = H
  BY <1>6, <1>7
<1> QED
  BY <1>0, <1>1, <1>8 DEF Places, N

-----------------------------------------------------------------------------
(* Changes between two headers lo and hi, where there is one more at mid   *)
(* afterwards, or none if mid is hi.                                       *)

Outside(x, lo, hi) == x < lo \/ x >= hi

Changed(e, e2, lo, hi) == \A x \in Places : Outside(x, lo, hi) => e2[x] = e[x]

Replaced(H, lo, mid, hi) == {h \in H : Outside(h, lo, hi)} \cup {lo, mid}

\* the blocks between lo and hi
Between(e, lo, mid, hi) ==
    /\ IsHeader(e[lo]) /\ After(e, lo) = mid
    /\ mid < hi => IsHeader(e[mid]) /\ After(e, mid) = hi

LEMMA Retile ==
  ASSUME NEW e, Cells(e), NEW H, Tiled(e, H), NEW lo \in H, NEW hi \in H, NEW mid \in Nat,
         lo < mid, mid <= hi, NEW e2, Cells(e2), Changed(e, e2, lo, hi), Between(e2, lo, mid, hi)
  PROVE  Tiled(e2, Replaced(H, lo, mid, hi))
<1> DEFINE R == Replaced(H, lo, mid, hi)
<1>0. /\ Sentinel \in Nat /\ lo \in Nat /\ hi \in Nat /\ hi <= Sentinel /\ lo < hi
      /\ \A h \in H : h \in Nat /\ h <= Sentinel /\ h \in Places
  BY BlockEnds, BufferConsts
<1>1. hi \in R /\ lo \in R /\ mid \in R /\ \A h \in H : Outside(h, lo, hi) => h \in R
  BY <1>0 DEF Replaced, Outside
<1>2. \A r \in R : (r \in H /\ Outside(r, lo, hi)) \/ r = lo \/ (r = mid /\ mid < hi)
  BY <1>0 DEF Replaced, Outside
<1>3. R \subseteq Places /\ 0 \in R /\ Sentinel \in R
  <2>1. Outside(Sentinel, lo, hi) /\ Sentinel \in H
    BY <1>0 DEF Outside, Tiled
  <2>2. 0 \in H /\ (Outside(0, lo, hi) \/ lo = 0)
    BY <1>0 DEF Outside, Tiled
  <2>3. mid \in Places
    BY <1>0, PlacesAre
  <2> HIDE DEF R
  <2> QED
    BY <1>0, <1>1, <1>2, <2>1, <2>2, <2>3
<1>4. \A h \in H : Outside(h, lo, hi) => e2[h] = e[h] /\ After(e2, h) = After(e, h)
  BY <1>0 DEF Changed, After
<1>5. \A h \in H : Outside(h, lo, hi) /\ h # Sentinel =>
                      /\ (After(e, h) \in H /\ Outside(After(e, h), lo, hi)) \/ After(e, h) = lo
                      /\ h < lo => After(e, h) <= lo
                      /\ h >= hi => After(e, h) > hi
  <2> SUFFICES ASSUME NEW h \in H, Outside(h, lo, hi), h # Sentinel
               PROVE  /\ (After(e, h) \in H /\ Outside(After(e, h), lo, hi)) \/ After(e, h) = lo
                      /\ h < lo => After(e, h) <= lo
                      /\ h >= hi => After(e, h) > hi
    OBVIOUS
  <2>1. h < After(e, h) /\ After(e, h) \in H /\ After(e, h) \in Nat
    BY BlockEnds
  <2>2. h < lo => After(e, h) <= lo
    BY DEF Tiled
  <2> QED
    BY <1>0, <2>1, <2>2 DEF Outside
<1>6. e2[Sentinel].size = 0 /\ e2[Sentinel].ref = Nobody
  <2>1. Outside(Sentinel, lo, hi) /\ Sentinel \in H
    BY <1>0 DEF Outside, Tiled
  <2> QED
    BY <1>4, <2>1 DEF Tiled
<1>7. After(e2, lo) = mid /\ IsHeader(e2[lo])
      /\ (mid < hi => After(e2, mid) = hi /\ IsHeader(e2[mid]))
  BY DEF Between
<1> HIDE DEF R
<1>8. ASSUME NEW h \in R, h # Sentinel PROVE IsHeader(e2[h]) /\ After(e2, h) \in R
  <2>1. CASE h \in H /\ Outside(h, lo, hi)
    <3>1. IsHeader(e[h])
      BY <1>8, <2>1 DEF Tiled
    <3> QED
      BY <1>1, <1>4, <1>5, <1>8, <2>1, <3>1
  <2> QED
    BY <1>1, <1>2, <1>7, <2>1
<1>9. ASSUME NEW g \in R, NEW h \in R, g < h PROVE After(e2, g) <= h
  <2>0. g \in Nat /\ h \in Nat
    BY <1>0, <1>2
  <2>1. CASE g \in H /\ Outside(g, lo, hi)
    <3>1. CASE h \in H
      <4>1. After(e, g) <= h
        BY <1>9, <2>1, <3>1 DEF Tiled
      <4> QED
        BY <1>4, <2>1, <4>1
    <3>2. CASE h \notin H
      <4>1. h = mid /\ mid < hi
        BY <1>2, <3>2
      <4>2. g < lo
        BY <1>0, <1>9, <2>0, <2>1, <4>1 DEF Outside
      <4>3. g # Sentinel
        BY <1>0, <4>2
      <4>4. After(e, g) <= lo /\ After(e, g) \in Nat
        BY <1>0, <1>5, <2>1, <4>2, <4>3, BlockEnds
      <4>5. After(e2, g) <= lo /\ After(e2, g) \in Nat
        BY <1>4, <2>1, <4>4
      <4> QED
        BY <1>0, <4>1, <4>5
    <3> QED
      BY <3>1, <3>2
  <2>2. CASE g = lo
    <3>1. h >= mid
      BY <1>0, <1>2, <1>9, <2>0, <2>2 DEF Outside
    <3> QED
      BY <1>7, <2>2, <3>1
  <2>3. CASE g = mid /\ mid < hi
    <3>1. h >= hi
      BY <1>0, <1>2, <1>9, <2>0, <2>3 DEF Outside
    <3> QED
      BY <1>7, <2>3, <3>1
  <2> QED
    BY <1>2, <2>1, <2>2, <2>3
<1>10. Tiled(e2, R)
  BY <1>3, <1>6, <1>8, <1>9 DEF Tiled
<1> QED
  BY <1>10 DEF R

\* the block at h has the URI of entry i
Holds(e, h, i, uri) ==
    /\ e[h].ref = i /\ e[h].size = UNIT + UriLen[uri]
    /\ \A k \in 1 .. Units(UriLen[uri]) : e[h + k].text = <<uri, k>>

LEMMA HoldsUpto ==
  ASSUME NEW e, NEW h, NEW i, NEW uri \in Uris, Holds(e, h, i, uri), h \in Nat
  PROVE  After(e, h) = h + 1 + Units(UriLen[uri]) /\ Units(UriLen[uri]) \in Nat
         /\ Units(UriLen[uri]) >= 1
<1>1. UriLen[uri] \in Nat /\ UriLen[uri] >= 1
  BY BufferConsts
<1>2. Units(UNIT + UriLen[uri]) = 1 + Units(UriLen[uri])
  BY <1>1, UnitsPlus
<1>3. Units(UriLen[uri]) \in Nat /\ Units(UriLen[uri]) > 0
  BY <1>1, UnitsIs
<1> QED
  BY <1>2, <1>3 DEF Holds, After

\* Blocks elsewhere keep what they hold.
LEMMA HoldsKept ==
  ASSUME NEW e, Cells(e), NEW H, Tiled(e, H), NEW lo \in H, NEW hi \in H, lo < hi,
         NEW e2, Changed(e, e2, lo, hi),
         NEW h \in H, Outside(h, lo, hi), NEW i \in Entries, NEW uri \in Uris, Holds(e, h, i, uri)
  PROVE  Holds(e2, h, i, uri)
<1>0. /\ Sentinel \in Nat /\ lo \in Nat /\ hi \in Nat /\ h \in Nat /\ h \in Places
      /\ After(e, h) \in Nat
  BY BlockEnds, BufferConsts
<1>1. h # Sentinel
  BY BufferConsts DEF Tiled, Holds
<1>2. After(e, h) <= Sentinel
  BY <1>1, BlockEnds
<1>3. h < lo => After(e, h) <= lo
  BY DEF Tiled
<1>4. After(e, h) = h + 1 + Units(UriLen[uri]) /\ Units(UriLen[uri]) \in Nat
  BY <1>0, HoldsUpto
<1>5. e2[h] = e[h]
  BY <1>0 DEF Changed
<1>6. ASSUME NEW k \in 1 .. Units(UriLen[uri]) PROVE e2[h + k].text = <<uri, k>>
  <2>1. h + k \in Nat /\ h + k < After(e, h) /\ h + k > h
    BY <1>0, <1>4
  <2>2. h + k \in Places
    BY <1>0, <1>2, <2>1, PlacesAre
  <2>3. Outside(h + k, lo, hi)
    BY <1>0, <1>3, <2>1 DEF Outside
  <2>4. e2[h + k] = e[h + k]
    BY <2>2, <2>3 DEF Changed
  <2> QED
    BY <2>4 DEF Holds
<1> QED
  BY <1>5, <1>6 DEF Holds

LEMMA OneBlock ==
  ASSUME NEW e, Cells(e), NEW H, Tiled(e, H), NEW lo \in H, lo # Sentinel
  PROVE  H = Replaced(H, lo, After(e, lo), After(e, lo))
<1>1. After(e, lo) \in H /\ lo < After(e, lo) /\ lo \in Nat /\ After(e, lo) \in Nat
  BY BlockEnds
<1>2. \A h \in H : Outside(h, lo, After(e, lo)) \/ h = lo
  <2> SUFFICES ASSUME NEW h \in H, h # lo PROVE Outside(h, lo, After(e, lo))
    OBVIOUS
  <2>1. h \in Nat /\ (lo < h => After(e, lo) <= h)
    BY BlockEnds DEF Tiled
  <2> QED
    BY <1>1, <2>1 DEF Outside
<1> QED
  BY <1>1, <1>2 DEF Replaced

LEMMA TwoBlocks ==
  ASSUME NEW e, Cells(e), NEW H, Tiled(e, H), NEW lo \in H, lo # Sentinel,
         NEW mid, mid = After(e, lo), mid # Sentinel
  PROVE  H = Replaced(H, lo, mid, After(e, mid))
<1>1. mid \in H /\ lo < mid /\ lo \in Nat /\ mid \in Nat
  BY BlockEnds
<1>2. After(e, mid) \in H /\ mid < After(e, mid) /\ After(e, mid) \in Nat
  BY <1>1, BlockEnds
<1>3. \A h \in H : Outside(h, lo, After(e, mid)) \/ h = lo \/ h = mid
  <2> SUFFICES ASSUME NEW h \in H, h # lo, h # mid PROVE Outside(h, lo, After(e, mid))
    OBVIOUS
  <2>1. h \in Nat /\ (lo < h => mid <= h) /\ (mid < h => After(e, mid) <= h)
    BY <1>1, BlockEnds DEF Tiled
  <2> QED
    BY <1>1, <1>2, <2>1 DEF Outside
<1> QED
  BY <1>1, <1>2, <1>3 DEF Replaced

-----------------------------------------------------------------------------
(* The bytes of free blocks. *)

SizeOf(e) == [x \in Places |-> e[x].size]
FreeHeaders(e, H) == {h \in H : e[h].ref = Nobody}
FreeBytes(e, H) == Sum(SizeOf(e), FreeHeaders(e, H))

FreeOut(e, H, lo, hi) == {h \in H : Outside(h, lo, hi) /\ e[h].ref = Nobody}
FreeAt(e, x) == IF e[x].ref = Nobody THEN e[x].size ELSE 0

LEMMA SizesAre ==
  ASSUME NEW e, Cells(e), NEW S, S \subseteq Places
  PROVE  IsFiniteSet(S) /\ \A x \in S : SizeOf(e)[x] \in Nat /\ SizeOf(e)[x] = e[x].size
<1>1. IsFiniteSet(Places)
  BY BufferConsts, FS_Interval DEF Places
<1>2. IsFiniteSet(S)
  BY <1>1, FS_Subset
<1>3. \A x \in S : SizeOf(e)[x] = e[x].size /\ e[x].size \in Nat
  BY DEF SizeOf, Cells, Cell
<1> QED
  BY <1>2, <1>3

LEMMA SumWith ==
  ASSUME NEW f, NEW S, IsFiniteSet(S), NEW y, y \notin S, \A x \in S \cup {y} : f[x] \in Nat
  PROVE  Sum(f, S \cup {y}) = f[y] + Sum(f, S) /\ Sum(f, S) \in Nat
<1>1. IsFiniteSet(S \cup {y})
  BY FS_AddElement
<1>2. (S \cup {y}) \ {y} = S
  OBVIOUS
<1>3. Sum(f, S \cup {y}) = f[y] + Sum(f, (S \cup {y}) \ {y})
  BY <1>1, SumWithout
<1> QED
  BY <1>2, <1>3, SumType

LEMMA FreePlus ==
  ASSUME NEW e, Cells(e), NEW S, S \subseteq Places, NEW y \in Places, y \notin S,
         NEW T, T = IF e[y].ref = Nobody THEN S \cup {y} ELSE S
  PROVE  Sum(SizeOf(e), T) = FreeAt(e, y) + Sum(SizeOf(e), S) /\ T \subseteq Places
<1>1. IsFiniteSet(S) /\ \A x \in S \cup {y} : SizeOf(e)[x] \in Nat /\ SizeOf(e)[x] = e[x].size
  BY SizesAre
<1>2. Sum(SizeOf(e), S) \in Nat /\ Sum(SizeOf(e), S \cup {y}) = e[y].size + Sum(SizeOf(e), S)
  BY <1>1, SumWith
<1> QED
  BY <1>2 DEF FreeAt

LEMMA FreeBytesAre ==
  ASSUME NEW e, Cells(e), NEW H, H \subseteq Places, NEW lo \in H, NEW hi \in H,
         NEW mid \in Places, lo < mid, mid <= hi
  PROVE  FreeBytes(e, Replaced(H, lo, mid, hi))
            = FreeAt(e, lo) + (IF mid < hi THEN FreeAt(e, mid) ELSE 0)
                + Sum(SizeOf(e), FreeOut(e, H, lo, hi))
<1> DEFINE R == Replaced(H, lo, mid, hi)
           O == FreeOut(e, H, lo, hi)
           A == IF e[lo].ref = Nobody THEN O \cup {lo} ELSE O
           Z == IF e[mid].ref = Nobody THEN A \cup {mid} ELSE A
<1>0. lo \in Places /\ hi \in Places /\ lo \in Nat /\ hi \in Nat /\ mid \in Nat
  BY PlacesAre
<1>1. O \subseteq Places /\ lo \notin O /\ (mid < hi => mid \notin O)
  <2>1. ~ Outside(lo, lo, hi) /\ (mid < hi => ~ Outside(mid, lo, hi))
    BY <1>0 DEF Outside
  <2> QED
    BY <2>1, Zenon DEF FreeOut
<1>2. Sum(SizeOf(e), A) = FreeAt(e, lo) + Sum(SizeOf(e), O) /\ A \subseteq Places
  BY <1>0, <1>1, FreePlus
<1>3. Sum(SizeOf(e), O) \in Nat /\ FreeAt(e, lo) \in Nat /\ FreeAt(e, mid) \in Nat
  <2>1. IsFiniteSet(O) /\ \A x \in O : SizeOf(e)[x] \in Nat
    BY <1>1, SizesAre
  <2>2. Sum(SizeOf(e), O) \in Nat
    BY <2>1, SumType
  <2> QED
    BY <1>0, <2>2 DEF FreeAt, Cells, Cell
<1>4. CASE mid < hi
  <2>1. FreeHeaders(e, R) = Z
    BY <1>0, <1>4 DEF FreeHeaders, Replaced, FreeOut, Outside
  <2>2. mid \notin A
    BY <1>0, <1>1, <1>4
  <2>3. Sum(SizeOf(e), Z) = FreeAt(e, mid) + Sum(SizeOf(e), A)
    BY <1>2, <2>2, FreePlus
  <2> HIDE DEF R, O, A, Z
  <2>4. FreeBytes(e, R) = Sum(SizeOf(e), Z)
    BY <2>1 DEF FreeBytes
  <2> QED
    BY <1>2, <1>3, <1>4, <2>3, <2>4 DEF R, O
<1>5. CASE ~ (mid < hi)
  <2>1. FreeHeaders(e, R) = A
    <3>1. mid = hi
      BY <1>0, <1>5
    <3> QED
      BY <1>0, <3>1 DEF FreeHeaders, Replaced, FreeOut, Outside
  <2> HIDE DEF R, O, A, Z
  <2>2. FreeBytes(e, R) = Sum(SizeOf(e), A)
    BY <2>1 DEF FreeBytes
  <2> QED
    BY <1>2, <1>3, <1>5, <2>2 DEF R, O
<1> QED
  BY <1>4, <1>5

LEMMA FreeOutSame ==
  ASSUME NEW e, Cells(e), NEW e2, Cells(e2), NEW H, H \subseteq Places, NEW lo, NEW hi,
         Changed(e, e2, lo, hi)
  PROVE  Sum(SizeOf(e2), FreeOut(e2, H, lo, hi)) = Sum(SizeOf(e), FreeOut(e, H, lo, hi))
         /\ Sum(SizeOf(e), FreeOut(e, H, lo, hi)) \in Nat
<1> DEFINE O == FreeOut(e, H, lo, hi)
<1>1. \A x \in H : Outside(x, lo, hi) => e2[x] = e[x]
  BY DEF Changed
<1>2. FreeOut(e2, H, lo, hi) = O
  BY <1>1 DEF FreeOut
<1>3. O \subseteq Places /\ \A x \in O : e2[x] = e[x]
  BY <1>1 DEF FreeOut
<1> HIDE DEF O
<1>4. IsFiniteSet(O) /\ \A x \in O : SizeOf(e)[x] \in Nat /\ SizeOf(e2)[x] = SizeOf(e)[x]
  <2>1. IsFiniteSet(O) /\ \A x \in O : SizeOf(e)[x] \in Nat /\ SizeOf(e)[x] = e[x].size
    BY <1>3, SizesAre
  <2>2. \A x \in O : SizeOf(e2)[x] = e2[x].size
    BY <1>3, SizesAre
  <2> QED
    BY <1>3, <2>1, <2>2
<1>5. Sum(SizeOf(e), O) = Sum(SizeOf(e2), O) /\ Sum(SizeOf(e), O) \in Nat
  <2>1. Sum(SizeOf(e), O) = Sum(SizeOf(e2), O)
    BY <1>4, SumSame
  <2>2. Sum(SizeOf(e), O) \in Nat
    BY <1>4, SumType
  <2> QED
    BY <2>1, <2>2
<1> QED
  BY <1>2, <1>5 DEF O

\* What the change of headers does to the free bytes.
LEMMA FreeBytesChange ==
  ASSUME NEW e, Cells(e), NEW e2, Cells(e2), NEW H, H \subseteq Places,
         NEW lo \in H, NEW hi \in H, Changed(e, e2, lo, hi),
         NEW mid \in Places, lo < mid, mid <= hi, H = Replaced(H, lo, mid, hi),
         NEW mid2 \in Places, lo < mid2, mid2 <= hi
  PROVE  FreeBytes(e2, Replaced(H, lo, mid2, hi))
           = FreeBytes(e, H)
               - FreeAt(e, lo) - (IF mid < hi THEN FreeAt(e, mid) ELSE 0)
               + FreeAt(e2, lo) + (IF mid2 < hi THEN FreeAt(e2, mid2) ELSE 0)
<1> DEFINE a == FreeAt(e, lo)
           m == IF mid < hi THEN FreeAt(e, mid) ELSE 0
           a2 == FreeAt(e2, lo)
           m2 == IF mid2 < hi THEN FreeAt(e2, mid2) ELSE 0
           o == Sum(SizeOf(e), FreeOut(e, H, lo, hi))
<1>1. FreeBytes(e, H) = a + m + o
  BY FreeBytesAre
<1>2. FreeBytes(e2, Replaced(H, lo, mid2, hi)) = a2 + m2 + o
  BY FreeBytesAre, FreeOutSame
<1>3. o \in Nat
  BY FreeOutSame
<1>4. a \in Nat /\ m \in Nat /\ a2 \in Nat /\ m2 \in Nat
  BY DEF FreeAt, Cells, Cell
<1> HIDE DEF a, m, a2, m2, o
<1>5. FreeBytes(e2, Replaced(H, lo, mid2, hi)) = FreeBytes(e, H) - a - m + a2 + m2
  BY <1>1, <1>2, <1>3, <1>4
<1> QED
  BY <1>5 DEF a, m, a2, m2

-----------------------------------------------------------------------------
(* What is said of a buffer: where is known for the entries U, and entry i *)
(* has URI ur[i].                                                          *)

BufType(b) ==
    /\ b = [freespace |-> b.freespace, firstfree |-> b.firstfree,
            openspace |-> b.openspace, e |-> b.e]
    /\ b.freespace \in Nat /\ Cells(b.e)

Marks(b, H) ==
    /\ b.firstfree \in H /\ b.openspace \in H /\ b.firstfree <= b.openspace
    /\ b.e[b.firstfree].ref = Nobody /\ b.e[b.openspace].ref = Nobody
    /\ \A h \in H : /\ h < b.firstfree => b.e[h].ref # Nobody
                    /\ h < b.openspace => b.e[h].size > UNIT
                    /\ h > b.openspace => h = Sentinel

Owned(e, H, where, U, ur) ==
    /\ \A i \in U : where[i] \in H /\ ur[i] \in Uris /\ Holds(e, where[i], i, ur[i])
    /\ \A h \in H : e[h].ref # Nobody => e[h].ref \in U /\ where[e[h].ref] = h

Needs(ur) == [i \in Entries |-> BlockSize(UriLen[ur[i]])]

Counted(b, H, U, ur) ==
    /\ b.freespace = FreeBytes(b.e, H)
    /\ b.freespace + Sum(Needs(ur), U) = Sentinel * UNIT

Known(where, U, ur) ==
    /\ U \subseteq Entries /\ where \in [Entries -> Nat] /\ ur = [i \in Entries |-> ur[i]]

Laid(b, where, U, ur, H) ==
    /\ BufType(b) /\ Known(where, U, ur)
    /\ Tiled(b.e, H) /\ Marks(b, H) /\ Owned(b.e, H, where, U, ur) /\ Counted(b, H, U, ur)

LEMMA NeedsAre ==
  ASSUME NEW U, U \subseteq Entries, NEW ur, \A i \in U : ur[i] \in Uris
  PROVE  IsFiniteSet(U) /\ \A i \in U : Needs(ur)[i] = BlockSize(UriLen[ur[i]]) /\ Needs(ur)[i] \in Nat
<1>1. IsFiniteSet(Entries)
  BY Consts, FS_Interval DEF Entries
<1>2. IsFiniteSet(U)
  BY <1>1, FS_Subset
<1>3. \A i \in U : BlockSize(UriLen[ur[i]]) \in Nat
  BY BufferConsts, UnitsPlus
<1> QED
  BY <1>2, <1>3 DEF Needs

LEMMA NeedsSame ==
  ASSUME NEW U, U \subseteq Entries, NEW ur, NEW ur2,
         \A i \in U : ur[i] \in Uris /\ ur[i] = ur2[i]
  PROVE  Sum(Needs(ur2), U) = Sum(Needs(ur), U) /\ Sum(Needs(ur), U) \in Nat
<1>1. IsFiniteSet(U) /\ \A i \in U : Needs(ur)[i] \in Nat
  BY NeedsAre
<1>2. \A i \in U : Needs(ur)[i] = Needs(ur2)[i]
  BY DEF Needs
<1>3. Sum(Needs(ur), U) = Sum(Needs(ur2), U)
  BY <1>1, <1>2, SumSame
<1>4. Sum(Needs(ur), U) \in Nat
  BY <1>1, SumType
<1> QED
  BY <1>3, <1>4

-----------------------------------------------------------------------------
(* Allocation. *)

LEMMA AllocNumbers ==
  ASSUME NEW size \in Nat, size = Units(size) * UNIT, NEW len \in Nat, len >= 1,
         size >= BlockSize(len)
  PROVE  /\ Units(len) \in Nat /\ Units(len) >= 1 /\ Units(size) \in Nat
         /\ Units(UNIT + len) = 1 + Units(len)
         /\ BlockSize(len) = (1 + Units(len)) * UNIT /\ BlockSize(len) \in Nat
         /\ BlockSize(len) \div UNIT = 1 + Units(len)
         /\ 1 + Units(len) <= Units(size)
         /\ size - BlockSize(len) \in Nat
         /\ Units(size - BlockSize(len)) = Units(size) - (1 + Units(len))
         /\ size - BlockSize(len) = Units(size - BlockSize(len)) * UNIT
         /\ size - BlockSize(len) < UNIT <=> Units(size) = 1 + Units(len)
         /\ size - BlockSize(len) < UNIT => size = BlockSize(len)
<1> DEFINE m == 1 + Units(len)
           K == Units(size)
           B == BlockSize(len)
           r == K - m
<1>0. UNIT \in Nat /\ UNIT > 1
  BY BufferConsts
<1>1. Units(len) \in Nat /\ Units(len) >= 1 /\ K \in Nat
  BY UnitsIs
<1>2. Units(UNIT + len) = m /\ B = m * UNIT /\ B \in Nat
  BY UnitsPlus
<1>3. m \in Nat /\ m >= 2
  BY <1>1
<1>4. size = K * UNIT /\ size >= B
  OBVIOUS
<1> HIDE DEF m, K, B
<1>5. B \div UNIT = m
  BY <1>2, <1>3, UnitsOfMultiple
<1>6. m <= K
  <2> SUFFICES ASSUME K + 1 <= m PROVE FALSE
    BY <1>1, <1>3
  <2>1. (K + 1) * UNIT <= m * UNIT
    BY <1>0, <1>1, <1>3
  <2>2. (K + 1) * UNIT = K * UNIT + UNIT
    BY <1>0, <1>1
  <2> QED
    BY <1>0, <1>2, <1>4, <2>1, <2>2
<1>7. r \in Nat
  BY <1>1, <1>3, <1>6
<1>8. size - B = r * UNIT
  <2>1. r * UNIT = K * UNIT - m * UNIT
    BY <1>0, <1>1, <1>3
  <2> QED
    BY <1>2, <1>4, <2>1
<1>9. Units(size - B) = r /\ size - B \in Nat
  BY <1>7, <1>8, UnitsOfMultiple
<1>10. size - B < UNIT <=> r = 0
  <2>1. r = 0 => size - B = 0
    BY <1>0, <1>8
  <2>2. r >= 1 => r * UNIT >= UNIT
    BY <1>0, <1>7
  <2> QED
    BY <1>0, <1>7, <1>8, <1>9, <2>1, <2>2
<1>11. size - B < UNIT => size = B
  <2>1. r = 0 => r * UNIT = 0
    BY <1>0
  <2> QED
    BY <1>2, <1>8, <1>10, <2>1
<1>12. r = 0 <=> K = m
  BY <1>1, <1>3
<1> HIDE DEF r
<1>13. /\ size - B = Units(size - B) * UNIT /\ Units(size - B) = K - m
       /\ (size - B < UNIT <=> K = m)
  BY <1>8, <1>9, <1>10, <1>12 DEF r
<1> QED
  BY <1>1, <1>2, <1>5, <1>6, <1>9, <1>11, <1>13 DEF m, K, B

\* b2 is b with the URI of entry i at position at, and open space from mid on
Allocated(b, b2, i, uri, at, mid) ==
    /\ BufType(b2) /\ Changed(b.e, b2.e, at, Sentinel) /\ Holds(b2.e, at, i, uri)
    /\ b2.freespace = b.freespace - BlockSize(UriLen[uri])
    /\ b2.firstfree = IF b.firstfree = at THEN mid ELSE b.firstfree
    /\ b2.openspace = mid
    /\ mid = at + 1 + Units(UriLen[uri]) /\ mid <= Sentinel
    /\ mid < Sentinel =>
          /\ IsHeader(b2.e[mid]) /\ b2.e[mid].ref = Nobody /\ After(b2.e, mid) = Sentinel
          /\ b2.e[mid].size = b.e[at].size - BlockSize(UriLen[uri])
    /\ mid = Sentinel => b.e[at].size = BlockSize(UriLen[uri])

LEMMA AllocIs ==
  ASSUME NEW b, BufType(b), NEW H, Tiled(b.e, H), Marks(b, H), NEW i \in Entries, NEW uri \in Uris,
         AllocResult(b, UriLen[uri]) = "IAR_OK"
  PROVE  /\ Allocated(b, zhe_icgcb_alloc(b, UriLen[uri], i, uri), i, uri, b.openspace,
                      b.openspace + 1 + Units(UriLen[uri]))
         /\ b.openspace # Sentinel /\ After(b.e, b.openspace) = Sentinel
<1> DEFINE len == UriLen[uri]
           at == b.openspace
           size == b.e[at].size
           rest == size - BlockSize(len)
           m == 1 + Units(len)
           mid == at + m
           nx == IF rest < UNIT THEN Sentinel ELSE at + BlockSize(len) \div UNIT
<1> PICK b2 : b2 = zhe_icgcb_alloc(b, len, i, uri)
  OBVIOUS
<1>0. len \in Nat /\ len >= 1 /\ UNIT \in Nat /\ UNIT > 1 /\ Sentinel \in Nat /\ Nobody # i
  BY BufferConsts
<1>1. /\ at \in H /\ at \in Nat /\ at \in Places /\ b.e[at].ref = Nobody /\ size \in Nat
      /\ b.freespace \in Nat /\ Cells(b.e)
  <2>1. at \in H /\ b.e[at].ref = Nobody
    BY DEF Marks
  <2>2. b.freespace \in Nat /\ Cells(b.e)
    BY DEF BufType
  <2>3. at \in Nat /\ at \in Places
    BY <2>1, <2>2, BlockEnds
  <2>4. size \in Nat
    BY <2>2, <2>3 DEF Cells, Cell
  <2> QED
    BY <2>1, <2>2, <2>3, <2>4
<1>2. BlockSize(len) \in Nat /\ ~ (b.freespace < BlockSize(len)) /\ ~ (size < BlockSize(len))
  <2>1. ~ (b.freespace < BlockSize(len)) /\ ~ (size < BlockSize(len))
    BY DEF AllocResult
  <2> QED
    BY <1>0, <2>1, UnitsPlus
<1>3. at # Sentinel
  <2>1. BlockSize(len) = (1 + Units(len)) * UNIT /\ Units(len) \in Nat
    BY <1>0, UnitsPlus, UnitsIs
  <2>2. BlockSize(len) # 0
    BY <1>0, <2>1
  <2>3. size # 0
    BY <1>1, <1>2, <2>2
  <2> QED
    BY <2>3 DEF Tiled
<1>4. After(b.e, at) = Sentinel
  <2>1. After(b.e, at) \in H /\ After(b.e, at) > at
    BY <1>1, <1>3, BlockEnds
  <2> QED
    BY <2>1 DEF Marks
<1>5. size = Units(size) * UNIT
  BY <1>1, <1>3 DEF Tiled, IsHeader
<1>6. /\ Units(len) \in Nat /\ Units(len) >= 1 /\ Units(size) \in Nat /\ m <= Units(size)
      /\ Units(UNIT + len) = m
      /\ BlockSize(len) \div UNIT = m
      /\ rest \in Nat /\ Units(rest) = Units(size) - m /\ rest = Units(rest) * UNIT
      /\ (rest < UNIT <=> Units(size) = m) /\ (rest < UNIT => size = BlockSize(len))
  <2>1. size >= BlockSize(len)
    BY <1>1, <1>2
  <2> HIDE DEF size, len
  <2> QED
    BY <1>0, <1>1, <1>5, <2>1, AllocNumbers
<1>7. at + Units(size) = Sentinel
  BY <1>4 DEF After
<1> HIDE DEF size
<1>8. mid \in Nat /\ mid <= Sentinel /\ (mid < Sentinel <=> ~ (rest < UNIT)) /\ mid > at
  <2> HIDE DEF rest, len
  <2>1. rest < UNIT <=> Units(size) = 1 + Units(len)
    BY <1>6
  <2>2. Units(len) \in Nat /\ Units(size) \in Nat /\ 1 + Units(len) <= Units(size)
    BY <1>6
  <2> HIDE DEF rest
  <2> DEFINE u == Units(len)
             v == Units(size)
  <2> HIDE DEF u, v
  <2>3. u \in Nat /\ v \in Nat /\ 1 + u <= v /\ (rest < UNIT <=> v = 1 + u) /\ at + v = Sentinel
    BY <1>7, <2>1, <2>2 DEF u, v
  <2>4. mid = at + (1 + u)
    BY DEF u
  <2> HIDE DEF mid, at
  <2> QED
    BY <1>0, <1>1, <2>3, <2>4
<1>9. nx = mid
  <2>1. CASE rest < UNIT
    BY <1>0, <1>8, <2>1
  <2>2. CASE ~ (rest < UNIT)
    <3>1. nx = at + BlockSize(len) \div UNIT
      BY <2>2
    <3> QED
      BY <1>6, <3>1
  <2> QED
    BY <2>1, <2>2
<1>10. b2 = [freespace |-> b.freespace - BlockSize(len),
             firstfree |-> IF b.firstfree = at THEN nx ELSE b.firstfree,
             openspace |-> nx,
             e |-> [x \in Places |->
                       IF x = at THEN Header(UNIT + len, i)
                       ELSE IF x > at /\ x <= at + Units(len) THEN Contents(<<uri, x - at>>)
                       ELSE IF x = nx /\ rest >= UNIT THEN Header(rest, Nobody)
                       ELSE b.e[x]]]
  BY DEF zhe_icgcb_alloc, Places, size
<1>11. \A x \in Places : b2.e[x] = IF x = at THEN Header(UNIT + len, i)
                       ELSE IF x > at /\ x <= at + Units(len) THEN Contents(<<uri, x - at>>)
                       ELSE IF x = mid /\ rest >= UNIT THEN Header(rest, Nobody)
                       ELSE b.e[x]
  BY <1>9, <1>10
<1>12. /\ b2.freespace = b.freespace - BlockSize(len) /\ b2.openspace = mid
       /\ b2.firstfree = IF b.firstfree = at THEN mid ELSE b.firstfree
       /\ b2 = [freespace |-> b2.freespace, firstfree |-> b2.firstfree,
                openspace |-> b2.openspace, e |-> b2.e]
       /\ b2.e = [x \in Places |-> b2.e[x]]
  BY <1>9, <1>10
<1>13. mid = at + 1 + Units(len)
  BY <1>1, <1>6
<1>14. b2.freespace \in Nat
  BY <1>1, <1>2, <1>12
<1> HIDE DEF mid, rest, nx, at, len, m
<1>15. rest >= UNIT <=> mid < Sentinel
  BY <1>0, <1>6, <1>8
<1>16. \A x \in Places : Cell(b2.e[x])
  <2> SUFFICES ASSUME NEW x \in Places PROVE Cell(b2.e[x])
    OBVIOUS
  <2>1. Cell(Header(UNIT + len, i)) /\ Cell(Header(rest, Nobody)) /\ Cell(b.e[x])
        /\ Cell(Contents(<<uri, x - at>>))
    BY <1>0, <1>1, <1>6 DEF Cell, Header, Contents, Cells
  <2> QED
    BY <1>11, <2>1
<1>17. Changed(b.e, b2.e, at, Sentinel)
  <2> SUFFICES ASSUME NEW x \in Places, Outside(x, at, Sentinel) PROVE b2.e[x] = b.e[x]
    BY DEF Changed
  <2>1. x \in Nat /\ x <= Sentinel
    BY PlacesAre
  <2>2. x # at /\ ~ (x > at /\ x <= at + Units(len)) /\ ~ (x = mid /\ rest >= UNIT)
    BY <1>0, <1>1, <1>6, <1>8, <1>13, <1>15, <2>1 DEF Outside
  <2> QED
    BY <1>11, <2>2
<1>18. Holds(b2.e, at, i, uri)
  <2>1. b2.e[at] = Header(UNIT + len, i)
    BY <1>1, <1>11
  <2>2. ASSUME NEW k \in 1 .. Units(len) PROVE b2.e[at + k].text = <<uri, k>>
    <3>1. at + k \in Nat /\ at + k <= Sentinel /\ at + k # at /\ at + k > at
          /\ at + k <= at + Units(len) /\ (at + k) - at = k
      BY <1>0, <1>1, <1>6, <1>8, <1>13
    <3>2. at + k \in Places
      BY <3>1, PlacesAre
    <3>3. b2.e[at + k] = Contents(<<uri, (at + k) - at>>)
      BY <1>11, <3>1, <3>2
    <3> QED
      BY <3>1, <3>3 DEF Contents
  <2> QED
    BY <2>1, <2>2 DEF Holds, Header, len
<1>19. ASSUME mid < Sentinel
       PROVE  /\ IsHeader(b2.e[mid]) /\ b2.e[mid].ref = Nobody /\ After(b2.e, mid) = Sentinel
              /\ b2.e[mid].size = b.e[at].size - BlockSize(len)
  <2>1. mid \in Places /\ mid # at /\ ~ (mid > at /\ mid <= at + Units(len))
    BY <1>0, <1>1, <1>6, <1>8, <1>13, PlacesAre
  <2>2. b2.e[mid] = Header(rest, Nobody)
    BY <1>11, <1>15, <1>19, <2>1
  <2>3. b2.e[mid].size = rest /\ b2.e[mid].ref = Nobody
    BY <2>2 DEF Header
  <2>4. After(b2.e, mid) = Sentinel
    <3>1. After(b2.e, mid) = mid + Units(rest)
      BY <2>3 DEF After
    <3>2. Units(rest) = Units(size) - (1 + Units(len))
      BY <1>6 DEF m
    <3> QED
      BY <1>0, <1>1, <1>6, <1>7, <1>8, <1>13, <3>1, <3>2
  <2>5. IsHeader(b2.e[mid])
    BY <1>6, <1>15, <1>19, <2>3 DEF IsHeader
  <2> QED
    BY <2>3, <2>4, <2>5 DEF rest, size
<1>20. mid = Sentinel => b.e[at].size = BlockSize(len)
  BY <1>0, <1>6, <1>8 DEF size
<1>21. Allocated(b, b2, i, uri, at, mid)
  BY <1>8, <1>12, <1>13, <1>14, <1>16, <1>17, <1>18, <1>19, <1>20
     DEF Allocated, BufType, Cells, len
<1> QED
  BY <1>3, <1>4, <1>13, <1>21 DEF at, len

LEMMA NotNobody == \A i \in Entries : i # Nobody
BY BufferConsts

LEMMA HoldsHeader ==
  ASSUME NEW e, NEW h, NEW i \in Entries, NEW uri \in Uris, Holds(e, h, i, uri)
  PROVE  IsHeader(e[h]) /\ e[h].size > UNIT /\ e[h].ref # Nobody
BY BufferConsts DEF Holds, IsHeader

\* What the owner knows, after a change between lo and hi.
LEMMA OwnedElsewhere ==
  ASSUME NEW e, Cells(e), NEW H, Tiled(e, H), NEW where, NEW U, NEW ur, U \subseteq Entries,
         Owned(e, H, where, U, ur),
         NEW lo \in H, NEW hi \in H, lo < hi, NEW e2, Changed(e, e2, lo, hi),
         NEW i \in U, Outside(where[i], lo, hi)
  PROVE  where[i] \in H /\ ur[i] \in Uris /\ Holds(e2, where[i], i, ur[i])
<1>1. where[i] \in H /\ ur[i] \in Uris /\ Holds(e, where[i], i, ur[i]) /\ i \in Entries
  BY DEF Owned
<1> QED
  BY <1>1, HoldsKept

\* the shape of the buffer after an allocation
LEMMA AllocTiled ==
  ASSUME NEW b, BufType(b), NEW H, Tiled(b.e, H), Marks(b, H), NEW i \in Entries, NEW uri \in Uris,
         NEW b2, NEW mid, Allocated(b, b2, i, uri, b.openspace, mid),
         b.openspace # Sentinel
  PROVE  /\ Tiled(b2.e, Replaced(H, b.openspace, mid, Sentinel))
         /\ Marks(b2, Replaced(H, b.openspace, mid, Sentinel))
         /\ b.openspace \in Nat /\ mid \in Nat /\ b.openspace < mid /\ mid <= Sentinel
<1> DEFINE at == b.openspace
           R == Replaced(H, at, mid, Sentinel)
           e2 == b2.e
           u == Units(UriLen[uri])
<1>0. /\ Sentinel \in Nat /\ at \in H /\ Sentinel \in H /\ UNIT \in Nat /\ at \in Nat
      /\ Cells(b.e) /\ Cells(e2)
      /\ \A h \in H : h \in Nat /\ h <= Sentinel /\ h \in Places
  <2>1. at \in H /\ Sentinel \in H /\ Cells(b.e) /\ Cells(e2)
    BY DEF Marks, Tiled, BufType, Allocated
  <2> QED
    BY <2>1, BlockEnds, BufferConsts
<1>1. /\ Holds(e2, at, i, uri) /\ Changed(b.e, e2, at, Sentinel)
      /\ mid = at + 1 + u /\ mid <= Sentinel /\ b2.openspace = mid
      /\ b2.firstfree = IF b.firstfree = at THEN mid ELSE b.firstfree
      /\ (mid < Sentinel => IsHeader(e2[mid]) /\ e2[mid].ref = Nobody /\ After(e2, mid) = Sentinel)
  BY DEF Allocated
<1>2. After(e2, at) = at + 1 + u /\ u \in Nat /\ u >= 1
  BY <1>0, <1>1, HoldsUpto
<1>3. IsHeader(e2[at]) /\ e2[at].size > UNIT /\ e2[at].ref # Nobody
  BY <1>1, HoldsHeader
<1> HIDE DEF at, u, e2
<1>4. mid \in Nat /\ at < mid /\ mid <= Sentinel
  BY <1>0, <1>1, <1>2
<1>5. Between(e2, at, mid, Sentinel)
  BY <1>1, <1>2, <1>3 DEF Between
<1>6. Tiled(e2, R)
  BY <1>0, <1>1, <1>4, <1>5, Retile
<1>7. \A h \in R : (h \in H /\ h < at /\ e2[h] = b.e[h]) \/ h = at \/ h = mid \/ h = Sentinel
  <2> SUFFICES ASSUME NEW h \in R, h # at, h # mid, h # Sentinel
               PROVE  h \in H /\ h < at /\ e2[h] = b.e[h]
    OBVIOUS
  <2>1. h \in H /\ Outside(h, at, Sentinel)
    BY DEF Replaced
  <2>2. h < at
    BY <1>0, <2>1 DEF Outside
  <2> QED
    BY <1>0, <1>1, <2>1, <2>2 DEF Changed
<1>8. e2[mid].ref = Nobody
  BY <1>0, <1>1, <1>4, <1>6 DEF Tiled
<1>9. /\ b.firstfree \in H /\ b.firstfree <= at /\ b.firstfree \in Nat
      /\ b.e[b.firstfree].ref = Nobody
      /\ \A h \in H : /\ h < b.firstfree => b.e[h].ref # Nobody
                      /\ h < at => b.e[h].size > UNIT
  <2>1. /\ b.firstfree \in H /\ b.firstfree <= at /\ b.e[b.firstfree].ref = Nobody
        /\ \A h \in H : /\ h < b.firstfree => b.e[h].ref # Nobody
                        /\ h < at => b.e[h].size > UNIT
    BY DEF Marks, at
  <2> QED
    BY <1>0, <2>1
<1>10. b2.firstfree \in R /\ b2.firstfree <= mid /\ e2[b2.firstfree].ref = Nobody
  <2>1. CASE b.firstfree = at
    BY <1>1, <1>4, <1>8, <2>1 DEF Replaced
  <2>2. CASE b.firstfree # at
    <3>1. b.firstfree < at /\ Outside(b.firstfree, at, Sentinel)
      BY <1>0, <1>9, <2>2 DEF Outside
    <3>2. e2[b.firstfree] = b.e[b.firstfree]
      BY <1>0, <1>1, <1>9, <3>1 DEF Changed
    <3>3. b2.firstfree = b.firstfree
      BY <1>1, <2>2
    <3>4. b.firstfree \in R
      BY <1>9, <3>1 DEF Replaced
    <3>5. b.firstfree <= mid
      BY <1>0, <1>4, <1>9, <3>1
    <3> QED
      BY <1>9, <3>2, <3>3, <3>4, <3>5
  <2> QED
    BY <2>1, <2>2
<1>11. ASSUME NEW h \in R
       PROVE  /\ h < b2.firstfree => e2[h].ref # Nobody
              /\ h < mid => e2[h].size > UNIT
              /\ h > mid => h = Sentinel
  <2>1. CASE h \in H /\ h < at /\ e2[h] = b.e[h]
    <3>1. h \in Nat
      BY <1>0, <2>1
    <3>2. b2.firstfree = b.firstfree \/ b.firstfree = at
      BY <1>1
    <3>3. h < b2.firstfree => h < b.firstfree
      BY <2>1, <3>2
    <3>4. ~ (h > mid)
      BY <1>0, <1>4, <2>1, <3>1
    <3> QED
      BY <1>9, <2>1, <3>3, <3>4
  <2>2. CASE h = at
    BY <1>0, <1>3, <1>4, <2>2
  <2>3. CASE h = mid
    <3>1. b2.firstfree <= mid /\ b2.firstfree \in Nat
      BY <1>1, <1>4, <1>9, <1>10
    <3> QED
      BY <1>4, <2>3, <3>1
  <2>4. CASE h = Sentinel
    <3>1. b2.firstfree <= mid /\ b2.firstfree \in Nat
      BY <1>1, <1>4, <1>9, <1>10
    <3> QED
      BY <1>0, <1>4, <2>4, <3>1
  <2> QED
    BY <1>7, <2>1, <2>2, <2>3, <2>4
<1>12. b2.openspace = mid /\ mid \in R
  BY <1>1 DEF Replaced
<1> HIDE DEF R
<1>13. Marks(b2, R)
  BY <1>8, <1>10, <1>11, <1>12 DEF Marks, e2
<1> QED
  BY <1>0, <1>4, <1>6, <1>13 DEF at, R, e2

\* what the owner knows and what is counted, after an allocation
LEMMA AllocOwned ==
  ASSUME NEW b, NEW where, NEW U, NEW ur, NEW H, Laid(b, where, U, ur, H),
         NEW i \in Entries, i \notin U, NEW uri \in Uris,
         NEW b2, NEW mid, Allocated(b, b2, i, uri, b.openspace, mid),
         b.openspace # Sentinel, b.openspace \in Nat, mid \in Nat,
         b.openspace < mid, mid <= Sentinel,
         NEW where2, where2 = [where EXCEPT ![i] = b.openspace],
         NEW ur2, ur2 = [ur EXCEPT ![i] = uri]
  PROVE  /\ Known(where2, U \cup {i}, ur2)
         /\ Owned(b2.e, Replaced(H, b.openspace, mid, Sentinel), where2, U \cup {i}, ur2)
<1> DEFINE at == b.openspace
           R == Replaced(H, at, mid, Sentinel)
           e == b.e
           e2 == b2.e
<1>0. /\ Sentinel \in Nat /\ at \in H /\ Sentinel \in H /\ at < Sentinel
      /\ Cells(e) /\ Cells(e2) /\ Tiled(e, H) /\ e[at].ref = Nobody
      /\ \A h \in H : h \in Nat /\ h <= Sentinel /\ h \in Places
  <2>1. at \in H /\ Sentinel \in H /\ Cells(e) /\ Cells(e2) /\ Tiled(e, H) /\ e[at].ref = Nobody
    BY DEF Marks, Tiled, BufType, Allocated, Laid
  <2>2. \A h \in H : h \in Nat /\ h <= Sentinel /\ h \in Places
    BY <2>1, BlockEnds
  <2> HIDE DEF at
  <2> QED
    BY <2>1, <2>2, BufferConsts DEF at
<1>1. /\ U \subseteq Entries /\ where \in [Entries -> Nat] /\ ur = [j \in Entries |-> ur[j]]
      /\ Owned(e, H, where, U, ur)
  BY DEF Laid, Known
<1>2. /\ where2 \in [Entries -> Nat] /\ ur2 = [j \in Entries |-> ur2[j]]
      /\ where2[i] = at /\ ur2[i] = uri
      /\ \A j \in Entries : j # i => where2[j] = where[j] /\ ur2[j] = ur[j]
  BY <1>1
<1>3. Holds(e2, at, i, uri) /\ Changed(e, e2, at, Sentinel)
  BY DEF Allocated
<1>4. mid < Sentinel => e2[mid].ref = Nobody
  BY DEF Allocated
<1> HIDE DEF at, e, e2
<1>5. ASSUME NEW j \in U
      PROVE  where[j] \in H /\ where[j] < at /\ ur[j] \in Uris /\ Holds(e2, where[j], j, ur[j])
  <2>1. where[j] \in H /\ Holds(e, where[j], j, ur[j]) /\ ur[j] \in Uris /\ j \in Entries
    BY <1>1 DEF Owned
  <2>2. e[where[j]].ref # Nobody
    BY <2>1, HoldsHeader
  <2>3. where[j] # at /\ where[j] # Sentinel
    BY <1>0, <2>2 DEF Tiled
  <2>4. ~ (where[j] > at)
    <3>1. Marks(b, H)
      BY DEF Laid
    <3>2. \A h \in H : h > at => h = Sentinel
      BY <3>1 DEF Marks, at
    <3> QED
      BY <2>1, <2>3, <3>2
  <2>5. where[j] < at
    <3>1. at \in Nat /\ where[j] \in Nat
      BY <1>0, <2>1 DEF at
    <3> QED
      BY <2>3, <2>4, <3>1
  <2>6. Outside(where[j], at, Sentinel)
    BY <2>5 DEF Outside
  <2>7. Holds(e2, where[j], j, ur[j])
    BY <1>0, <1>1, <1>3, <2>6, OwnedElsewhere
  <2> QED
    BY <2>1, <2>5, <2>7
<1>6. ASSUME NEW j \in U \cup {i}
      PROVE  where2[j] \in R /\ ur2[j] \in Uris /\ Holds(e2, where2[j], j, ur2[j])
  <2>1. CASE j = i
    BY <1>2, <1>3, <2>1 DEF Replaced
  <2>2. CASE j # i
    <3>1. j \in U /\ where2[j] = where[j] /\ ur2[j] = ur[j]
      BY <1>1, <1>2, <2>2
    <3>2. where[j] \in R
      BY <1>5, <3>1 DEF Replaced, Outside
    <3> QED
      BY <1>5, <3>1, <3>2
  <2> QED
    BY <2>1, <2>2
<1>7. ASSUME NEW h \in R, e2[h].ref # Nobody
      PROVE  e2[h].ref \in U \cup {i} /\ where2[e2[h].ref] = h
  <2>1. CASE h = at
    BY <1>2, <1>3, <2>1 DEF Holds
  <2>2. CASE h # at
    <3>1. h # mid \/ mid = Sentinel
      BY <1>0, <1>4, <1>7
    <3>2. h \in H /\ Outside(h, at, Sentinel)
      BY <1>0, <2>2, <3>1 DEF Replaced, Outside
    <3>3. e2[h] = e[h]
      BY <1>0, <1>3, <3>2 DEF Changed
    <3>4. e[h].ref \in U /\ where[e[h].ref] = h
      BY <1>1, <1>7, <3>2, <3>3 DEF Owned
    <3> QED
      BY <1>1, <1>2, <3>3, <3>4
  <2> QED
    BY <2>1, <2>2
<1>8. Known(where2, U \cup {i}, ur2)
  BY <1>1, <1>2 DEF Known
<1> HIDE DEF R
<1>9. Owned(e2, R, where2, U \cup {i}, ur2)
  BY <1>6, <1>7 DEF Owned
<1> QED
  BY <1>8, <1>9 DEF at, R, e2

LEMMA AllocCounted ==
  ASSUME NEW b, NEW where, NEW U, NEW ur, NEW H, Laid(b, where, U, ur, H),
         NEW i \in Entries, i \notin U, NEW uri \in Uris,
         NEW b2, NEW mid, Allocated(b, b2, i, uri, b.openspace, mid),
         b.openspace # Sentinel, b.openspace \in Nat, mid \in Nat,
         b.openspace < mid, mid <= Sentinel, After(b.e, b.openspace) = Sentinel,
         NEW ur2, ur2 = [ur EXCEPT ![i] = uri]
  PROVE  Counted(b2, Replaced(H, b.openspace, mid, Sentinel), U \cup {i}, ur2)
<1> DEFINE at == b.openspace
           R == Replaced(H, at, mid, Sentinel)
           e == b.e
           e2 == b2.e
           need == BlockSize(UriLen[uri])
<1>0. /\ Sentinel \in Nat /\ at \in H /\ Sentinel \in H /\ at < Sentinel /\ mid \in Places
      /\ Cells(e) /\ Cells(e2) /\ Tiled(e, H) /\ e[at].ref = Nobody /\ H \subseteq Places
      /\ b.freespace \in Nat /\ e[at].size \in Nat /\ need \in Nat
  <2>1. at \in H /\ Sentinel \in H /\ Cells(e) /\ Cells(e2) /\ Tiled(e, H) /\ e[at].ref = Nobody
        /\ b.freespace \in Nat /\ H \subseteq Places
    BY DEF Marks, Tiled, BufType, Allocated, Laid
  <2>2. at \in Places /\ mid \in Places
    BY <2>1, PlacesAre
  <2>3. e[at].size \in Nat
    BY <2>1, <2>2 DEF Cells, Cell
  <2>4. need \in Nat
    BY BufferConsts, UnitsPlus
  <2>5. at < Sentinel /\ Sentinel \in Nat
    BY BufferConsts
  <2> QED
    BY <2>1, <2>2, <2>3, <2>4, <2>5
<1>1. /\ Changed(e, e2, at, Sentinel) /\ e2[at].ref = i
      /\ b2.freespace = b.freespace - need
      /\ (mid < Sentinel => e2[mid].ref = Nobody /\ e2[mid].size = e[at].size - need)
      /\ (mid = Sentinel => e[at].size = need)
  BY DEF Allocated, Holds
<1>2. b.freespace = FreeBytes(e, H) /\ b.freespace + Sum(Needs(ur), U) = Sentinel * UNIT
      /\ U \subseteq Entries /\ \A j \in U : ur[j] \in Uris
  BY DEF Laid, Counted, Known, Owned
<1>3. H = Replaced(H, at, Sentinel, Sentinel)
  BY <1>0, OneBlock
<1> HIDE DEF at, e, e2, need
<1>4. FreeBytes(e2, R) = FreeBytes(e, H) - FreeAt(e, at)
         - (IF Sentinel < Sentinel THEN FreeAt(e, Sentinel) ELSE 0)
         + FreeAt(e2, at) + (IF mid < Sentinel THEN FreeAt(e2, mid) ELSE 0)
  <2>1. at < mid /\ mid <= Sentinel /\ Sentinel \in Places /\ Sentinel <= Sentinel
    BY <1>0 DEF at
  <2> HIDE DEF R
  <2> QED
    BY <1>0, <1>1, <1>3, <2>1, FreeBytesChange DEF R
<1>5. FreeAt(e, at) = e[at].size /\ FreeAt(e2, at) = 0
      /\ (mid < Sentinel => FreeAt(e2, mid) = e[at].size - need)
  BY <1>0, <1>1, NotNobody DEF FreeAt
<1>6. FreeBytes(e2, R) = b.freespace - need
  <2>1. mid < Sentinel \/ mid = Sentinel
    BY <1>0
  <2>2. FreeBytes(e2, R) = b.freespace - e[at].size - 0 + 0
                             + (IF mid < Sentinel THEN e[at].size - need ELSE 0)
    BY <1>0, <1>2, <1>4, <1>5
  <2> HIDE DEF R
  <2>3. CASE mid < Sentinel
    BY <1>0, <2>2, <2>3
  <2>4. CASE mid = Sentinel
    BY <1>0, <1>1, <2>2, <2>4
  <2> QED
    BY <2>1, <2>3, <2>4
<1>7. Sum(Needs(ur2), U \cup {i}) = need + Sum(Needs(ur), U) /\ Sum(Needs(ur), U) \in Nat
  <2>1. ur2[i] = uri /\ \A j \in U : ur2[j] = ur[j] /\ ur2[j] \in Uris
    BY <1>2 DEF Laid, Known
  <2>2. IsFiniteSet(U) /\ \A j \in U : Needs(ur)[j] = BlockSize(UriLen[ur[j]]) /\ Needs(ur)[j] \in Nat
    BY <1>2, NeedsAre
  <2>3. \A j \in U \cup {i} : Needs(ur2)[j] = BlockSize(UriLen[ur2[j]]) /\ Needs(ur2)[j] \in Nat
    <3>1. U \cup {i} \subseteq Entries /\ \A j \in U \cup {i} : ur2[j] \in Uris
      BY <1>2, <2>1
    <3> QED
      BY <3>1, NeedsAre
  <2>4. Needs(ur2)[i] = need
    BY <2>1, <2>3 DEF need
  <2>5. Sum(Needs(ur2), U \cup {i}) = Needs(ur2)[i] + Sum(Needs(ur2), U)
    BY <2>2, <2>3, SumWith
  <2>6. \A j \in U : Needs(ur)[j] = Needs(ur2)[j]
    BY <2>1, <2>2, <2>3
  <2>7. Sum(Needs(ur2), U) = Sum(Needs(ur), U) /\ Sum(Needs(ur), U) \in Nat
    <3>1. \A j \in U : ur[j] \in Uris /\ ur[j] = ur2[j]
      BY <2>1
    <3> QED
      BY <1>2, <3>1, NeedsSame
  <2> QED
    BY <2>4, <2>5, <2>7
<1>8. b2.freespace + Sum(Needs(ur2), U \cup {i}) = Sentinel * UNIT
  <2> DEFINE s == Sum(Needs(ur), U)
             all == Sentinel * UNIT
  <2>1. b2.freespace = b.freespace - need /\ b.freespace + s = all
        /\ Sum(Needs(ur2), U \cup {i}) = need + s /\ s \in Nat
    BY <1>1, <1>2, <1>7
  <2> HIDE DEF s, all
  <2>2. b2.freespace + (need + s) = all
    BY <1>0, <2>1
  <2> QED
    BY <2>1, <2>2 DEF all
<1> HIDE DEF R
<1>9. Counted(b2, R, U \cup {i}, ur2)
  BY <1>1, <1>6, <1>8 DEF Counted, e2
<1> QED
  BY <1>9 DEF R, at

LEMMA AllocLaid ==
  ASSUME NEW b, NEW where, NEW U, NEW ur, NEW H, Laid(b, where, U, ur, H),
         NEW i \in Entries, i \notin U, NEW uri \in Uris,
         AllocResult(b, UriLen[uri]) = "IAR_OK"
  PROVE  \E H2 : Laid(zhe_icgcb_alloc(b, UriLen[uri], i, uri),
                      [where EXCEPT ![i] = b.openspace], U \cup {i}, [ur EXCEPT ![i] = uri], H2)
<1> PICK b2 : b2 = zhe_icgcb_alloc(b, UriLen[uri], i, uri)
  OBVIOUS
<1> PICK mid : mid = b.openspace + 1 + Units(UriLen[uri])
  OBVIOUS
<1> PICK where2 : where2 = [where EXCEPT ![i] = b.openspace]
  OBVIOUS
<1> PICK ur2 : ur2 = [ur EXCEPT ![i] = uri]
  OBVIOUS
<1> PICK R : R = Replaced(H, b.openspace, mid, Sentinel)
  OBVIOUS
<1>1. BufType(b) /\ Tiled(b.e, H) /\ Marks(b, H)
  BY DEF Laid
<1>2. Allocated(b, b2, i, uri, b.openspace, mid) /\ b.openspace # Sentinel
      /\ After(b.e, b.openspace) = Sentinel
  BY <1>1, AllocIs
<1>3. /\ Tiled(b2.e, R) /\ Marks(b2, R)
      /\ b.openspace \in Nat /\ mid \in Nat /\ b.openspace < mid /\ mid <= Sentinel
  BY <1>1, <1>2, AllocTiled
<1>4. Known(where2, U \cup {i}, ur2) /\ Owned(b2.e, R, where2, U \cup {i}, ur2)
  BY <1>2, <1>3, AllocOwned
<1>5. Counted(b2, R, U \cup {i}, ur2)
  BY <1>2, <1>3, AllocCounted
<1>6. BufType(b2)
  BY <1>2 DEF Allocated
<1>7. Laid(b2, where2, U \cup {i}, ur2, R)
  BY <1>3, <1>4, <1>5, <1>6 DEF Laid
<1> QED
  BY <1>7

-----------------------------------------------------------------------------
(* Freeing. *)

\* b2 is b with the block from lo to hi, of size bytes, freed
Freed(b, b2, lo, hi, size) ==
    /\ BufType(b2) /\ Changed(b.e, b2.e, lo, hi)
    /\ IsHeader(b2.e[lo]) /\ b2.e[lo].ref = Nobody /\ b2.e[lo].size = size /\ size > UNIT
    /\ After(b2.e, lo) = hi
    /\ b2.freespace = b.freespace + size
    /\ b2.firstfree = FirstAfterFree(b, lo)
    /\ b2.openspace = b.openspace

LEMMA FreeIs ==
  ASSUME NEW b, BufType(b), NEW H, Tiled(b.e, H), NEW lo \in H, NEW i \in Entries, NEW uri \in Uris,
         Holds(b.e, lo, i, uri)
  PROVE  Freed(b, zhe_icgcb_free(b, lo), lo, After(b.e, lo), BlockSize(UriLen[uri]))
         /\ BlockSize(UriLen[uri]) \in Nat
<1> DEFINE len == UriLen[uri]
           n == Units(len)
           hi == After(b.e, lo)
           size == BlockSize(len)
<1> PICK b2 : b2 = zhe_icgcb_free(b, lo)
  OBVIOUS
<1>0. /\ len \in Nat /\ len >= 1 /\ UNIT \in Nat /\ UNIT > 1 /\ Sentinel \in Nat
      /\ b.freespace \in Nat /\ Cells(b.e)
      /\ b = [freespace |-> b.freespace, firstfree |-> b.firstfree,
              openspace |-> b.openspace, e |-> b.e]
  BY BufferConsts DEF BufType
<1>1. lo \in Nat /\ lo \in Places /\ lo <= Sentinel
  BY <1>0, BlockEnds
<1>2. hi = lo + 1 + n /\ n \in Nat /\ n >= 1
  BY <1>1, HoldsUpto
<1>3. FreeSize(b.e[lo].size) = size /\ size \in Nat /\ size = (1 + n) * UNIT /\ Units(size) = 1 + n
  <2>1. b.e[lo].size = UNIT + len
    BY DEF Holds
  <2>2. alignup(UNIT + len) = size /\ size \in Nat /\ size = (1 + n) * UNIT
    BY <1>0, UnitsPlus
  <2>3. Units((1 + n) * UNIT) = 1 + n
    BY <1>2, UnitsOfMultiple
  <2> HIDE DEF size, n, len
  <2> QED
    BY <2>1, <2>2, <2>3 DEF FreeSize
<1>4. size > UNIT
  <2>1. (1 + n) * UNIT = UNIT + n * UNIT /\ n * UNIT >= UNIT
    BY <1>0, <1>2
  <2> HIDE DEF n, size
  <2> QED
    BY <1>0, <1>2, <1>3, <2>1
<1> HIDE DEF size, n, hi, len
<1>5. b2 = [freespace |-> b.freespace + size, firstfree |-> FirstAfterFree(b, lo),
            openspace |-> b.openspace,
            e |-> [x \in Places |-> IF x = lo THEN Header(size, Nobody)
                                    ELSE IF x > lo /\ x < lo + (1 + n) THEN Blank
                                    ELSE b.e[x]]]
  BY <1>0, <1>3 DEF zhe_icgcb_free, Places
<1>6. \A x \in Places : b2.e[x] = IF x = lo THEN Header(size, Nobody)
                                  ELSE IF x > lo /\ x < lo + (1 + n) THEN Blank
                                  ELSE b.e[x]
  BY <1>5
<1>7. Cells(b2.e)
  <2>1. Cell(Header(size, Nobody)) /\ Cell(Blank)
    BY <1>3 DEF Cell, Header, Blank, Contents
  <2>2. \A x \in Places : Cell(b2.e[x])
    BY <1>0, <1>6, <2>1 DEF Cells
  <2>3. b2.e = [x \in Places |-> b2.e[x]]
    BY <1>5
  <2> QED
    BY <2>2, <2>3 DEF Cells
<1>8. Changed(b.e, b2.e, lo, hi)
  <2> SUFFICES ASSUME NEW x \in Places, Outside(x, lo, hi) PROVE b2.e[x] = b.e[x]
    BY DEF Changed
  <2>1. x \in Nat
    BY PlacesAre
  <2>2. x # lo /\ ~ (x > lo /\ x < lo + (1 + n))
    BY <1>1, <1>2, <2>1 DEF Outside
  <2> QED
    BY <1>6, <2>2
<1>9. b2.e[lo] = Header(size, Nobody)
  BY <1>1, <1>6
<1>10. b2.e[lo].size = size /\ b2.e[lo].ref = Nobody
  BY <1>9 DEF Header
<1>11. IsHeader(b2.e[lo])
  BY <1>0, <1>3, <1>4, <1>10 DEF IsHeader
<1>12. After(b2.e, lo) = hi
  BY <1>1, <1>2, <1>3, <1>10 DEF After
<1>13. /\ b2.freespace = b.freespace + size /\ b2.firstfree = FirstAfterFree(b, lo)
       /\ b2.openspace = b.openspace
       /\ b2 = [freespace |-> b2.freespace, firstfree |-> b2.firstfree,
                openspace |-> b2.openspace, e |-> b2.e]
  BY <1>5
<1>14. b2.freespace \in Nat
  BY <1>0, <1>3, <1>13
<1>15. Freed(b, b2, lo, hi, size)
  BY <1>4, <1>7, <1>8, <1>10, <1>11, <1>12, <1>13, <1>14 DEF Freed, BufType
<1> QED
  BY <1>3, <1>15 DEF hi, size, len

LEMMA FreeTiled ==
  ASSUME NEW b, BufType(b), NEW H, Tiled(b.e, H), Marks(b, H), NEW lo \in H, lo # Sentinel,
         b.e[lo].ref # Nobody, NEW b2, NEW size, Freed(b, b2, lo, After(b.e, lo), size)
  PROVE  Tiled(b2.e, H) /\ Marks(b2, H)
<1> DEFINE hi == After(b.e, lo)
<1>0. /\ Cells(b.e) /\ Cells(b2.e) /\ lo \in Nat /\ hi \in H /\ hi \in Nat /\ lo < hi
      /\ \A h \in H : h \in Nat /\ h <= Sentinel /\ h \in Places
  <2>1. Cells(b.e) /\ Cells(b2.e)
    BY DEF BufType, Freed
  <2> QED
    BY <2>1, BlockEnds
<1>1. /\ Changed(b.e, b2.e, lo, hi) /\ IsHeader(b2.e[lo]) /\ After(b2.e, lo) = hi
      /\ b2.e[lo].ref = Nobody /\ b2.e[lo].size > UNIT
      /\ b2.firstfree = (IF lo < b.firstfree THEN lo ELSE b.firstfree)
      /\ b2.openspace = b.openspace
  BY DEF Freed, FirstAfterFree
<1>2. H = Replaced(H, lo, hi, hi)
  BY <1>0, OneBlock
<1> HIDE DEF hi
<1>3. Tiled(b2.e, H)
  <2>1. Between(b2.e, lo, hi, hi)
    BY <1>0, <1>1 DEF Between
  <2>2. hi <= hi
    BY <1>0
  <2>3. Tiled(b2.e, Replaced(H, lo, hi, hi))
    BY <1>0, <1>1, <2>1, <2>2, Retile
  <2> QED
    BY <1>2, <2>3
<1>4. \A h \in H : h = lo \/ b2.e[h] = b.e[h]
  <2> SUFFICES ASSUME NEW h \in H, h # lo PROVE b2.e[h] = b.e[h]
    OBVIOUS
  <2>1. h \in Replaced(H, lo, hi, hi)
    BY <1>2
  <2>2. Outside(h, lo, hi)
    BY <1>0, <2>1 DEF Replaced, Outside
  <2> QED
    BY <1>0, <1>1, <2>2 DEF Changed
<1>5. /\ b.firstfree \in H /\ b.openspace \in H /\ b.firstfree <= b.openspace
      /\ b.e[b.firstfree].ref = Nobody /\ b.e[b.openspace].ref = Nobody
      /\ \A h \in H : /\ h < b.firstfree => b.e[h].ref # Nobody
                      /\ h < b.openspace => b.e[h].size > UNIT
                      /\ h > b.openspace => h = Sentinel
  BY DEF Marks
<1>12. b.openspace \in Nat /\ b.firstfree \in Nat /\ b.firstfree <= b.openspace /\ lo \in Nat
  BY <1>0, <1>5
<1>6. lo < b.openspace
  <2>1. lo # b.openspace /\ ~ (lo > b.openspace)
    BY <1>5
  <2> QED
    BY <1>12, <2>1
<1>7. b2.firstfree \in H /\ b2.firstfree <= b.openspace
  <2>1. b2.firstfree = lo \/ b2.firstfree = b.firstfree
    BY <1>1
  <2>2. lo <= b.openspace
    BY <1>6, <1>12
  <2> QED
    BY <1>5, <2>1, <2>2
<1>8. b2.e[b2.firstfree].ref = Nobody
  <2>1. b2.firstfree = lo \/ b2.firstfree = b.firstfree
    BY <1>1
  <2> QED
    BY <1>1, <1>4, <1>5, <2>1
<1>9. b2.e[b.openspace].ref = Nobody
  BY <1>1, <1>4, <1>5
<1>10. ASSUME NEW h \in H
       PROVE  /\ h < b2.firstfree => b2.e[h].ref # Nobody
              /\ h < b.openspace => b2.e[h].size > UNIT
              /\ h > b.openspace => h = Sentinel
  <2>1. h < b2.firstfree => h < b.firstfree /\ h # lo
    <3>1. h \in Nat
      BY <1>0
    <3> QED
      BY <1>1, <1>12, <3>1
  <2> QED
    BY <1>1, <1>4, <1>5, <2>1
<1>11. Marks(b2, H)
  BY <1>1, <1>5, <1>7, <1>8, <1>9, <1>10 DEF Marks
<1> QED
  BY <1>3, <1>11

LEMMA FreeLaid ==
  ASSUME NEW b, NEW where, NEW U, NEW ur, NEW H, Laid(b, where, U, ur, H), NEW i \in U
  PROVE  Laid(zhe_icgcb_free(b, where[i]), [where EXCEPT ![i] = 0], U \ {i}, ur, H)
<1> PICK lo : lo = where[i]
  OBVIOUS
<1> PICK b2 : b2 = zhe_icgcb_free(b, lo)
  OBVIOUS
<1> PICK where2 : where2 = [where EXCEPT ![i] = 0]
  OBVIOUS
<1> PICK uri : uri = ur[i]
  OBVIOUS
<1> DEFINE hi == After(b.e, lo)
           size == BlockSize(UriLen[uri])
           e == b.e
           e2 == b2.e
<1>0. /\ BufType(b) /\ Tiled(e, H) /\ Marks(b, H) /\ Owned(e, H, where, U, ur)
      /\ Counted(b, H, U, ur) /\ Cells(e) /\ H \subseteq Places
      /\ U \subseteq Entries /\ where \in [Entries -> Nat] /\ ur = [j \in Entries |-> ur[j]]
  BY DEF Laid, Known, BufType, Tiled
<1>1. lo \in H /\ uri \in Uris /\ Holds(e, lo, i, uri) /\ i \in Entries
  BY <1>0 DEF Owned
<1>2. e[lo].ref # Nobody /\ lo # Sentinel
  BY <1>0, <1>1, HoldsHeader DEF Tiled
<1>3. Freed(b, b2, lo, hi, size) /\ size \in Nat
  BY <1>0, <1>1, FreeIs
<1>4. Tiled(e2, H) /\ Marks(b2, H)
  BY <1>0, <1>1, <1>2, <1>3, FreeTiled
<1>5. /\ lo \in Nat /\ hi \in H /\ hi \in Nat /\ lo < hi /\ lo \in Places /\ hi \in Places
      /\ Cells(e2) /\ BufType(b2)
  <2>1. lo \in Nat /\ hi \in H /\ hi \in Nat /\ lo < hi
    BY <1>0, <1>1, <1>2, BlockEnds
  <2> QED
    BY <1>0, <1>1, <1>3, <2>1 DEF Freed, BufType
<1>6. H = Replaced(H, lo, hi, hi)
  BY <1>0, <1>1, <1>2, OneBlock
<1>7. /\ Changed(e, e2, lo, hi) /\ e2[lo].ref = Nobody /\ e2[lo].size = size
      /\ b2.freespace = b.freespace + size
  BY <1>3 DEF Freed
<1> HIDE DEF hi, size, e, e2
<1>8. \A h \in H : h # lo => Outside(h, lo, hi)
  <2> SUFFICES ASSUME NEW h \in H, h # lo PROVE Outside(h, lo, hi)
    OBVIOUS
  <2>1. h \in Replaced(H, lo, hi, hi)
    BY <1>6
  <2> QED
    BY <1>5, <2>1 DEF Replaced, Outside
<1>9. /\ where2 \in [Entries -> Nat] /\ \A j \in Entries : j # i => where2[j] = where[j]
  BY <1>0
<1>10. ASSUME NEW j \in U \ {i}
       PROVE  where2[j] \in H /\ ur[j] \in Uris /\ Holds(e2, where2[j], j, ur[j])
  <2>1. where[j] \in H /\ Holds(e, where[j], j, ur[j]) /\ j \in Entries /\ j # i
    BY <1>0 DEF Owned
  <2>2. where[j] # lo
    BY <1>1, <2>1 DEF Holds
  <2>3. Outside(where[j], lo, hi)
    BY <1>8, <2>1, <2>2
  <2>4. ur[j] \in Uris /\ Holds(e2, where[j], j, ur[j])
    BY <1>0, <1>1, <1>5, <1>7, <2>3, OwnedElsewhere
  <2> QED
    BY <1>9, <2>1, <2>4
<1>11. ASSUME NEW h \in H, e2[h].ref # Nobody
       PROVE  e2[h].ref \in U \ {i} /\ where2[e2[h].ref] = h
  <2>1. h # lo
    BY <1>7, <1>11
  <2>2. Outside(h, lo, hi) /\ h \in Places
    BY <1>0, <1>8, <2>1
  <2>3. e2[h] = e[h]
    BY <1>7, <2>2 DEF Changed
  <2>4. e[h].ref \in U /\ where[e[h].ref] = h
    BY <1>0, <1>11, <2>3 DEF Owned
  <2>5. e[h].ref # i
    BY <2>1, <2>4
  <2> QED
    BY <1>0, <1>9, <2>3, <2>4, <2>5
<1>12. Owned(e2, H, where2, U \ {i}, ur) /\ Known(where2, U \ {i}, ur)
  <2>1. U \ {i} \subseteq Entries
    BY <1>0
  <2> QED
    BY <1>0, <1>9, <1>10, <1>11, <2>1 DEF Owned, Known
<1>13. b2.freespace = FreeBytes(e2, H)
  <2>1. hi <= hi
    BY <1>5
  <2>2. FreeBytes(e2, Replaced(H, lo, hi, hi)) = FreeBytes(e, H)
            - FreeAt(e, lo) - (IF hi < hi THEN FreeAt(e, hi) ELSE 0)
            + FreeAt(e2, lo) + (IF hi < hi THEN FreeAt(e2, hi) ELSE 0)
    BY <1>0, <1>1, <1>5, <1>6, <1>7, <2>1, FreeBytesChange
  <2>3. FreeAt(e, lo) = 0 /\ FreeAt(e2, lo) = size
    BY <1>2, <1>7 DEF FreeAt, e
  <2>4. b.freespace \in Nat /\ b.freespace = FreeBytes(e, H)
    BY <1>0 DEF BufType, Counted, e
  <2>5. FreeBytes(e2, H) = b.freespace - 0 - 0 + size + 0
    BY <1>5, <1>6, <2>2, <2>3, <2>4
  <2> QED
    BY <1>3, <1>7, <2>4, <2>5
<1>14. b2.freespace + Sum(Needs(ur), U \ {i}) = Sentinel * UNIT
  <2> DEFINE s == Sum(Needs(ur), U)
             t == Sum(Needs(ur), U \ {i})
             all == Sentinel * UNIT
  <2>1. \A j \in U : ur[j] \in Uris
    BY <1>0 DEF Owned
  <2>2. IsFiniteSet(U) /\ \A j \in U : Needs(ur)[j] = BlockSize(UriLen[ur[j]]) /\ Needs(ur)[j] \in Nat
    BY <1>0, <2>1, NeedsAre
  <2>3. Needs(ur)[i] = size
    BY <2>2 DEF size
  <2>4. s = Needs(ur)[i] + t
    BY <2>2, SumWithout
  <2>5. t \in Nat
    <3>1. U \ {i} \subseteq Entries /\ \A j \in U \ {i} : ur[j] \in Uris /\ ur[j] = ur[j]
      BY <1>0, <2>1
    <3> QED
      BY <3>1, NeedsSame
  <2>6. b.freespace + s = all /\ b.freespace \in Nat
    BY <1>0 DEF Counted, BufType
  <2> HIDE DEF s, t, all
  <2>7. b2.freespace + t = all
    BY <1>3, <1>7, <2>3, <2>4, <2>5, <2>6
  <2> QED
    BY <2>7 DEF t, all
<1>15. Counted(b2, H, U \ {i}, ur)
  BY <1>13, <1>14 DEF Counted, e2
<1>16. Laid(b2, where2, U \ {i}, ur, H)
  BY <1>4, <1>5, <1>12, <1>15 DEF Laid, e2
<1> QED
  BY <1>16

-----------------------------------------------------------------------------
(* Moving a block down over a free one. *)

\* b2 is b with the block of entry i moved from behind the free block at lo to lo
Moved(b, b2, i, uri, lo, mid2, hi) ==
    /\ BufType(b2) /\ Changed(b.e, b2.e, lo, hi) /\ Holds(b2.e, lo, i, uri)
    /\ lo < mid2 /\ mid2 < hi /\ After(b2.e, lo) = mid2
    /\ IsHeader(b2.e[mid2]) /\ b2.e[mid2].ref = Nobody /\ After(b2.e, mid2) = hi
    /\ b2.e[mid2].size = b.e[lo].size
    /\ b2.freespace = b.freespace /\ b2.firstfree = mid2 /\ b2.openspace = b.openspace

LEMMA FreeSkips ==
  ASSUME NEW e, Cells(e), NEW H, Tiled(e, H), NEW lo \in H, lo # Sentinel, e[lo].ref = Nobody
  PROVE  lo + e[lo].size \div UNIT = After(e, lo) /\ e[lo].size \in Nat
         /\ e[lo].size \div UNIT = Units(e[lo].size)
<1>1. e[lo].size \in Nat
  BY BlockEnds DEF Cells, Cell
<1>2. e[lo].size = Units(e[lo].size) * UNIT /\ Units(e[lo].size) \in Nat
  BY <1>1, UnitsIs DEF Tiled, IsHeader
<1>3. e[lo].size \div UNIT = Units(e[lo].size)
  <2> DEFINE s == e[lo].size
             u == Units(s)
  <2>1. s = u * UNIT /\ u \in Nat
    BY <1>2
  <2> HIDE DEF s, u
  <2>2. s \div UNIT = u
    BY <2>1, UnitsOfMultiple
  <2> QED
    BY <2>2 DEF s, u
<1> QED
  BY <1>1, <1>3 DEF After

LEMMA MoveIs ==
  ASSUME NEW c, NEW b, b = c.b, BufType(b), NEW H, Tiled(b.e, H),
         NEW lo \in H, lo = b.firstfree, lo # Sentinel, b.e[lo].ref = Nobody,
         NEW mid, mid = After(b.e, lo), mid # Sentinel,
         NEW i \in Entries, NEW uri \in Uris, Holds(b.e, mid, i, uri)
  PROVE  /\ Moved(b, MoveDown(c).b, i, uri, lo, lo + 1 + Units(UriLen[uri]), After(b.e, mid))
         /\ MoveDown(c).where = Told(c.where, i, lo)
         /\ MoveDown(c).bytes = c.bytes + b.e[mid].size
<1> DEFINE e == b.e
           by == e[lo].size \div UNIT
           n == Units(e[mid].size)
           u == Units(UriLen[uri])
           hi == After(e, mid)
<1> PICK d : d = MoveDown(c)
  OBVIOUS
<1> DEFINE b2 == d.b
<1>0. /\ UNIT \in Nat /\ Sentinel \in Nat /\ b.freespace \in Nat /\ Cells(e)
      /\ b = [freespace |-> b.freespace, firstfree |-> b.firstfree,
              openspace |-> b.openspace, e |-> e]
  BY BufferConsts DEF BufType
<1>1. /\ lo \in Nat /\ mid \in Nat /\ mid \in H /\ lo < mid
      /\ hi \in Nat /\ hi \in H /\ mid < hi /\ hi <= Sentinel
  <2>1. lo \in Nat /\ mid \in Nat /\ mid \in H /\ lo < mid
    BY <1>0, BlockEnds
  <2> HIDE DEF e
  <2> QED
    BY <1>0, <2>1, BlockEnds DEF e
<1>2. lo + by = mid /\ e[lo].size \in Nat /\ by = Units(e[lo].size)
  BY <1>0, FreeSkips
<1>3. hi = mid + n /\ hi = mid + 1 + u /\ u \in Nat /\ u >= 1 /\ e[mid].ref = i /\ n = 1 + u
  <2>1. hi = mid + 1 + u /\ u \in Nat /\ u >= 1
    BY <1>1, HoldsUpto
  <2>2. n = 1 + u
    BY <1>0, UnitsPlus, BufferConsts DEF Holds
  <2> QED
    BY <2>1, <2>2 DEF After, Holds
<1>4. by \in Nat /\ by >= 1 /\ by = Units(e[lo].size)
  <2>1. by = Units(e[lo].size)
    BY <1>2
  <2>2. Units(e[lo].size) \in Nat
    BY <1>0, BlockEnds
  <2> HIDE DEF by
  <2> QED
    BY <1>1, <1>2, <2>1, <2>2
<1> HIDE DEF n, u, by, hi
<1>5. d = [b |-> [b EXCEPT !.firstfree = lo + n,
                         !.e = [x \in 0 .. Sentinel |->
                                   IF x = lo + n THEN Header(b.e[lo].size, Nobody)
                                   ELSE IF x >= lo /\ x < lo + n THEN b.e[x + by]
                                   ELSE IF x > lo + n /\ x < lo + n + by THEN Blank
                                   ELSE b.e[x]]],
           where |-> Told(c.where, i, lo), bytes |-> c.bytes + e[mid].size]
  <2> HIDE DEF e
  <2>1. /\ c.b = b /\ b.firstfree = lo /\ b.e[lo].size \div UNIT = by
        /\ lo + by = mid /\ b.e[mid].ref = i /\ Units(b.e[mid].size) = n /\ e = b.e
    BY <1>2, <1>3 DEF by, n, e
  <2> QED
    BY <2>1 DEF MoveDown
<1> DEFINE mid2 == lo + n
<1>6. b2 = [freespace |-> b.freespace, firstfree |-> mid2, openspace |-> b.openspace,
            e |-> [x \in Places |->
                                   IF x = mid2 THEN Header(e[lo].size, Nobody)
                                   ELSE IF x >= lo /\ x < mid2 THEN e[x + by]
                                   ELSE IF x > mid2 /\ x < mid2 + by THEN Blank
                                   ELSE e[x]]]
  <2> DEFINE f == [x \in 0 .. Sentinel |->
                                   IF x = lo + n THEN Header(b.e[lo].size, Nobody)
                                   ELSE IF x >= lo /\ x < lo + n THEN b.e[x + by]
                                   ELSE IF x > lo + n /\ x < lo + n + by THEN Blank
                                   ELSE b.e[x]]
  <2>1. b2 = [b EXCEPT !.firstfree = lo + n, !.e = f]
    BY <1>5
  <2>2. f = [x \in Places |->
                                   IF x = mid2 THEN Header(e[lo].size, Nobody)
                                   ELSE IF x >= lo /\ x < mid2 THEN e[x + by]
                                   ELSE IF x > mid2 /\ x < mid2 + by THEN Blank
                                   ELSE e[x]]
    BY DEF Places
  <2> HIDE DEF f, e, mid2
  <2>3. b2 = [freespace |-> b.freespace, firstfree |-> lo + n, openspace |-> b.openspace, e |-> f]
    BY <1>0, <2>1
  <2> QED
    BY <2>2, <2>3 DEF mid2
<1>7. d.where = Told(c.where, i, lo) /\ d.bytes = c.bytes + e[mid].size
  BY <1>5
<1>8. mid2 \in Nat /\ lo < mid2 /\ mid2 < hi /\ hi = mid2 + by /\ hi = mid + n
  BY <1>1, <1>2, <1>3, <1>4
<1>9. mid2 = lo + 1 + u
  BY <1>1, <1>3
<1> HIDE DEF b2, mid2
<1>10. \A x \in Places : b2.e[x] = IF x = mid2 THEN Header(e[lo].size, Nobody)
                                   ELSE IF x >= lo /\ x < mid2 THEN e[x + by]
                                   ELSE IF x > mid2 /\ x < mid2 + by THEN Blank
                                   ELSE e[x]
  BY <1>6
<1>11. b2.freespace = b.freespace /\ b2.firstfree = mid2 /\ b2.openspace = b.openspace
       /\ b2 = [freespace |-> b2.freespace, firstfree |-> b2.firstfree,
                openspace |-> b2.openspace, e |-> b2.e]
       /\ b2.e = [x \in Places |-> b2.e[x]]
  BY <1>6
<1>12. \A x \in Nat : x >= lo /\ x < mid2 => x + by \in Places /\ x \in Places
  BY <1>0, <1>1, <1>4, <1>8, PlacesAre
<1>13. \A x \in Places : Cell(b2.e[x])
  <2> SUFFICES ASSUME NEW x \in Places PROVE Cell(b2.e[x])
    OBVIOUS
  <2>1. Cell(Header(e[lo].size, Nobody)) /\ Cell(Blank) /\ Cell(e[x])
    BY <1>0, <1>2 DEF Cell, Header, Blank, Contents, Cells
  <2>2. x >= lo /\ x < mid2 => Cell(e[x + by])
    <3>1. x \in Nat
      BY PlacesAre
    <3> QED
      BY <1>0, <1>12, <3>1 DEF Cells
  <2> QED
    BY <1>10, <2>1, <2>2
<1>14. Changed(e, b2.e, lo, hi)
  <2> SUFFICES ASSUME NEW x \in Places, Outside(x, lo, hi) PROVE b2.e[x] = e[x]
    BY DEF Changed
  <2>1. x \in Nat
    BY PlacesAre
  <2>2. x # mid2 /\ ~ (x >= lo /\ x < mid2) /\ ~ (x > mid2 /\ x < mid2 + by)
    BY <1>1, <1>4, <1>8, <2>1 DEF Outside
  <2> QED
    BY <1>10, <2>2
<1>15. \A x \in Nat : x >= lo /\ x < mid2 => b2.e[x] = e[x + by]
  <2> SUFFICES ASSUME NEW x \in Nat, x >= lo, x < mid2 PROVE b2.e[x] = e[x + by]
    OBVIOUS
  <2>1. x # mid2 /\ x \in Places
    BY <1>8, <1>12
  <2> QED
    BY <1>10, <2>1
<1>16. b2.e[lo] = e[mid]
  <2>1. lo >= lo /\ lo < mid2 /\ lo \in Nat
    BY <1>1, <1>8
  <2>2. b2.e[lo] = e[lo + by]
    BY <1>15, <2>1
  <2> QED
    BY <1>2, <2>2
<1>17. Holds(b2.e, lo, i, uri)
  <2>1. ASSUME NEW k \in 1 .. u PROVE b2.e[lo + k].text = <<uri, k>>
    <3>1. lo + k \in Nat /\ lo + k >= lo /\ lo + k < mid2 /\ (lo + k) + by = mid + k
      BY <1>1, <1>2, <1>3, <1>4, <1>9
    <3>2. b2.e[lo + k] = e[mid + k]
      BY <1>15, <3>1
    <3>3. e[mid + k].text = <<uri, k>>
      BY DEF Holds, u
    <3> QED
      BY <3>2, <3>3
  <2> QED
    BY <1>16, <2>1 DEF Holds, u
<1>18. After(b2.e, lo) = mid2
  <2>1. After(b2.e, lo) = lo + n
    BY <1>16 DEF After, n
  <2> QED
    BY <2>1 DEF mid2
<1>19. b2.e[mid2] = Header(e[lo].size, Nobody)
  <2>1. mid2 \in Places
    BY <1>0, <1>1, <1>8, PlacesAre
  <2> QED
    BY <1>10, <2>1
<1>20. b2.e[mid2].size = e[lo].size /\ b2.e[mid2].ref = Nobody
  BY <1>19 DEF Header
<1>21. IsHeader(b2.e[mid2]) /\ After(b2.e, mid2) = hi
  <2>1. IsHeader(e[lo])
    BY DEF Tiled
  <2>2. After(b2.e, mid2) = mid2 + by
    BY <1>4, <1>20 DEF After
  <2> QED
    BY <1>8, <1>20, <2>1, <2>2 DEF IsHeader
<1>22. BufType(b2)
  BY <1>0, <1>11, <1>13 DEF BufType, Cells
<1>23. Moved(b, b2, i, uri, lo, mid2, hi)
  BY <1>8, <1>11, <1>14, <1>17, <1>18, <1>20, <1>21, <1>22 DEF Moved
<1> QED
  BY <1>7, <1>9, <1>23 DEF b2, u, hi

LEMMA MoveTiled ==
  ASSUME NEW b, BufType(b), NEW H, Tiled(b.e, H), Marks(b, H),
         NEW lo \in H, lo = b.firstfree, lo # b.openspace,
         NEW mid, mid = After(b.e, lo), mid # Sentinel, b.e[mid].ref # Nobody,
         NEW b2, NEW i \in Entries, NEW uri \in Uris, NEW mid2,
         Moved(b, b2, i, uri, lo, mid2, After(b.e, mid))
  PROVE  /\ Tiled(b2.e, Replaced(H, lo, mid2, After(b.e, mid)))
         /\ Marks(b2, Replaced(H, lo, mid2, After(b.e, mid)))
<1> DEFINE hi == After(b.e, mid)
           R == Replaced(H, lo, mid2, hi)
<1>0. /\ Cells(b.e) /\ Cells(b2.e) /\ Sentinel \in Nat
      /\ \A h \in H : h \in Nat /\ h <= Sentinel /\ h \in Places
  <2>1. Cells(b.e) /\ Cells(b2.e)
    BY DEF BufType, Moved
  <2> QED
    BY <2>1, BlockEnds, BufferConsts
<1>1. /\ b.firstfree \in H /\ b.openspace \in H /\ b.firstfree <= b.openspace
      /\ b.e[b.firstfree].ref = Nobody /\ b.e[b.openspace].ref = Nobody
      /\ \A h \in H : /\ h < b.firstfree => b.e[h].ref # Nobody
                      /\ h < b.openspace => b.e[h].size > UNIT
                      /\ h > b.openspace => h = Sentinel
  BY DEF Marks
<1>2. lo \in Nat /\ b.openspace \in Nat /\ lo < b.openspace /\ lo # Sentinel
  BY <1>0, <1>1
<1>3. mid \in H /\ mid \in Nat /\ lo < mid /\ hi \in H /\ hi \in Nat /\ mid < hi /\ hi <= Sentinel
  <2>1. mid \in H /\ mid \in Nat /\ lo < mid
    BY <1>0, <1>2, BlockEnds
  <2> QED
    BY <1>0, <2>1, BlockEnds
<1>4. b.openspace >= hi
  <2>1. mid <= b.openspace
    BY <1>2, <1>1 DEF Tiled
  <2>2. mid # b.openspace
    BY <1>1
  <2>3. mid < b.openspace
    BY <1>2, <1>3, <2>1, <2>2
  <2> QED
    BY <1>1, <1>3, <2>3 DEF Tiled
<1>5. /\ Changed(b.e, b2.e, lo, hi) /\ Holds(b2.e, lo, i, uri)
      /\ lo < mid2 /\ mid2 < hi /\ After(b2.e, lo) = mid2
      /\ IsHeader(b2.e[mid2]) /\ b2.e[mid2].ref = Nobody /\ After(b2.e, mid2) = hi
      /\ b2.e[mid2].size = b.e[lo].size
      /\ b2.firstfree = mid2 /\ b2.openspace = b.openspace
  BY DEF Moved
<1>6. mid2 \in Nat
  <2>1. mid2 = lo + 1 + Units(UriLen[uri]) /\ Units(UriLen[uri]) \in Nat
    BY <1>2, <1>5, HoldsUpto
  <2> QED
    BY <1>2, <2>1
<1>7. IsHeader(b2.e[lo]) /\ b2.e[lo].size > UNIT /\ b2.e[lo].ref # Nobody
  BY <1>5, HoldsHeader
<1> HIDE DEF hi
<1>8. Tiled(b2.e, R)
  <2>1. Between(b2.e, lo, mid2, hi)
    BY <1>5, <1>7 DEF Between
  <2>2. mid2 <= hi
    BY <1>3, <1>5, <1>6
  <2> HIDE DEF R
  <2> QED
    BY <1>0, <1>3, <1>5, <1>6, <2>1, <2>2, Retile DEF R
<1>9. \A h \in R : (h \in H /\ Outside(h, lo, hi) /\ b2.e[h] = b.e[h]) \/ h = lo \/ h = mid2
  <2> SUFFICES ASSUME NEW h \in R, h # lo, h # mid2
               PROVE  h \in H /\ Outside(h, lo, hi) /\ b2.e[h] = b.e[h]
    OBVIOUS
  <2>1. h \in H /\ Outside(h, lo, hi)
    BY DEF Replaced
  <2> QED
    BY <1>0, <1>5, <2>1 DEF Changed
<1>10. b.openspace \in R /\ b2.e[b.openspace] = b.e[b.openspace] /\ mid2 \in R
       /\ mid2 <= b.openspace
  <2>1. Outside(b.openspace, lo, hi)
    BY <1>4 DEF Outside
  <2>2. b.openspace \in Places
    BY <1>0, <1>1
  <2>3. b2.e[b.openspace] = b.e[b.openspace]
    BY <1>5, <2>1, <2>2 DEF Changed
  <2>4. mid2 <= b.openspace
    BY <1>2, <1>3, <1>4, <1>5, <1>6
  <2> QED
    BY <1>1, <2>1, <2>3, <2>4 DEF Replaced
<1>11. b.e[lo].size > UNIT
  BY <1>1, <1>2
<1>12. ASSUME NEW h \in R
       PROVE  /\ h < mid2 => b2.e[h].ref # Nobody
              /\ h < b.openspace => b2.e[h].size > UNIT
              /\ h > b.openspace => h = Sentinel
  <2>1. CASE h \in H /\ Outside(h, lo, hi) /\ b2.e[h] = b.e[h]
    <3>1. h \in Nat
      BY <1>0, <2>1
    <3>2. h < mid2 => h < lo
      BY <1>2, <1>3, <1>5, <1>6, <2>1, <3>1 DEF Outside
    <3> QED
      BY <1>1, <2>1, <3>2
  <2>2. CASE h = lo
    <3>1. ~ (h > b.openspace)
      BY <1>2, <2>2
    <3> QED
      BY <1>7, <2>2, <3>1
  <2>3. CASE h = mid2
    <3>1. ~ (h < mid2) /\ ~ (h > b.openspace)
      BY <1>2, <1>6, <1>10, <2>3
    <3> QED
      BY <1>5, <1>11, <2>3, <3>1
  <2> QED
    BY <1>9, <2>1, <2>2, <2>3
<1> HIDE DEF R
<1>13. Marks(b2, R)
  BY <1>1, <1>5, <1>10, <1>12 DEF Marks
<1> QED
  BY <1>8, <1>13 DEF R, hi

\* The owner is told of the move, and no space is gained or lost.
LEMMA MoveLaid ==
  ASSUME NEW b, NEW where, NEW U, NEW ur, NEW H, Laid(b, where, U, ur, H),
         NEW lo \in H, lo = b.firstfree, lo # b.openspace,
         NEW mid, mid = After(b.e, lo), mid # Sentinel,
         NEW i \in U, where[i] = mid,
         NEW b2, NEW mid2, Moved(b, b2, i, ur[i], lo, mid2, After(b.e, mid))
  PROVE  Laid(b2, Told(where, i, lo), U, ur, Replaced(H, lo, mid2, After(b.e, mid)))
<1> DEFINE hi == After(b.e, mid)
           R == Replaced(H, lo, mid2, hi)
           e == b.e
           e2 == b2.e
           where2 == Told(where, i, lo)
<1>0. /\ BufType(b) /\ Tiled(e, H) /\ Marks(b, H) /\ Owned(e, H, where, U, ur)
      /\ Counted(b, H, U, ur) /\ Cells(e) /\ H \subseteq Places
      /\ U \subseteq Entries /\ where \in [Entries -> Nat] /\ ur = [j \in Entries |-> ur[j]]
      /\ e[lo].ref = Nobody /\ lo # Sentinel
  <2>1. /\ BufType(b) /\ Tiled(e, H) /\ Marks(b, H) /\ Owned(e, H, where, U, ur)
        /\ Counted(b, H, U, ur) /\ Cells(e) /\ H \subseteq Places
        /\ U \subseteq Entries /\ where \in [Entries -> Nat] /\ ur = [j \in Entries |-> ur[j]]
    BY DEF Laid, Known, BufType, Tiled
  <2>2. e[lo].ref = Nobody /\ lo <= b.openspace /\ b.openspace \in H /\ lo # b.openspace
    BY <2>1 DEF Marks
  <2>3. lo # Sentinel
    <3>1. lo \in Nat /\ b.openspace \in Nat /\ b.openspace <= Sentinel /\ Sentinel \in Nat
      BY <2>1, <2>2, BlockEnds, BufferConsts
    <3> QED
      BY <2>2, <3>1
  <2> QED
    BY <2>1, <2>2, <2>3
<1>1. mid \in H /\ ur[i] \in Uris /\ Holds(e, mid, i, ur[i]) /\ i \in Entries
  BY <1>0 DEF Owned
<1>2. e[mid].ref # Nobody /\ e[mid].ref = i
  BY <1>1, HoldsHeader DEF Holds
<1>3. Tiled(e2, R) /\ Marks(b2, R)
  BY <1>0, <1>1, <1>2, MoveTiled
<1>4. /\ lo \in Nat /\ mid \in Nat /\ lo < mid /\ hi \in H /\ hi \in Nat /\ mid < hi
      /\ lo \in Places /\ mid \in Places /\ hi \in Places /\ lo < hi
  <2>1. lo \in Nat /\ lo < mid /\ mid \in Nat
    BY <1>0, BlockEnds
  <2>2. hi \in H /\ hi \in Nat /\ mid < hi
    BY <1>0, <1>1, BlockEnds
  <2> QED
    BY <1>0, <1>1, <2>1, <2>2
<1>5. H = Replaced(H, lo, mid, hi)
  BY <1>0, TwoBlocks
<1>6. /\ Changed(e, e2, lo, hi) /\ Holds(e2, lo, i, ur[i])
      /\ lo < mid2 /\ mid2 < hi /\ e2[mid2].ref = Nobody /\ e2[mid2].size = e[lo].size
      /\ b2.freespace = b.freespace /\ BufType(b2) /\ Cells(e2)
  BY DEF Moved, BufType
<1>7. mid2 \in Nat /\ mid2 \in Places
  <2>1. mid2 = lo + 1 + Units(UriLen[ur[i]]) /\ Units(UriLen[ur[i]]) \in Nat
    <3>1. After(e2, lo) = mid2
      BY DEF Moved
    <3> QED
      BY <1>1, <1>4, <1>6, <3>1, HoldsUpto
  <2>2. mid2 \in Nat
    BY <1>4, <2>1
  <2>3. hi <= Sentinel /\ Sentinel \in Nat
    BY <1>4, PlacesAre, BufferConsts
  <2>4. mid2 <= Sentinel
    BY <1>4, <1>6, <2>2, <2>3
  <2> QED
    BY <2>2, <2>4, PlacesAre
<1>8. where2 \in [Entries -> Nat] /\ where2[i] = lo
      /\ \A j \in Entries : j # i => where2[j] = where[j]
  BY <1>0, <1>1, <1>4 DEF Told
<1> HIDE DEF hi, e, e2, where2
<1>9. \A h \in H : h = lo \/ h = mid \/ Outside(h, lo, hi)
  <2> SUFFICES ASSUME NEW h \in H, h # lo, h # mid PROVE Outside(h, lo, hi)
    OBVIOUS
  <2>1. h \in Replaced(H, lo, mid, hi)
    BY <1>5
  <2> QED
    BY <2>1 DEF Replaced
<1>10. ASSUME NEW j \in U
       PROVE  where2[j] \in R /\ ur[j] \in Uris /\ Holds(e2, where2[j], j, ur[j])
  <2>1. CASE j = i
    BY <1>1, <1>6, <1>8, <2>1 DEF Replaced
  <2>2. CASE j # i
    <3>1. where[j] \in H /\ ur[j] \in Uris /\ Holds(e, where[j], j, ur[j]) /\ j \in Entries
      BY <1>0 DEF Owned
    <3>2. e[where[j]].ref = j
      BY <3>1 DEF Holds
    <3>3. where[j] # lo /\ where[j] # mid
      <4>1. j # Nobody
        BY <3>1, NotNobody
      <4> QED
        BY <1>0, <1>2, <2>2, <3>2, <4>1 DEF e
    <3>4. Outside(where[j], lo, hi)
      BY <1>9, <3>1, <3>3
    <3>5. Holds(e2, where[j], j, ur[j])
      BY <1>0, <1>4, <1>6, <3>4, OwnedElsewhere
    <3>6. where2[j] = where[j]
      BY <1>8, <2>2, <3>1
    <3> QED
      BY <3>1, <3>4, <3>5, <3>6 DEF Replaced
  <2> QED
    BY <2>1, <2>2
<1>11. ASSUME NEW h \in R, e2[h].ref # Nobody
       PROVE  e2[h].ref \in U /\ where2[e2[h].ref] = h
  <2>1. CASE h = lo
    BY <1>6, <1>8, <2>1 DEF Holds
  <2>2. CASE h # lo
    <3>1. h \in H /\ Outside(h, lo, hi) /\ h \in Places
      BY <1>0, <1>6, <1>11, <2>2 DEF Replaced
    <3>2. e2[h] = e[h]
      BY <1>6, <3>1 DEF Changed
    <3>3. e[h].ref \in U /\ where[e[h].ref] = h
      BY <1>0, <1>11, <3>1, <3>2 DEF Owned
    <3>4. h # mid
      BY <1>4, <3>1 DEF Outside
    <3>5. e[h].ref # i
      BY <3>3, <3>4
    <3> QED
      BY <1>0, <1>8, <3>2, <3>3, <3>5
  <2> QED
    BY <2>1, <2>2
<1>12. Known(where2, U, ur) /\ Owned(e2, R, where2, U, ur)
  <2>1. Known(where2, U, ur)
    BY <1>0, <1>8 DEF Known
  <2> HIDE DEF R
  <2> QED
    BY <1>10, <1>11, <2>1 DEF Owned
<1>13. FreeBytes(e2, R) = FreeBytes(e, H)
  <2>1. mid <= hi /\ mid2 <= hi
    BY <1>4, <1>6, <1>7
  <2>2. FreeBytes(e2, Replaced(H, lo, mid2, hi)) = FreeBytes(e, H)
            - FreeAt(e, lo) - (IF mid < hi THEN FreeAt(e, mid) ELSE 0)
            + FreeAt(e2, lo) + (IF mid2 < hi THEN FreeAt(e2, mid2) ELSE 0)
    BY <1>0, <1>4, <1>5, <1>6, <1>7, <2>1, FreeBytesChange
  <2>3. /\ FreeAt(e, lo) = e[lo].size /\ FreeAt(e, mid) = 0
        /\ FreeAt(e2, lo) = 0 /\ FreeAt(e2, mid2) = e[lo].size
    <3>1. e2[lo].ref = i /\ i # Nobody
      BY <1>1, <1>6, NotNobody DEF Holds
    <3> QED
      BY <1>0, <1>2, <1>6, <3>1 DEF FreeAt, e
  <2>4. e[lo].size \in Nat
    BY <1>0, <1>4 DEF Cells, Cell
  <2>5. FreeBytes(e, H) \in Nat
    BY <1>0 DEF Counted, BufType, e
  <2>6. FreeBytes(e2, R) = FreeBytes(e, H) - e[lo].size - 0 + 0 + e[lo].size
    BY <1>4, <1>6, <2>2, <2>3
  <2> HIDE DEF R
  <2> QED
    BY <2>4, <2>5, <2>6
<1>14. Counted(b2, R, U, ur)
  BY <1>0, <1>6, <1>13 DEF Counted, e, e2
<1>15. Laid(b2, where2, U, ur, R)
  BY <1>3, <1>6, <1>12, <1>14 DEF Laid, e2
<1> QED
  BY <1>15 DEF where2, R, hi

-----------------------------------------------------------------------------
(* Merging two free blocks, or a free block and the sentinel. *)

\* b2 is b with the free blocks at lo and mid one block
Merged(b, b2, lo, mid, hi) ==
    /\ BufType(b2) /\ Changed(b.e, b2.e, lo, hi)
    /\ IsHeader(b2.e[lo]) /\ b2.e[lo].ref = Nobody /\ After(b2.e, lo) = hi
    /\ b2.e[lo].size = b.e[lo].size + b.e[mid].size
    /\ b2.freespace = b.freespace /\ b2.firstfree = b.firstfree
    /\ b2.openspace = IF mid = b.openspace THEN lo ELSE b.openspace

LEMMA WholeSum ==
  ASSUME NEW m \in Nat, NEW n \in Nat, m = Units(m) * UNIT, n = Units(n) * UNIT
  PROVE  Units(m + n) = Units(m) + Units(n) /\ m + n = Units(m + n) * UNIT /\ m + n \in Nat
<1> DEFINE k == Units(m)
           l == Units(n)
<1>1. k \in Nat /\ l \in Nat /\ m = k * UNIT /\ n = l * UNIT /\ UNIT \in Nat
  BY UnitsIs, BufferConsts
<1> HIDE DEF k, l
<1>2. (k + l) * UNIT = m + n /\ k + l \in Nat
  BY <1>1
<1>3. Units(m + n) = k + l
  BY <1>2, UnitsOfMultiple
<1> QED
  BY <1>2, <1>3 DEF k, l

LEMMA MergeIs ==
  ASSUME NEW c, c = [b |-> c.b, where |-> c.where, bytes |-> c.bytes],
         NEW b, b = c.b, BufType(b), NEW H, Tiled(b.e, H),
         NEW lo \in H, lo = b.firstfree, lo # Sentinel, b.e[lo].ref = Nobody,
         NEW mid, mid = After(b.e, lo), b.e[mid].ref = Nobody
  PROVE  /\ Merged(b, Merge(c).b, lo, mid, After(b.e, mid))
         /\ Merge(c).where = c.where /\ Merge(c).bytes = c.bytes
         /\ Merge(c) = [b |-> Merge(c).b, where |-> c.where, bytes |-> c.bytes]
<1> DEFINE e == b.e
           hi == After(e, mid)
           total == e[lo].size + e[mid].size
           f == [e EXCEPT ![mid] = IF mid = Sentinel THEN @ ELSE Blank,
                          ![lo].size = @ + e[mid].size]
<1> PICK d : d = Merge(c)
  OBVIOUS
<1> PICK b2 : b2 = d.b
  OBVIOUS
<1>0. /\ UNIT \in Nat /\ UNIT > 1 /\ Sentinel \in Nat /\ b.freespace \in Nat /\ Cells(e)
      /\ b = [freespace |-> b.freespace, firstfree |-> b.firstfree,
              openspace |-> b.openspace, e |-> e]
  BY BufferConsts DEF BufType
<1>1. /\ lo \in Nat /\ mid \in Nat /\ mid \in H /\ lo < mid /\ lo \in Places /\ mid \in Places
      /\ hi \in Nat /\ mid <= hi
      /\ e[lo].size \in Nat /\ e[mid].size \in Nat
  <2>1. lo \in Nat /\ mid \in Nat /\ mid \in H /\ lo < mid /\ lo \in Places
    BY <1>0, BlockEnds
  <2>2. mid \in Places
    BY <1>0, <2>1, BlockEnds
  <2>3. hi \in Nat /\ (mid # Sentinel => mid < hi) /\ (mid = Sentinel => hi = Sentinel)
    BY <1>0, <2>1, BlockEnds
  <2>4. mid <= hi
    BY <2>1, <2>3
  <2> QED
    BY <1>0, <2>1, <2>2, <2>3, <2>4 DEF Cells, Cell
<1>2. lo + e[lo].size \div UNIT = mid
  BY <1>0, FreeSkips
<1>3. d = [c EXCEPT !.b.e = f, !.b.openspace = IF mid = @ THEN lo ELSE @]
  <2>1. /\ c.b = b /\ b.firstfree = lo /\ c.b.firstfree = lo /\ e = b.e /\ c.b.e = e
    OBVIOUS
  <2> HIDE DEF e
  <2> QED
    BY <1>2, <2>1 DEF Merge
<1>4. /\ d = [b |-> d.b, where |-> c.where, bytes |-> c.bytes]
      /\ b2 = [freespace |-> b.freespace, firstfree |-> b.firstfree,
               openspace |-> IF mid = b.openspace THEN lo ELSE b.openspace, e |-> f]
  <2> HIDE DEF f, e
  <2>1. d = [b |-> [b EXCEPT !.e = f, !.openspace = IF mid = @ THEN lo ELSE @],
             where |-> c.where, bytes |-> c.bytes]
    BY <1>3
  <2>2. b2 = [b EXCEPT !.e = f, !.openspace = IF mid = @ THEN lo ELSE @]
    BY <2>1
  <2> QED
    BY <1>0, <2>1, <2>2
<1>5. e = [x \in Places |-> e[x]]
  BY <1>0 DEF Cells
<1>6. /\ e[lo] = [size |-> e[lo].size, ref |-> e[lo].ref, text |-> e[lo].text]
      /\ e[lo].ref = Nobody
  BY <1>0, <1>1 DEF Cells, Cell
<1>7. /\ f = [x \in Places |-> f[x]]
      /\ f[lo] = [size |-> total, ref |-> Nobody, text |-> e[lo].text]
      /\ f[mid] = IF mid = Sentinel THEN e[mid] ELSE Blank
      /\ \A x \in Places : x # lo /\ x # mid => f[x] = e[x]
  <2>1. lo # mid
    BY <1>1
  <2> DEFINE g == [e EXCEPT ![mid] = IF mid = Sentinel THEN @ ELSE Blank]
  <2>2. /\ g = [x \in Places |-> g[x]]
        /\ g[mid] = IF mid = Sentinel THEN e[mid] ELSE Blank
        /\ \A x \in Places : x # mid => g[x] = e[x]
    <3> HIDE DEF e
    <3> QED
      BY <1>1, <1>5
  <2>3. f = [g EXCEPT ![lo].size = @ + e[mid].size]
    OBVIOUS
  <2> HIDE DEF e, f, g
  <2>4. g[lo] = [size |-> e[lo].size, ref |-> Nobody, text |-> e[lo].text]
    BY <1>1, <1>6, <2>1, <2>2
  <2>5. f = [g EXCEPT ![lo] = [g[lo] EXCEPT !.size = @ + e[mid].size]]
    BY <2>3
  <2>6. [g[lo] EXCEPT !.size = @ + e[mid].size]
           = [size |-> total, ref |-> Nobody, text |-> e[lo].text]
    BY <2>4
  <2> HIDE DEF total
  <2> QED
    BY <1>1, <2>1, <2>2, <2>5, <2>6
<1> HIDE DEF f
<1>8. IsHeader(e[lo]) /\ e[lo].size = Units(e[lo].size) * UNIT
  BY <1>6 DEF Tiled, IsHeader
<1>9. e[mid].size = Units(e[mid].size) * UNIT
  <2>1. CASE mid = Sentinel
    <3>1. e[mid].size = 0
      BY <2>1 DEF Tiled
    <3>2. Units(0) = 0
      BY UnitsIs
    <3> QED
      BY <1>0, <3>1, <3>2
  <2>2. CASE mid # Sentinel
    BY <1>1, <2>2 DEF Tiled, IsHeader
  <2> QED
    BY <2>1, <2>2
<1> HIDE DEF e
<1>10. Units(total) = Units(e[lo].size) + Units(e[mid].size) /\ total = Units(total) * UNIT
       /\ total \in Nat
  BY <1>1, <1>8, <1>9, WholeSum
<1>11. total >= UNIT
  BY <1>0, <1>1, <1>8 DEF IsHeader
<1>12. b2.e[lo].size = total /\ b2.e[lo].ref = Nobody /\ IsHeader(b2.e[lo])
  BY <1>4, <1>7, <1>10, <1>11 DEF IsHeader
<1>13. After(b2.e, lo) = hi
  <2>1. Units(e[lo].size) \in Nat /\ Units(e[mid].size) \in Nat
    BY <1>1, UnitsIs
  <2>2. mid = lo + Units(e[lo].size) /\ hi = mid + Units(e[mid].size)
    BY DEF After, e
  <2>3. After(b2.e, lo) = lo + Units(total)
    BY <1>12 DEF After
  <2> DEFINE u == Units(e[lo].size)
             v == Units(e[mid].size)
             w == Units(total)
  <2>4. /\ u \in Nat /\ v \in Nat /\ w = u + v /\ lo \in Nat
        /\ mid = lo + u /\ hi = mid + v /\ After(b2.e, lo) = lo + w
    BY <1>1, <1>10, <2>1, <2>2, <2>3
  <2> HIDE DEF hi, u, v, w
  <2> QED
    BY <2>4
<1>14. Cells(b2.e)
  <2>1. ASSUME NEW x \in Places PROVE Cell(f[x])
    <3>1. Cell(e[x]) /\ Cell(Blank)
      BY <1>0 DEF Cells, Cell, Blank, Contents
    <3>2. Cell([size |-> total, ref |-> Nobody, text |-> e[lo].text])
      BY <1>10 DEF Cell
    <3>3. Cell(f[lo])
      BY <1>7, <3>2
    <3>4. CASE x = lo
      BY <3>3, <3>4
    <3>5. CASE x = mid
      BY <1>7, <3>1, <3>5
    <3> QED
      BY <1>7, <3>1, <3>4, <3>5
  <2> QED
    BY <1>4, <1>7, <2>1 DEF Cells
<1>15. Changed(e, b2.e, lo, hi)
  <2> SUFFICES ASSUME NEW x \in Places, Outside(x, lo, hi) PROVE f[x] = e[x]
    BY <1>4 DEF Changed
  <2>1. x \in Nat
    BY PlacesAre
  <2>2. x # lo
    <3>1. lo < hi
      BY <1>1
    <3> QED
      BY <1>1, <2>1, <3>1 DEF Outside
  <2>3. x = mid => mid = Sentinel
    <3>1. mid # Sentinel => mid < hi
      BY <1>0, <1>1, BlockEnds DEF hi, e
    <3> QED
      BY <1>1, <2>1, <3>1 DEF Outside
  <2> QED
    BY <1>7, <2>2, <2>3
<1>16. BufType(b2)
  BY <1>0, <1>4, <1>14 DEF BufType
<1>17. Merged(b, b2, lo, mid, hi)
  BY <1>4, <1>12, <1>13, <1>15, <1>16 DEF Merged, e, total
<1>18. d.where = c.where /\ d.bytes = c.bytes
  BY <1>4
<1> QED
  BY <1>4, <1>17, <1>18 DEF hi, e

LEMMA MergeTiled ==
  ASSUME NEW b, BufType(b), NEW H, Tiled(b.e, H), Marks(b, H),
         NEW lo \in H, lo = b.firstfree, lo # b.openspace, lo # Sentinel,
         NEW mid, mid = After(b.e, lo), b.e[mid].ref = Nobody,
         NEW b2, Merged(b, b2, lo, mid, After(b.e, mid))
  PROVE  /\ Tiled(b2.e, Replaced(H, lo, After(b.e, mid), After(b.e, mid)))
         /\ Marks(b2, Replaced(H, lo, After(b.e, mid), After(b.e, mid)))
<1> DEFINE hi == After(b.e, mid)
           R == Replaced(H, lo, hi, hi)
<1>0. /\ Cells(b.e) /\ Cells(b2.e) /\ Sentinel \in Nat
      /\ \A h \in H : h \in Nat /\ h <= Sentinel /\ h \in Places
  <2>1. Cells(b.e) /\ Cells(b2.e)
    BY DEF BufType, Merged
  <2> QED
    BY <2>1, BlockEnds, BufferConsts
<1>1. /\ b.firstfree \in H /\ b.openspace \in H /\ b.firstfree <= b.openspace
      /\ b.e[b.openspace].ref = Nobody
      /\ \A h \in H : /\ h < b.firstfree => b.e[h].ref # Nobody
                      /\ h < b.openspace => b.e[h].size > UNIT
                      /\ h > b.openspace => h = Sentinel
  BY DEF Marks
<1>2. lo \in Nat /\ b.openspace \in Nat /\ lo < b.openspace
  BY <1>0, <1>1
<1>3. /\ mid \in H /\ mid \in Nat /\ lo < mid /\ hi \in H /\ hi \in Nat /\ hi <= Sentinel
      /\ (mid # Sentinel => mid < hi) /\ (mid = Sentinel => hi = Sentinel) /\ lo < hi
  <2>1. mid \in H /\ mid \in Nat /\ lo < mid
    BY <1>0, BlockEnds
  <2>2. (mid # Sentinel => mid < hi /\ hi \in H) /\ (mid = Sentinel => hi = Sentinel)
        /\ hi \in Nat
    BY <1>0, <2>1, BlockEnds
  <2>3. hi \in H
    BY <2>1, <2>2
  <2>4. lo < hi
    BY <1>2, <2>1, <2>2
  <2> QED
    BY <1>0, <2>1, <2>2, <2>3, <2>4
<1>4. mid # b.openspace => b.openspace >= hi
  <2> SUFFICES ASSUME mid # b.openspace PROVE b.openspace >= hi
    OBVIOUS
  <2>1. mid <= b.openspace
    BY <1>1, <1>2 DEF Tiled
  <2>2. mid < b.openspace
    BY <1>2, <1>3, <2>1
  <2>3. hi <= b.openspace
    BY <1>1, <1>3, <2>2 DEF Tiled
  <2> QED
    BY <1>2, <1>3, <2>3
<1>5. /\ Changed(b.e, b2.e, lo, hi)
      /\ IsHeader(b2.e[lo]) /\ b2.e[lo].ref = Nobody /\ After(b2.e, lo) = hi
      /\ b2.e[lo].size = b.e[lo].size + b.e[mid].size
      /\ b2.firstfree = lo
      /\ b2.openspace = IF mid = b.openspace THEN lo ELSE b.openspace
  BY DEF Merged
<1>6. b2.e[lo].size > UNIT
  <2>1. b.e[lo].size \in Nat /\ b.e[mid].size \in Nat
    BY <1>0, <1>3 DEF Cells, Cell
  <2>2. b.e[lo].size > UNIT
    BY <1>1, <1>2
  <2> QED
    BY <1>5, <2>1, <2>2, BufferConsts
<1> HIDE DEF hi
<1>7. hi <= hi
  BY <1>3
<1>8. Tiled(b2.e, R)
  <2>1. Between(b2.e, lo, hi, hi)
    BY <1>3, <1>5 DEF Between
  <2> HIDE DEF R
  <2> QED
    BY <1>0, <1>3, <1>5, <1>7, <2>1, Retile DEF R
<1>9. \A h \in R : (h \in H /\ Outside(h, lo, hi) /\ b2.e[h] = b.e[h]) \/ h = lo
  <2> SUFFICES ASSUME NEW h \in R, h # lo PROVE h \in H /\ Outside(h, lo, hi) /\ b2.e[h] = b.e[h]
    OBVIOUS
  <2>1. h \in H /\ Outside(h, lo, hi)
    BY <1>3, <1>7 DEF Replaced, Outside
  <2> QED
    BY <1>0, <1>5, <2>1 DEF Changed
<1>10. lo \in R /\ b2.openspace \in R /\ b2.e[b2.openspace].ref = Nobody /\ lo <= b2.openspace
       /\ b2.openspace <= b.openspace
       /\ b2.openspace \in Nat
  <2>1. CASE mid = b.openspace
    BY <1>2, <1>5, <2>1 DEF Replaced
  <2>2. CASE mid # b.openspace
    <3>1. Outside(b.openspace, lo, hi) /\ b2.openspace = b.openspace
      BY <1>4, <1>5, <2>2 DEF Outside
    <3>2. b2.e[b.openspace] = b.e[b.openspace]
      BY <1>0, <1>1, <1>5, <3>1 DEF Changed
    <3>3. b.openspace \in R
      BY <1>1, <3>1 DEF Replaced
    <3> QED
      BY <1>1, <1>2, <3>1, <3>2, <3>3 DEF Replaced
  <2> QED
    BY <2>1, <2>2
<1>11. ASSUME NEW h \in R
       PROVE  /\ h < lo => b2.e[h].ref # Nobody
              /\ h < b2.openspace => b2.e[h].size > UNIT
              /\ h > b2.openspace => h = Sentinel
  <2>1. CASE h \in H /\ Outside(h, lo, hi) /\ b2.e[h] = b.e[h]
    <3>1. h \in Nat
      BY <1>0, <2>1
    <3>2. h < b2.openspace => h < b.openspace
      BY <1>2, <1>10, <3>1
    <3>3. h > b2.openspace => h > b.openspace \/ mid = b.openspace
      BY <1>5
    <3>4. ASSUME h > b2.openspace, mid = b.openspace PROVE h = Sentinel
      <4>1. b2.openspace = lo
        BY <1>5, <3>4
      <4>2. h >= hi
        BY <1>2, <2>1, <3>1, <3>4, <4>1 DEF Outside
      <4>3. CASE mid = Sentinel
        <5>1. hi = Sentinel /\ h <= Sentinel
          BY <1>0, <1>3, <2>1, <4>3
        <5> QED
          BY <1>0, <3>1, <4>2, <5>1
      <4>4. CASE mid # Sentinel
        <5>1. h > b.openspace
          BY <1>2, <1>3, <3>1, <3>4, <4>2, <4>4
        <5> QED
          BY <1>1, <2>1, <5>1
      <4> QED
        BY <4>3, <4>4
    <3> QED
      BY <1>1, <2>1, <3>2, <3>3, <3>4
  <2>2. CASE h = lo
    <3>1. ~ (h < lo) /\ ~ (h > b2.openspace)
      BY <1>2, <1>10, <2>2
    <3> QED
      BY <1>6, <2>2, <3>1
  <2> QED
    BY <1>9, <2>1, <2>2
<1>12. b2.e[b2.firstfree].ref = Nobody /\ b2.firstfree = lo
  BY <1>5
<1> HIDE DEF R
<1>13. Marks(b2, R)
  BY <1>10, <1>11, <1>12 DEF Marks
<1> QED
  BY <1>8, <1>13 DEF R, hi

\* No block in use is touched, and no space is gained or lost.
LEMMA MergeLaid ==
  ASSUME NEW b, NEW where, NEW U, NEW ur, NEW H, Laid(b, where, U, ur, H),
         NEW lo \in H, lo = b.firstfree, lo # b.openspace,
         NEW mid, mid = After(b.e, lo), b.e[mid].ref = Nobody,
         NEW b2, Merged(b, b2, lo, mid, After(b.e, mid))
  PROVE  Laid(b2, where, U, ur, Replaced(H, lo, After(b.e, mid), After(b.e, mid)))
<1> DEFINE hi == After(b.e, mid)
           R == Replaced(H, lo, hi, hi)
           e == b.e
           e2 == b2.e
<1>0. /\ BufType(b) /\ Tiled(e, H) /\ Marks(b, H) /\ Owned(e, H, where, U, ur)
      /\ Counted(b, H, U, ur) /\ Cells(e) /\ H \subseteq Places
      /\ Known(where, U, ur) /\ U \subseteq Entries
      /\ e[lo].ref = Nobody /\ lo # Sentinel
  <2>1. /\ BufType(b) /\ Tiled(e, H) /\ Marks(b, H) /\ Owned(e, H, where, U, ur)
        /\ Counted(b, H, U, ur) /\ Cells(e) /\ H \subseteq Places
        /\ Known(where, U, ur) /\ U \subseteq Entries
    BY DEF Laid, Known, BufType, Tiled
  <2>2. e[lo].ref = Nobody /\ lo <= b.openspace /\ b.openspace \in H /\ lo # b.openspace
    BY <2>1 DEF Marks
  <2>3. lo # Sentinel
    <3>1. lo \in Nat /\ b.openspace \in Nat /\ b.openspace <= Sentinel /\ Sentinel \in Nat
      BY <2>1, <2>2, BlockEnds, BufferConsts
    <3> QED
      BY <2>2, <3>1
  <2> QED
    BY <2>1, <2>2, <2>3
<1>1. Tiled(e2, R) /\ Marks(b2, R)
  BY <1>0, MergeTiled
<1>2. /\ lo \in Nat /\ mid \in Nat /\ lo < mid /\ mid \in H /\ hi \in H /\ hi \in Nat /\ mid <= hi
      /\ (mid = Sentinel => hi = Sentinel) /\ (mid # Sentinel => mid < hi)
      /\ lo \in Places /\ mid \in Places /\ hi \in Places /\ lo < hi
  <2>1. lo \in Nat /\ lo < mid /\ mid \in Nat /\ mid \in H
    BY <1>0, BlockEnds
  <2>2. hi \in Nat /\ (mid # Sentinel => mid < hi /\ hi \in H) /\ (mid = Sentinel => hi = Sentinel)
    BY <1>0, <2>1, BlockEnds
  <2>3. hi \in H /\ mid <= hi /\ lo < hi
    BY <2>1, <2>2
  <2> QED
    BY <1>0, <2>1, <2>2, <2>3
<1>3. H = Replaced(H, lo, mid, hi)
  <2>1. CASE mid = Sentinel
    <3>1. H = Replaced(H, lo, mid, mid)
      BY <1>0, OneBlock
    <3>2. hi = mid
      BY <1>2, <2>1
    <3> HIDE DEF hi
    <3> QED
      BY <3>1, <3>2
  <2>2. CASE mid # Sentinel
    BY <1>0, <2>2, TwoBlocks
  <2> QED
    BY <2>1, <2>2
<1>4. /\ Changed(e, e2, lo, hi) /\ e2[lo].ref = Nobody
      /\ e2[lo].size = e[lo].size + e[mid].size
      /\ b2.freespace = b.freespace /\ BufType(b2) /\ Cells(e2)
  BY DEF Merged, BufType
<1>5. e[mid].ref = Nobody
  OBVIOUS
<1> HIDE DEF hi, e, e2
<1>6. \A h \in H : h = lo \/ h = mid \/ Outside(h, lo, hi)
  <2> SUFFICES ASSUME NEW h \in H, h # lo, h # mid PROVE Outside(h, lo, hi)
    OBVIOUS
  <2>1. h \in Replaced(H, lo, mid, hi)
    BY <1>3
  <2> QED
    BY <2>1 DEF Replaced
<1>7. ASSUME NEW j \in U
      PROVE  where[j] \in R /\ ur[j] \in Uris /\ Holds(e2, where[j], j, ur[j])
  <2>1. where[j] \in H /\ ur[j] \in Uris /\ Holds(e, where[j], j, ur[j]) /\ j \in Entries
    BY <1>0 DEF Owned
  <2>2. e[where[j]].ref = j /\ j # Nobody
    BY <2>1, NotNobody DEF Holds
  <2>3. Outside(where[j], lo, hi)
    BY <1>0, <1>5, <1>6, <2>1, <2>2
  <2>4. Holds(e2, where[j], j, ur[j])
    BY <1>0, <1>2, <1>4, <2>3, OwnedElsewhere
  <2> QED
    BY <2>1, <2>3, <2>4 DEF Replaced
<1>8. ASSUME NEW h \in R, e2[h].ref # Nobody
      PROVE  e2[h].ref \in U /\ where[e2[h].ref] = h
  <2>1. h # lo
    BY <1>4, <1>8
  <2>2. h \in H /\ Outside(h, lo, hi) /\ h \in Places
    BY <1>0, <1>2, <2>1 DEF Replaced, Outside
  <2>3. e2[h] = e[h]
    BY <1>4, <2>2 DEF Changed
  <2> QED
    BY <1>0, <1>8, <2>2, <2>3 DEF Owned
<1>9. Owned(e2, R, where, U, ur)
  <2> HIDE DEF R
  <2> QED
    BY <1>7, <1>8 DEF Owned
<1>10. FreeBytes(e2, R) = FreeBytes(e, H)
  <2>1. hi <= hi
    BY <1>2
  <2>2. FreeBytes(e2, Replaced(H, lo, hi, hi)) = FreeBytes(e, H)
            - FreeAt(e, lo) - (IF mid < hi THEN FreeAt(e, mid) ELSE 0)
            + FreeAt(e2, lo) + (IF hi < hi THEN FreeAt(e2, hi) ELSE 0)
    BY <1>0, <1>2, <1>3, <1>4, <2>1, FreeBytesChange
  <2>3. /\ FreeAt(e, lo) = e[lo].size /\ FreeAt(e, mid) = e[mid].size
        /\ FreeAt(e2, lo) = e[lo].size + e[mid].size
    BY <1>0, <1>4, <1>5 DEF FreeAt
  <2>4. e[lo].size \in Nat /\ e[mid].size \in Nat
    BY <1>0, <1>2 DEF Cells, Cell
  <2>5. FreeBytes(e, H) \in Nat
    BY <1>0 DEF Counted, BufType, e
  <2>6. (IF mid < hi THEN FreeAt(e, mid) ELSE 0) = e[mid].size
    <3>1. CASE mid # Sentinel
      BY <1>2, <2>3, <3>1
    <3>2. CASE mid = Sentinel
      <4>1. e[mid].size = 0
        BY <1>0, <3>2 DEF Tiled
      <4> QED
        BY <2>3, <4>1
    <3> QED
      BY <3>1, <3>2
  <2>7. ~ (hi < hi)
    BY <1>2
  <2>8. FreeBytes(e2, R) = FreeBytes(e, H) - e[lo].size - e[mid].size
                             + (e[lo].size + e[mid].size) + 0
    BY <2>2, <2>3, <2>6, <2>7
  <2> HIDE DEF R
  <2> QED
    BY <2>4, <2>5, <2>8
<1>11. Counted(b2, R, U, ur)
  BY <1>0, <1>4, <1>10 DEF Counted, e, e2
<1> HIDE DEF R
<1>12. Laid(b2, where, U, ur, R)
  BY <1>0, <1>1, <1>4, <1>9, <1>11 DEF Laid, e2
<1> QED
  BY <1>12 DEF R, hi

-----------------------------------------------------------------------------
(* A collection. *)

BufOK(b, where, U, ur) == \E H : Laid(b, where, U, ur, H)

\* a collection c under way, where bytes only bounds the work done
Collecting(c, U, ur) ==
    /\ c = [b |-> c.b, where |-> c.where, bytes |-> c.bytes]
    /\ BufOK(c.b, c.where, U, ur)

LEMMA GcStepOK ==
  ASSUME NEW c, NEW U, NEW ur, Collecting(c, U, ur), c.b.firstfree # c.b.openspace
  PROVE  Collecting(GcStep(c), U, ur)
<1> PICK b : b = c.b
  OBVIOUS
<1> PICK where : where = c.where
  OBVIOUS
<1> PICK H : Laid(b, where, U, ur, H)
  BY DEF Collecting, BufOK
<1> PICK lo : lo = b.firstfree
  OBVIOUS
<1> PICK mid : mid = After(b.e, lo)
  OBVIOUS
<1>0. /\ BufType(b) /\ Tiled(b.e, H) /\ Marks(b, H) /\ Owned(b.e, H, where, U, ur) /\ Cells(b.e)
      /\ U \subseteq Entries
  BY DEF Laid, BufType, Known
<1>1. lo \in H /\ lo # b.openspace /\ b.e[lo].ref = Nobody /\ b.openspace \in H /\ lo <= b.openspace
  BY <1>0 DEF Marks
<1>2. lo # Sentinel
  <2>1. lo \in Nat /\ b.openspace \in Nat /\ b.openspace <= Sentinel /\ Sentinel \in Nat
    BY <1>0, <1>1, BlockEnds, BufferConsts
  <2> QED
    BY <1>1, <2>1
<1>3. lo + b.e[lo].size \div UNIT = mid
  BY <1>0, <1>1, <1>2, FreeSkips
<1>4. mid \in H
  BY <1>0, <1>1, <1>2, BlockEnds
<1>5. GcStep(c) = IF b.e[mid].ref # Nobody THEN MoveDown(c) ELSE Merge(c)
  <2>1. c.b.firstfree + c.b.e[c.b.firstfree].size \div UNIT = mid
    BY <1>3
  <2> QED
    BY <2>1 DEF GcStep
<1>6. CASE b.e[mid].ref # Nobody
  <2>1. PICK i : i = b.e[mid].ref
    OBVIOUS
  <2>2. i \in U /\ where[i] = mid /\ mid # Sentinel
    BY <1>0, <1>4, <1>6, <2>1 DEF Owned, Tiled
  <2>3. i \in Entries /\ ur[i] \in Uris /\ Holds(b.e, mid, i, ur[i])
    BY <1>0, <2>2 DEF Owned
  <2>4. PICK d : d = MoveDown(c)
    OBVIOUS
  <2>5. PICK mid2 : mid2 = lo + 1 + Units(UriLen[ur[i]])
    OBVIOUS
  <2>6. /\ Moved(b, d.b, i, ur[i], lo, mid2, After(b.e, mid))
        /\ d.where = Told(where, i, lo)
    BY <1>0, <1>1, <1>2, <2>2, <2>3, <2>4, <2>5, MoveIs
  <2>7. Laid(d.b, Told(where, i, lo), U, ur, Replaced(H, lo, mid2, After(b.e, mid)))
    BY <1>1, <2>2, <2>6, MoveLaid
  <2>8. d = [b |-> d.b, where |-> d.where, bytes |-> d.bytes]
    BY <2>4 DEF MoveDown
  <2>9. BufOK(d.b, d.where, U, ur)
    BY <2>6, <2>7 DEF BufOK
  <2> QED
    BY <1>5, <1>6, <2>4, <2>8, <2>9 DEF Collecting
<1>7. CASE b.e[mid].ref = Nobody
  <2>1. PICK d : d = Merge(c)
    OBVIOUS
  <2>2. c = [b |-> c.b, where |-> c.where, bytes |-> c.bytes]
    BY DEF Collecting
  <2>3. /\ Merged(b, d.b, lo, mid, After(b.e, mid)) /\ d.where = where
        /\ d = [b |-> d.b, where |-> d.where, bytes |-> d.bytes]
    BY <1>0, <1>1, <1>2, <1>7, <2>1, <2>2, MergeIs
  <2>4. Laid(d.b, where, U, ur, Replaced(H, lo, After(b.e, mid), After(b.e, mid)))
    BY <1>1, <1>7, <2>3, MergeLaid
  <2>5. BufOK(d.b, d.where, U, ur)
    BY <2>3, <2>4 DEF BufOK
  <2> QED
    BY <1>5, <1>7, <2>1, <2>3, <2>5 DEF Collecting
<1> QED
  BY <1>6, <1>7

GcRound(c) ==
    IF c.b.firstfree # c.b.openspace /\ c.bytes < MAX_BYTES THEN GcStep(c) ELSE c

GcRounds(g, c0, n) ==
    /\ g = [k \in 0 .. n |-> g[k]]
    /\ g[0] = c0
    /\ \A k \in 1 .. n : g[k] = GcRound(g[k - 1])

LEMMA GcRoundsExist ==
  ASSUME NEW c0, NEW N \in Nat
  PROVE  \E g : GcRounds(g, c0, N)
<1> DEFINE S == {n \in 0 .. N : \E g : GcRounds(g, c0, n)}
<1>1. 0 \in S
  <2>1. GcRounds([k \in 0 .. 0 |-> c0], c0, 0)
    BY DEF GcRounds
  <2> QED
    BY <2>1
<1>2. ASSUME NEW n \in 1 .. N, n - 1 \in S PROVE n \in S
  <2>1. PICK g : GcRounds(g, c0, n - 1)
    BY <1>2
  <2> DEFINE h == [k \in 0 .. n |-> IF k = n THEN GcRound(g[n - 1]) ELSE g[k]]
  <2>2. h = [k \in 0 .. n |-> h[k]] /\ h[0] = c0
    BY <2>1 DEF GcRounds
  <2>3. ASSUME NEW k \in 1 .. n PROVE h[k] = GcRound(h[k - 1])
    <3>1. k - 1 \in 0 .. n /\ k - 1 # n
      OBVIOUS
    <3>2. h[k - 1] = g[k - 1]
      BY <3>1
    <3>3. CASE k = n
      BY <3>2, <3>3
    <3>4. CASE k # n
      <4>1. k \in 1 .. n - 1
        BY <3>4
      <4>2. h[k] = g[k]
        BY <3>4
      <4>3. g[k] = GcRound(g[k - 1])
        BY <2>1, <4>1 DEF GcRounds
      <4> QED
        BY <3>2, <4>2, <4>3
    <3> QED
      BY <3>3, <3>4
  <2> HIDE DEF h
  <2>4. GcRounds(h, c0, n)
    BY <2>2, <2>3 DEF GcRounds
  <2> QED
    BY <2>4
<1>3. \A n \in 0 .. N : n \in S
  <2> HIDE DEF S
  <2>1. S \subseteq 0 .. N
    BY DEF S
  <2> QED
    BY <1>1, <1>2, <2>1, NatInSet
<1> QED
  BY <1>3

LEMMA GcIsRounds ==
  ASSUME NEW b, NEW where
  PROVE  \E g : /\ GcRounds(g, [b |-> b, where |-> where, bytes |-> 0], MAX_BLOCKS)
                /\ zhe_icgcb_gc(b, where) = g[MAX_BLOCKS]
<1> DEFINE c0 == [b |-> b, where |-> where, bytes |-> 0]
           Body(f) == [k \in 0 .. MAX_BLOCKS |->
                         IF k = 0 THEN c0
                         ELSE LET c == f[k-1]
                              IN  IF c.b.firstfree # c.b.openspace /\ c.bytes < MAX_BYTES
                                  THEN GcStep(c) ELSE c]
           run == CHOOSE f : f = Body(f)
<1>0. MAX_BLOCKS \in Nat
  BY BufferConsts
<1>1. zhe_icgcb_gc(b, where) = run[MAX_BLOCKS]
  BY DEF zhe_icgcb_gc
<1>2. PICK g : GcRounds(g, c0, MAX_BLOCKS)
  BY <1>0, GcRoundsExist
<1>3. \A k \in 0 .. MAX_BLOCKS : k = 0 \/ k \in 1 .. MAX_BLOCKS
  BY <1>0
<1>4. g = Body(g)
  <2>1. \A k \in 0 .. MAX_BLOCKS : g[k] = Body(g)[k]
    BY <1>2, <1>3 DEF GcRounds, GcRound
  <2> QED
    BY <1>2, <2>1 DEF GcRounds
<1>5. run = Body(run)
  BY <1>4
<1> HIDE DEF run
<1>6. GcRounds(run, c0, MAX_BLOCKS)
  <2>1. 0 \in 0 .. MAX_BLOCKS /\ \A k \in 1 .. MAX_BLOCKS : k \in 0 .. MAX_BLOCKS /\ k # 0
    BY <1>0
  <2>2. run = [k \in 0 .. MAX_BLOCKS |-> run[k]] /\ run[0] = c0
    BY <1>5, <2>1
  <2>3. \A k \in 1 .. MAX_BLOCKS : run[k] = GcRound(run[k - 1])
    BY <1>5, <2>1 DEF GcRound
  <2> QED
    BY <2>2, <2>3 DEF GcRounds
<1> QED
  BY <1>1, <1>6

\* A collection, as far as it goes, keeps what the buffer holds.
LEMMA GcOK ==
  ASSUME NEW b, NEW where, NEW U, NEW ur, BufOK(b, where, U, ur)
  PROVE  BufOK(zhe_icgcb_gc(b, where).b, zhe_icgcb_gc(b, where).where, U, ur)
<1> DEFINE c0 == [b |-> b, where |-> where, bytes |-> 0]
<1>1. PICK g : GcRounds(g, c0, MAX_BLOCKS) /\ zhe_icgcb_gc(b, where) = g[MAX_BLOCKS]
  BY GcIsRounds
<1>2. Collecting(c0, U, ur)
  BY DEF Collecting
<1> DEFINE S == {k \in 0 .. MAX_BLOCKS : Collecting(g[k], U, ur)}
<1> HIDE DEF c0
<1>0. MAX_BLOCKS \in Nat
  BY BufferConsts
<1>3. 0 \in S
  BY <1>0, <1>1, <1>2 DEF GcRounds
<1>4. ASSUME NEW k \in 1 .. MAX_BLOCKS, k - 1 \in S PROVE k \in S
  <2>1. Collecting(g[k - 1], U, ur)
    BY <1>4
  <2>2. g[k] = GcRound(g[k - 1])
    BY <1>1 DEF GcRounds
  <2>3. PICK c : c = g[k - 1]
    OBVIOUS
  <2>4. Collecting(GcRound(c), U, ur)
    BY <2>1, <2>3, GcStepOK DEF GcRound
  <2>5. Collecting(g[k], U, ur)
    BY <2>2, <2>3, <2>4
  <2> QED
    BY <1>0, <2>5
<1>5. \A k \in 0 .. MAX_BLOCKS : k \in S
  <2> HIDE DEF S
  <2>1. S \subseteq 0 .. MAX_BLOCKS
    BY DEF S
  <2> QED
    BY <1>0, <1>3, <1>4, <2>1, NatInSet
<1>6. Collecting(g[MAX_BLOCKS], U, ur)
  BY <1>0, <1>5
<1> QED
  BY <1>1, <1>6 DEF Collecting

\* At first all space is free.
LEMMA InitLaid ==
  ASSUME NEW ur, ur = [i \in Entries |-> ur[i]]
  PROVE  BufOK(zhe_icgcb_init, [i \in Entries |-> 0], {}, ur)
<1> DEFINE b == zhe_icgcb_init
           e == b.e
           H == {0, Sentinel}
           all == Sentinel * UNIT
<1>0. /\ UNIT \in Nat /\ UNIT > 1 /\ Sentinel \in Nat /\ Sentinel >= 1
      /\ 0 \in Places /\ Sentinel \in Places /\ 0 # Sentinel
  BY BufferConsts, PlacesAre
<1>1. all \in Nat /\ Units(all) = Sentinel /\ all >= UNIT
  <2>1. all \in Nat /\ Units(all) = Sentinel
    BY <1>0, UnitsOfMultiple
  <2>2. all >= UNIT
    BY <1>0
  <2> QED
    BY <2>1, <2>2
<1> HIDE DEF all
<1>2. b = [freespace |-> all, firstfree |-> 0, openspace |-> 0,
           e |-> [x \in Places |-> IF x = 0 THEN Header(all, Nobody)
                                   ELSE IF x = Sentinel THEN Header(0, Nobody) ELSE Blank]]
  BY DEF zhe_icgcb_init, Places, all
<1> HIDE DEF b
<1>3. /\ b = [freespace |-> b.freespace, firstfree |-> b.firstfree,
              openspace |-> b.openspace, e |-> e]
      /\ b.freespace = all /\ b.firstfree = 0 /\ b.openspace = 0
      /\ e = [x \in Places |-> e[x]]
      /\ \A x \in Places : e[x] = IF x = 0 THEN Header(all, Nobody)
                                  ELSE IF x = Sentinel THEN Header(0, Nobody) ELSE Blank
  BY <1>2
<1> HIDE DEF e
<1>4. /\ e[0].size = all /\ e[0].ref = Nobody
      /\ e[Sentinel].size = 0 /\ e[Sentinel].ref = Nobody
  BY <1>0, <1>3 DEF Header
<1>5. Cells(e)
  <2>1. ASSUME NEW x \in Places PROVE Cell(e[x])
    <3>1. Cell(Header(all, Nobody)) /\ Cell(Header(0, Nobody)) /\ Cell(Blank)
      BY <1>1 DEF Cell, Header, Blank, Contents
    <3> QED
      BY <1>3, <3>1
  <2> QED
    BY <1>3, <2>1 DEF Cells
<1>6. Tiled(e, H)
  <2>1. After(e, 0) = Sentinel
    <3>1. After(e, 0) = 0 + Units(all)
      BY <1>4 DEF After
    <3> QED
      BY <1>0, <1>1, <3>1
  <2>2. IsHeader(e[0])
    <3>1. all = Units(all) * UNIT
      BY <1>1 DEF all
    <3> QED
      BY <1>1, <1>4, <3>1 DEF IsHeader
  <2>3. \A g, h \in H : g < h => g = 0 /\ h = Sentinel
    BY <1>0
  <2>4. Sentinel <= Sentinel
    BY <1>0
  <2> QED
    BY <1>0, <1>4, <2>1, <2>2, <2>3, <2>4 DEF Tiled
<1>7. Marks(b, H)
  <2>1. \A h \in H : ~ (h < 0) /\ (h > 0 => h = Sentinel)
    BY <1>0
  <2> QED
    BY <1>0, <1>3, <1>4, <2>1 DEF Marks, e
<1>8. FreeBytes(e, H) = all
  <2> DEFINE f == SizeOf(e)
  <2>1. f[0] = all /\ f[Sentinel] = 0
    BY <1>0, <1>4 DEF SizeOf
  <2>2. FreeHeaders(e, H) = ({} \cup {Sentinel}) \cup {0}
    BY <1>4 DEF FreeHeaders
  <2> HIDE DEF f
  <2>3. IsFiniteSet({}) /\ IsFiniteSet({} \cup {Sentinel})
    BY FS_EmptySet, FS_AddElement
  <2>4. Sum(f, {} \cup {Sentinel}) = f[Sentinel] + Sum(f, {})
    <3>1. \A x \in {} \cup {Sentinel} : f[x] \in Nat
      BY <2>1
    <3> QED
      BY <2>3, <3>1, SumWith
  <2>5. Sum(f, ({} \cup {Sentinel}) \cup {0}) = f[0] + Sum(f, {} \cup {Sentinel})
    <3>1. \A x \in ({} \cup {Sentinel}) \cup {0} : f[x] \in Nat
      BY <1>1, <2>1
    <3>2. 0 \notin {} \cup {Sentinel}
      BY <1>0
    <3> QED
      BY <2>3, <3>1, <3>2, SumWith
  <2>6. Sum(f, {}) = 0
    BY SumEmpty
  <2>7. FreeBytes(e, H) = Sum(f, ({} \cup {Sentinel}) \cup {0})
    BY <2>2 DEF FreeBytes, f
  <2> QED
    BY <1>1, <2>1, <2>4, <2>5, <2>6, <2>7
<1>9. Counted(b, H, {}, ur)
  <2>1. Sum(Needs(ur), {}) = 0
    BY SumEmpty
  <2> QED
    BY <1>1, <1>3, <1>8, <2>1 DEF Counted, e, all
<1>10. Owned(e, H, [i \in Entries |-> 0], {}, ur) /\ Known([i \in Entries |-> 0], {}, ur)
  BY <1>4 DEF Owned, Known
<1>11. BufType(b)
  BY <1>1, <1>3, <1>5 DEF BufType, e
<1> HIDE DEF H
<1>12. Laid(b, [i \in Entries |-> 0], {}, ur, H)
  BY <1>6, <1>7, <1>9, <1>10, <1>11 DEF Laid, e
<1> QED
  BY <1>12 DEF BufOK, b

-----------------------------------------------------------------------------
(* The blocks of a store: those of the entries in use. *)

Taken(s) == {i \in Entries : s.ress[i].rid # 0}

BlocksOK(s) == \E ur : BufOK(s.b, s.where, Taken(s), ur)

\* t differs from s in what is said of the resources in use
SameUse(s, t) ==
    /\ t.b = s.b /\ t.where = s.where
    /\ \A i \in Entries : t.ress[i].rid = s.ress[i].rid

LEMMA SameBlocks ==
  ASSUME NEW s, NEW t, SameUse(s, t)
  PROVE  BlocksOK(s) => BlocksOK(t)
<1>1. Taken(t) = Taken(s)
  BY DEF Taken, SameUse
<1> QED
  BY <1>1 DEF BlocksOK, SameUse

\* An entry in use has the URI that its block holds.
LEMMA UriIs ==
  ASSUME NEW s, NEW U, NEW ur, NEW H, Laid(s.b, s.where, U, ur, H), NEW i \in U
  PROVE  UriOf(s, i) = ur[i] /\ ur[i] \in Uris
<1>1. ur[i] \in Uris /\ Holds(s.b.e, s.where[i], i, ur[i])
  BY DEF Laid, Owned
<1>2. UriLen[ur[i]] \in Nat /\ UriLen[ur[i]] >= 1
  BY <1>1, BufferConsts
<1>3. Units(UriLen[ur[i]]) \in Nat /\ Units(UriLen[ur[i]]) > 0
  BY <1>2, UnitsIs
<1>4. 1 \in 1 .. Units(UriLen[ur[i]])
  BY <1>3
<1>5. s.b.e[s.where[i] + 1].text = <<ur[i], 1>>
  BY <1>1, <1>4 DEF Holds
<1> QED
  BY <1>1, <1>5 DEF UriOf

LEMMA BlockFreed ==
  ASSUME NEW s, BlocksOK(s), NEW i \in Entries, s.ress[i].rid # 0,
         NEW t, t.b = FreeBlock(s, i), t.where = [s.where EXCEPT ![i] = 0],
         t.ress[i].rid = 0, \A j \in Entries : j # i => t.ress[j] = s.ress[j]
  PROVE  BlocksOK(t)
<1>1. PICK ur, H : Laid(s.b, s.where, Taken(s), ur, H)
  BY DEF BlocksOK, BufOK
<1>2. i \in Taken(s)
  BY DEF Taken
<1>3. Laid(zhe_icgcb_free(s.b, s.where[i]), [s.where EXCEPT ![i] = 0], Taken(s) \ {i}, ur, H)
  BY <1>1, <1>2, FreeLaid
<1>4. Taken(t) = Taken(s) \ {i}
  BY DEF Taken
<1> QED
  BY <1>3, <1>4 DEF BlocksOK, BufOK, FreeBlock

\* t is s with the free entry i taken for a resource with this URI
NewUse(s, t, i, uri) ==
    /\ s.ress[i].rid = 0 /\ t.ress[i].rid # 0
    /\ \A j \in Entries : j # i => t.ress[j] = s.ress[j]
    /\ AllocResult(s.b, UriLen[uri]) = "IAR_OK"
    /\ t.b = zhe_icgcb_alloc(s.b, UriLen[uri], i, uri)
    /\ t.where = [s.where EXCEPT ![i] = s.b.openspace]

LEMMA BlockTaken ==
  ASSUME NEW s, BlocksOK(s), NEW i \in Entries, NEW uri \in Uris, NEW t, NewUse(s, t, i, uri)
  PROVE  /\ BlocksOK(t)
         /\ UriOf(t, i) = uri /\ \A j \in Taken(s) : UriOf(t, j) = UriOf(s, j)
<1>0. /\ s.ress[i].rid = 0 /\ t.ress[i].rid # 0
      /\ \A j \in Entries : j # i => t.ress[j] = s.ress[j]
      /\ AllocResult(s.b, UriLen[uri]) = "IAR_OK"
      /\ t.b = zhe_icgcb_alloc(s.b, UriLen[uri], i, uri)
      /\ t.where = [s.where EXCEPT ![i] = s.b.openspace]
  BY DEF NewUse
<1>1. PICK ur, H : Laid(s.b, s.where, Taken(s), ur, H)
  BY DEF BlocksOK, BufOK
<1>2. i \notin Taken(s)
  BY <1>0 DEF Taken
<1>3. PICK H2 : Laid(zhe_icgcb_alloc(s.b, UriLen[uri], i, uri),
                          [s.where EXCEPT ![i] = s.b.openspace], Taken(s) \cup {i},
                     [ur EXCEPT ![i] = uri], H2)
  BY <1>0, <1>1, <1>2, AllocLaid
<1>4. Taken(t) = Taken(s) \cup {i}
  BY <1>0 DEF Taken
<1>a. PICK ur2 : ur2 = [ur EXCEPT ![i] = uri]
  OBVIOUS
<1>5. Laid(t.b, t.where, Taken(t), ur2, H2)
  BY <1>0, <1>3, <1>4, <1>a
<1>6. ASSUME NEW j \in Taken(s) PROVE UriOf(s, j) = ur[j]
  <2>1. Laid(s.b, s.where, Taken(s), ur, H)
    BY <1>1
  <2>2. UriOf(s, j) = ur[j] /\ ur[j] \in Uris
    BY <2>1, UriIs
  <2> QED
    BY <2>2
<1>7. ASSUME NEW j \in Taken(t) PROVE UriOf(t, j) = ur2[j]
  <2>1. Laid(t.b, t.where, Taken(t), ur2, H2)
    BY <1>5
  <2>2. UriOf(t, j) = ur2[j] /\ ur2[j] \in Uris
    BY <2>1, UriIs
  <2> QED
    BY <2>2
<1>8. ur2[i] = uri /\ \A j \in Taken(s) : j # i /\ ur2[j] = ur[j]
  BY <1>1, <1>2, <1>a DEF Laid, Known
<1> QED
  BY <1>4, <1>5, <1>6, <1>7, <1>8 DEF BlocksOK, BufOK

-----------------------------------------------------------------------------
(* Sequences, and rows of the table. *)

LEMMA RemoveAtIs ==
  ASSUME NEW S, NEW s \in Seq(S), NEW k \in 1 .. Len(s)
  PROVE  LET r == RemoveAt(s, k)
         IN  /\ r \in Seq(S) /\ Len(r) = Len(s) - 1
             /\ \A j \in 1 .. Len(s) - 1 : r[j] = IF j < k THEN s[j] ELSE s[j + 1]
<1> DEFINE a == SubSeq(s, 1, k - 1)
           z == SubSeq(s, k + 1, Len(s))
<1>1. a \in Seq(S) /\ Len(a) = k - 1 /\ \A j \in 1 .. k - 1 : a[j] = s[j]
  OBVIOUS
<1>2. z \in Seq(S) /\ Len(z) = Len(s) - k /\ \A j \in 1 .. Len(s) - k : z[j] = s[k + j]
  OBVIOUS
<1>3. RemoveAt(s, k) = a \o z
  BY DEF RemoveAt
<1> HIDE DEF a, z
<1>4. Len(a \o z) = Len(s) - 1 /\ a \o z \in Seq(S)
  <2>1. Len(a \o z) = Len(a) + Len(z) /\ a \o z \in Seq(S)
    BY <1>1, <1>2, ConcatProperties
  <2> QED
    BY <1>1, <1>2, <2>1
<1>5. ASSUME NEW j \in 1 .. Len(s) - 1
      PROVE  (a \o z)[j] = IF j < k THEN s[j] ELSE s[j + 1]
  BY <1>1, <1>2
<1> QED
  BY <1>3, <1>4, <1>5

\* r is s with x inserted at k
Inserted(r, s, k, x) ==
    /\ Len(r) = Len(s) + 1
    /\ \A j \in 1 .. Len(s) + 1 :
          r[j] = IF j < k THEN s[j] ELSE IF j = k THEN x ELSE s[j - 1]

LEMMA InsertAtIs ==
  ASSUME NEW S, NEW s \in Seq(S), NEW k \in 1 .. Len(s) + 1, NEW x \in S
  PROVE  InsertAt(s, k, x) \in Seq(S) /\ Inserted(InsertAt(s, k, x), s, k, x)
<1> DEFINE a == SubSeq(s, 1, k - 1)
           z == SubSeq(s, k, Len(s))
<1>1. a \in Seq(S) /\ Len(a) = k - 1 /\ \A j \in 1 .. k - 1 : a[j] = s[j]
  OBVIOUS
<1>2. z \in Seq(S) /\ Len(z) = Len(s) - k + 1 /\ \A j \in 1 .. Len(s) - k + 1 : z[j] = s[k + j - 1]
  OBVIOUS
<1>3. InsertAt(s, k, x) = a \o <<x>> \o z
  BY DEF InsertAt
<1> HIDE DEF a, z
<1> DEFINE ax == a \o <<x>>
<1>4. ax \in Seq(S) /\ Len(ax) = k /\ ax[k] = x /\ \A j \in 1 .. k - 1 : ax[j] = s[j]
  BY <1>1
<1> HIDE DEF ax
<1>5. Len(ax \o z) = Len(s) + 1 /\ ax \o z \in Seq(S)
  <2>1. Len(ax \o z) = Len(ax) + Len(z) /\ ax \o z \in Seq(S)
    BY <1>2, <1>4, ConcatProperties
  <2> QED
    BY <1>2, <1>4, <2>1
<1>6. ASSUME NEW j \in 1 .. Len(s) + 1
      PROVE  (ax \o z)[j] = IF j < k THEN s[j] ELSE IF j = k THEN x ELSE s[j - 1]
  <2>1. (ax \o z)[j] = IF j <= k THEN ax[j] ELSE z[j - k]
    BY <1>2, <1>4, ConcatProperties
  <2>2. CASE j <= k
    BY <1>4, <2>1, <2>2
  <2>3. CASE j > k
    <3>1. j - k \in 1 .. Len(s) - k + 1 /\ k + (j - k) - 1 = j - 1
      BY <2>3, LenProperties
    <3>2. z[j - k] = s[j - 1]
      BY <1>2, <3>1
    <3> QED
      BY <2>1, <2>3, <3>2
  <2>4. j <= k \/ j > k
    BY LenProperties
  <2> QED
    BY <2>2, <2>3, <2>4
<1> QED
  BY <1>3, <1>5, <1>6 DEF ax, Inserted

\* The number of members only matters when it is one.
LEMMA OneMember ==
  ASSUME NEW P, IsFiniteSet(P), P # {}
  PROVE  /\ Cardinality(P) \in Nat
         /\ Cardinality(P) > 1 <=> Several(P)
         /\ Cardinality(P) = 1 <=> ~ Several(P)
<1>1. PICK x : x \in P
  OBVIOUS
<1>2. Cardinality(P) \in Nat /\ Cardinality(P) # 0
  BY FS_CardinalityType, FS_EmptySet
<1>3. ASSUME ~ Several(P) PROVE Cardinality(P) = 1
  <2>1. P = {x}
    BY <1>1, <1>3 DEF Several
  <2> QED
    BY <2>1, FS_Singleton
<1>4. ASSUME Cardinality(P) = 1 PROVE ~ Several(P)
  <2>1. \E y : P = {y}
    BY <1>4, FS_Singleton
  <2> QED
    BY <2>1 DEF Several
<1> QED
  BY <1>2, <1>3, <1>4

-----------------------------------------------------------------------------
(* Rows and the order of entries. *)

LEMMA SameOrder ==
  ASSUME NEW s, NEW t, OrderOK(s), t.used = s.used, t.free = s.free,
         \A i \in Entries : t.ress[i].rid = s.ress[i].rid
  PROVE  OrderOK(t)
<1>1. s.used \in Seq(Entries) /\ \A k \in 1 .. Len(s.used) : s.used[k] \in Entries
  BY DEF OrderOK
<1>2. ASSUME NEW j \in 1 .. Len(s.used), NEW k \in 1 .. Len(s.used), j < k
      PROVE  t.ress[s.used[j]].rid < t.ress[s.used[k]].rid
  <2>1. s.ress[s.used[j]].rid < s.ress[s.used[k]].rid
    BY <1>2 DEF OrderOK
  <2>2. t.ress[s.used[j]].rid = s.ress[s.used[j]].rid /\ t.ress[s.used[k]].rid = s.ress[s.used[k]].rid
    BY <1>1
  <2> QED
    BY <2>1, <2>2
<1> QED
  BY <1>2 DEF OrderOK

\* An entry is free.
LEMMA FreeRow == RowOK(FreeEntry)
BY Consts DEF RowOK, ResRecords, FreeEntry

\* What is left of a row that p has nothing to do with any more.
LEMMA LeftRow ==
  ASSUME NEW r, RowOK(r), r.rid # 0, NEW p, p # NONE,
         NEW P, P = r.peers \ {p}, P # {},
         NEW T, T = IF r.tentative = p THEN NONE ELSE r.tentative,
         NEW r2, r2 = [rid |-> r.rid, committed |-> r2.committed, tentative |-> T, peers |-> P],
         r2.committed \in BOOLEAN,
         r2.committed <=> r.committed /\ ~ (T # NONE /\ Cardinality(P) = 1)
  PROVE  /\ RowOK(r2) /\ r2.rid = r.rid /\ p \notin r2.peers
         /\ \A q : q # p /\ Commits(r, q) => Commits(r2, q)
<1>1. r \in ResRecords /\ IsFiniteSet(r.peers)
      /\ (r.committed <=> (r.tentative = NONE \/ Several(r.peers)))
      /\ (r.tentative # NONE => r.tentative \in r.peers)
  BY DEF RowOK
<1>2. r2.rid = r.rid /\ r2.tentative = T /\ r2.peers = P
  OBVIOUS
<1>3. IsFiniteSet(P)
  BY <1>1, FS_Subset
<1>4. Cardinality(P) = 1 <=> ~ Several(P)
  BY <1>3, OneMember
<1>5. T # NONE => T \in P
  BY <1>1
<1>6. r2.committed <=> (T = NONE \/ Several(P))
  <2>1. CASE r.tentative = NONE
    BY <1>1, <1>4, <2>1
  <2>2. CASE r.tentative # NONE /\ Several(r.peers)
    BY <1>1, <1>4, <2>2
  <2>3. CASE r.tentative # NONE /\ ~ Several(r.peers)
    <3>1. r.peers = {r.tentative}
      BY <1>1, <2>3 DEF Several
    <3>2. T = r.tentative /\ ~ Several(P)
      BY <3>1 DEF Several
    <3> QED
      BY <1>1, <2>3, <3>2
  <2> QED
    BY <2>1, <2>2, <2>3
<1>7. r.rid \in Rids \cup {0} /\ T \in Peers \cup {NONE} /\ P \in SUBSET (Peers \cup {SELF})
  BY <1>1 DEF ResRecords
<1>8. r2 \in ResRecords
  BY <1>7 DEF ResRecords
<1>9. RowOK(r2)
  BY <1>2, <1>3, <1>5, <1>6, <1>8 DEF RowOK
<1>10. \A q : q # p /\ Commits(r, q) => Commits(r2, q)
  <2> SUFFICES ASSUME NEW q, q # p, Commits(r, q) PROVE Commits(r2, q)
    OBVIOUS
  <2>1. q \in r.peers /\ q # r.tentative /\ r.peers \subseteq Peers \cup {SELF}
    BY <1>1 DEF Commits, ResRecords
  <2>2. q # NONE
    BY <2>1, Consts
  <2> QED
    BY <1>2, <2>1, <2>2 DEF Commits
<1> QED
  BY <1>2, <1>9, <1>10

\* the row r without p, in zhe_uristore_drop_idx
Without(r, p) == [r EXCEPT !.peers = @ \ {p}, !.tentative = IF @ = p THEN NONE ELSE @]
Left(r, p) == [Without(r, p) EXCEPT !.committed = CommittedWithout(Without(r, p))]

LEMMA TwoFields ==
  ASSUME NEW r, NEW T, NEW P,
         r = [rid |-> r.rid, committed |-> r.committed, tentative |-> r.tentative, peers |-> r.peers]
  PROVE  [r EXCEPT !.peers = P, !.tentative = T]
            = [rid |-> r.rid, committed |-> r.committed, tentative |-> T, peers |-> P]
<1>1. PICK r1 : r1 = [r EXCEPT !.peers = P, !.tentative = T]
  OBVIOUS
<1>2. r1 = [rid |-> r.rid, committed |-> r.committed, tentative |-> T, peers |-> P]
  BY <1>1
<1> QED
  BY <1>1, <1>2

LEMMA WithoutIs ==
  ASSUME NEW r \in ResRecords, NEW p
  PROVE  Without(r, p) = [rid |-> r.rid, committed |-> r.committed,
                          tentative |-> IF r.tentative = p THEN NONE ELSE r.tentative,
                          peers |-> r.peers \ {p}]
<1>1. r = [rid |-> r.rid, committed |-> r.committed, tentative |-> r.tentative, peers |-> r.peers]
  BY DEF ResRecords
<1> QED
  BY <1>1, TwoFields DEF Without

LEMMA DroppedRow ==
  ASSUME NEW r, RowOK(r), r.rid # 0, NEW p, p # NONE, r.peers \ {p} # {}
  PROVE  /\ RowOK(Left(r, p)) /\ Left(r, p).rid = r.rid /\ p \notin Left(r, p).peers
         /\ \A q : q # p /\ Commits(r, q) => Commits(Left(r, p), q)
<1>1. PICK P : P = r.peers \ {p}
  OBVIOUS
<1>2. PICK T : T = IF r.tentative = p THEN NONE ELSE r.tentative
  OBVIOUS
<1> DEFINE C == CommittedWithout(Without(r, p))
<1>4. Without(r, p) = [rid |-> r.rid, committed |-> r.committed, tentative |-> T, peers |-> P]
  BY <1>1, <1>2, WithoutIs DEF RowOK
<1>5. Without(r, p).committed = r.committed /\ Without(r, p).tentative = T /\ Without(r, p).peers = P
  BY <1>4
<1>6. C <=> r.committed /\ ~ (T # NONE /\ Cardinality(P) = 1)
  BY <1>5 DEF CommittedWithout
<1>7. C \in BOOLEAN
  BY DEF CommittedWithout
<1>8. Left(r, p) = [rid |-> r.rid, committed |-> C, tentative |-> T, peers |-> P]
  BY <1>4 DEF Left
<1> HIDE DEF C
<1>9. Left(r, p).committed = C
  BY <1>7, <1>8
<1>10. P # {}
  BY <1>1
<1>11. Left(r, p).committed <=> r.committed /\ ~ (T # NONE /\ Cardinality(P) = 1)
  BY <1>6, <1>9
<1> QED
  BY <1>1, <1>2, <1>7, <1>8, <1>9, <1>10, <1>11, LeftRow

\* Entry i becomes free.
LEMMA EntryFreed ==
  ASSUME NEW s, StoreOK(s), NEW i \in Entries, s.ress[i].rid # 0,
         NEW t, t.ress = [s.ress EXCEPT ![i] = FreeEntry],
         t.used = RemoveAt(s.used, IndexOf(s, i)), t.free = <<i>> \o s.free
  PROVE  OrderOK(t)
<1> DEFINE n == Len(s.used)
           m == Len(s.free)
           k == IndexOf(s, i)
<1>0. n \in Nat /\ m \in Nat /\ s.used \in Seq(Entries) /\ s.free \in Seq(Entries)
  BY DEF StoreOK, OrderOK
<1>1. k \in 1 .. n /\ s.used[k] = i
  BY <1>0 DEF IndexOf, StoreOK, OrderOK
<1>2. t.used \in Seq(Entries) /\ Len(t.used) = n - 1
      /\ \A j \in 1 .. n - 1 : t.used[j] = IF j < k THEN s.used[j] ELSE s.used[j + 1]
  BY <1>0, <1>1, RemoveAtIs
<1>3. t.free \in Seq(Entries) /\ Len(t.free) = m + 1 /\ t.free[1] = i
      /\ \A j \in 2 .. m + 1 : t.free[j] = s.free[j - 1]
  BY <1>0
<1>4. \A j \in Entries : t.ress[j].rid = IF j = i THEN 0 ELSE s.ress[j].rid
  <2>1. FreeEntry.rid = 0
    BY DEF FreeEntry
  <2> QED
    BY <2>1 DEF StoreOK
<1>5. \A j, l \in 1 .. n : j < l => s.ress[s.used[j]].rid < s.ress[s.used[l]].rid
  BY DEF StoreOK, OrderOK
<1>6. \A j \in 1 .. n : s.used[j] \in Entries /\ s.ress[s.used[j]].rid \in Nat
  <2>1. \A j \in Entries : s.ress[j].rid \in Nat
    BY Consts DEF StoreOK, ResRecords
  <2> QED
    BY <1>0, <2>1
<1> HIDE DEF n, m, k
<1>7. \A j \in 1 .. n : j # k => s.used[j] # i
  BY <1>1, <1>5, <1>6
<1>8. ASSUME NEW j \in 1 .. n - 1, NEW l \in 1 .. n - 1, j < l
      PROVE  t.ress[t.used[j]].rid < t.ress[t.used[l]].rid
  <2> DEFINE a == IF j < k THEN j ELSE j + 1
             c == IF l < k THEN l ELSE l + 1
  <2>1. a \in 1 .. n /\ c \in 1 .. n /\ a < c /\ a # k /\ c # k
    BY <1>0, <1>1, <1>8
  <2>2. t.used[j] = s.used[a] /\ t.used[l] = s.used[c]
    BY <1>2
  <2> HIDE DEF a, c
  <2> QED
    BY <1>4, <1>5, <1>6, <1>7, <2>1, <2>2
<1>9. ASSUME NEW j \in 1 .. m + 1, NEW l \in 1 .. m + 1, t.free[j] = t.free[l]
      PROVE  j = l
  <2>1. \A h \in 1 .. m : s.free[h] # i
    BY <1>0 DEF StoreOK, OrderOK, m
  <2>2. \A g, h \in 1 .. m : s.free[g] = s.free[h] => g = h
    BY DEF StoreOK, OrderOK, m
  <2>3. CASE j = 1 \/ l = 1
    BY <1>0, <1>3, <1>9, <2>1, <2>3
  <2>4. CASE j # 1 /\ l # 1
    <3>1. j - 1 \in 1 .. m /\ l - 1 \in 1 .. m /\ j \in 2 .. m + 1 /\ l \in 2 .. m + 1
      BY <1>0, <2>4
    <3>2. s.free[j - 1] = s.free[l - 1]
      BY <1>3, <1>9, <3>1
    <3>3. j - 1 = l - 1
      BY <2>2, <3>1, <3>2
    <3> QED
      BY <1>0, <3>3
  <2> QED
    BY <2>3, <2>4
<1>10. ASSUME NEW j \in Entries
       PROVE  (\E h \in 1 .. n - 1 : t.used[h] = j) <=> t.ress[j].rid # 0
  <2>0. (\E h \in 1 .. n : s.used[h] = j) <=> s.ress[j].rid # 0
    BY DEF StoreOK, OrderOK, n
  <2>1. ASSUME NEW h \in 1 .. n - 1, t.used[h] = j PROVE t.ress[j].rid # 0
    <3> DEFINE a == IF h < k THEN h ELSE h + 1
    <3>1. a \in 1 .. n /\ a # k
      BY <1>0, <1>1
    <3>2. s.used[a] = j
      BY <1>2, <2>1
    <3> HIDE DEF a
    <3> QED
      BY <1>4, <1>7, <2>0, <3>1, <3>2
  <2>2. ASSUME t.ress[j].rid # 0 PROVE \E h \in 1 .. n - 1 : t.used[h] = j
    <3>1. j # i /\ s.ress[j].rid # 0
      BY <1>4, <2>2
    <3>2. PICK h \in 1 .. n : s.used[h] = j
      BY <2>0, <3>1
    <3>3. h # k
      BY <1>1, <3>1, <3>2
    <3>4. CASE h < k
      <4>1. h \in 1 .. n - 1
        BY <1>0, <1>1, <3>4
      <4> QED
        BY <1>2, <3>2, <3>4, <4>1
    <3>5. CASE h > k
      <4>1. h - 1 \in 1 .. n - 1 /\ ~ (h - 1 < k) /\ h - 1 + 1 = h
        BY <1>0, <1>1, <3>5
      <4> QED
        BY <1>2, <3>2, <4>1
    <3> QED
      BY <1>0, <1>1, <3>3, <3>4, <3>5
  <2> QED
    BY <2>1, <2>2
<1>11. ASSUME NEW j \in Entries
       PROVE  (\E h \in 1 .. m + 1 : t.free[h] = j) <=> t.ress[j].rid = 0
  <2>0. (\E h \in 1 .. m : s.free[h] = j) <=> s.ress[j].rid = 0
    BY DEF StoreOK, OrderOK, m
  <2>1. ASSUME NEW h \in 1 .. m + 1, t.free[h] = j PROVE t.ress[j].rid = 0
    <3>1. CASE h = 1
      BY <1>3, <1>4, <2>1, <3>1
    <3>2. CASE h # 1
      <4>1. h \in 2 .. m + 1 /\ h - 1 \in 1 .. m
        BY <1>0, <3>2
      <4> QED
        BY <1>3, <1>4, <2>0, <2>1, <4>1
    <3> QED
      BY <3>1, <3>2
  <2>2. ASSUME t.ress[j].rid = 0 PROVE \E h \in 1 .. m + 1 : t.free[h] = j
    <3>1. CASE j = i
      <4>1. 1 \in 1 .. m + 1
        BY <1>0
      <4> QED
        BY <1>3, <3>1, <4>1
    <3>2. CASE j # i
      <4>1. PICK h \in 1 .. m : s.free[h] = j
        BY <1>4, <2>0, <2>2, <3>2
      <4>2. h + 1 \in 2 .. m + 1 /\ h + 1 - 1 = h /\ h + 1 \in 1 .. m + 1
        BY <1>0
      <4> QED
        BY <1>3, <4>1, <4>2
    <3> QED
      BY <3>1, <3>2
  <2> QED
    BY <2>1, <2>2
<1> QED
  BY <1>2, <1>3, <1>8, <1>9, <1>10, <1>11 DEF OrderOK

-----------------------------------------------------------------------------
(* Dropping. *)

Others(s, t, i) == \A j \in Entries : j # i => t.ress[j] = s.ress[j]

\* One entry that p has nothing to do with any more.
Dropped1(s, t, p, i) ==
    /\ StoreOK(t) /\ Others(s, t, i)
    /\ p \notin t.ress[i].peers
    /\ \A q : q # p /\ Commits(s.ress[i], q)
          => Commits(t.ress[i], q) /\ t.ress[i].rid = s.ress[i].rid
    /\ BlocksOK(s) => BlocksOK(t)

LEMMA DropOne ==
  ASSUME NEW s, StoreOK(s), NEW i \in Entries, s.ress[i].rid # 0, NEW p, p # NONE
  PROVE  Dropped1(s, zhe_uristore_drop_idx(s, p, i), p, i)
<1> PICK t : t = zhe_uristore_drop_idx(s, p, i)
  OBVIOUS
<1> DEFINE r1 == Without(s.ress[i], p)
           r2 == Left(s.ress[i], p)
<1>1. s = [b |-> s.b, ress |-> s.ress, where |-> s.where, used |-> s.used, free |-> s.free]
      /\ s.ress \in [Entries -> ResRecords] /\ RowOK(s.ress[i]) /\ OrderOK(s)
  BY DEF StoreOK
<1>2. r1.peers = s.ress[i].peers \ {p}
  BY <1>1, WithoutIs
<1>3. CASE r1.peers # {}
  <2>1. t = [s EXCEPT !.ress[i] = r2]
    BY <1>3 DEF zhe_uristore_drop_idx, Left, Without
  <2>2. RowOK(r2) /\ r2.rid = s.ress[i].rid /\ p \notin r2.peers
        /\ \A q : q # p /\ Commits(s.ress[i], q) => Commits(r2, q)
    <3>1. s.ress[i].peers \ {p} # {}
      BY <1>2, <1>3
    <3> QED
      BY <1>1, <3>1, DroppedRow
  <2>3. t = [b |-> s.b, ress |-> [s.ress EXCEPT ![i] = r2], where |-> s.where,
             used |-> s.used, free |-> s.free]
    BY <1>1, <2>1
  <2>4. t.ress = [s.ress EXCEPT ![i] = r2] /\ t.used = s.used /\ t.free = s.free
        /\ t = [b |-> t.b, ress |-> t.ress, where |-> t.where, used |-> t.used, free |-> t.free]
    BY <2>3
  <2>5. t.ress[i] = r2 /\ Others(s, t, i)
    BY <1>1, <2>4 DEF Others
  <2>6. t.ress \in [Entries -> ResRecords]
    BY <1>1, <2>2, <2>4 DEF RowOK
  <2>7. \A j \in Entries : RowOK(t.ress[j])
    BY <2>2, <2>5 DEF StoreOK, Others
  <2>8. \A j \in Entries : t.ress[j].rid = s.ress[j].rid
    BY <2>2, <2>5 DEF Others
  <2>9. OrderOK(t)
    BY <1>1, <2>4, <2>8, SameOrder
  <2>10. BlocksOK(s) => BlocksOK(t)
    <3>1. SameUse(s, t)
      BY <2>3, <2>8 DEF SameUse
    <3> QED
      BY <3>1, SameBlocks
  <2> QED
    BY <2>2, <2>4, <2>5, <2>6, <2>7, <2>9, <2>10 DEF StoreOK, Dropped1
<1>4. CASE r1.peers = {}
  <2>1. t = [s EXCEPT !.ress[i] = FreeEntry, !.b = FreeBlock(s, i), !.where[i] = 0,
                      !.used = RemoveAt(@, IndexOf(s, i)), !.free = <<i>> \o @]
    BY <1>4 DEF zhe_uristore_drop_idx, Left, Without
  <2>2. t = [b |-> FreeBlock(s, i), ress |-> [s.ress EXCEPT ![i] = FreeEntry],
             where |-> [s.where EXCEPT ![i] = 0],
             used |-> RemoveAt(s.used, IndexOf(s, i)), free |-> <<i>> \o s.free]
    BY <1>1, <2>1
  <2>3. /\ t.ress = [s.ress EXCEPT ![i] = FreeEntry]
        /\ t.used = RemoveAt(s.used, IndexOf(s, i)) /\ t.free = <<i>> \o s.free
        /\ t = [b |-> t.b, ress |-> t.ress, where |-> t.where, used |-> t.used, free |-> t.free]
    BY <2>2
  <2>4. t.ress[i] = FreeEntry /\ Others(s, t, i)
    BY <1>1, <2>3 DEF Others
  <2>5. FreeEntry \in ResRecords
    BY FreeRow DEF RowOK
  <2>6. t.ress \in [Entries -> ResRecords]
    BY <1>1, <2>3, <2>5
  <2>7. \A j \in Entries : RowOK(t.ress[j])
    BY <2>4, FreeRow DEF StoreOK, Others
  <2>8. OrderOK(t)
    BY <2>3, EntryFreed
  <2>9. p \notin t.ress[i].peers
    BY <2>4 DEF FreeEntry
  <2>10. \A q : q # p => ~ Commits(s.ress[i], q)
    BY <1>2, <1>4 DEF Commits
  <2>11. BlocksOK(s) => BlocksOK(t)
    <3>1. t.b = FreeBlock(s, i) /\ t.where = [s.where EXCEPT ![i] = 0]
      BY <2>2
    <3>2. t.ress[i].rid = 0 /\ \A j \in Entries : j # i => t.ress[j] = s.ress[j]
      BY <2>4 DEF FreeEntry, Others
    <3> QED
      BY <3>1, <3>2, BlockFreed
  <2> QED
    BY <2>3, <2>4, <2>6, <2>7, <2>8, <2>9, <2>10, <2>11 DEF StoreOK, Dropped1
<1> QED
  BY <1>3, <1>4

\* One round of the loop over ress_idx, which comes to entry k.
Dropped(s, p, X, t, k) == IF s.used[k] \in X THEN zhe_uristore_drop_idx(t, p, s.used[k]) ELSE t

\* g gives the stores up to the n-th round.
Rounds(s, p, X, g, n) ==
    /\ g = [k \in 0 .. n |-> g[k]]
    /\ g[0] = s
    /\ \A k \in 1 .. n : g[k] = Dropped(s, p, X, g[k - 1], k)

LEMMA RoundsExist ==
  ASSUME NEW s, NEW p, NEW X, NEW N \in Nat
  PROVE  \E g : Rounds(s, p, X, g, N)
<1> DEFINE S == {n \in 0 .. N : \E g : Rounds(s, p, X, g, n)}
<1>1. 0 \in S
  <2>1. Rounds(s, p, X, [k \in 0 .. 0 |-> s], 0)
    BY DEF Rounds
  <2> QED
    BY <2>1
<1>2. ASSUME NEW n \in 1 .. N, n - 1 \in S PROVE n \in S
  <2>1. PICK g : Rounds(s, p, X, g, n - 1)
    BY <1>2
  <2> DEFINE h == [k \in 0 .. n |-> IF k = n THEN Dropped(s, p, X, g[n - 1], n) ELSE g[k]]
  <2>2. h = [k \in 0 .. n |-> h[k]] /\ h[0] = s
    BY <2>1 DEF Rounds
  <2>3. ASSUME NEW k \in 1 .. n PROVE h[k] = Dropped(s, p, X, h[k - 1], k)
    <3>1. k - 1 \in 0 .. n /\ k - 1 # n
      OBVIOUS
    <3>2. h[k - 1] = g[k - 1]
      BY <3>1
    <3>3. CASE k = n
      BY <3>2, <3>3
    <3>4. CASE k # n
      <4>1. k \in 1 .. n - 1
        BY <3>4
      <4>2. h[k] = g[k]
        BY <3>4
      <4>3. g[k] = Dropped(s, p, X, g[k - 1], k)
        BY <2>1, <4>1 DEF Rounds
      <4> QED
        BY <3>2, <4>2, <4>3
    <3> QED
      BY <3>3, <3>4
  <2> HIDE DEF h
  <2>4. Rounds(s, p, X, h, n)
    BY <2>2, <2>3 DEF Rounds
  <2> QED
    BY <2>4
<1>3. \A n \in 0 .. N : n \in S
  <2> HIDE DEF S
  <2>1. S \subseteq 0 .. N
    BY DEF S
  <2> QED
    BY <1>1, <1>2, <2>1, NatInSet
<1> QED
  BY <1>3

LEMMA DropAllRounds ==
  ASSUME NEW s, NEW p, NEW X, Len(s.used) \in Nat
  PROVE  \E g : Rounds(s, p, X, g, Len(s.used)) /\ DropAll(s, p, X) = g[Len(s.used)]
<1> DEFINE n == Len(s.used)
           Step(f) == [k \in 0 .. n |->
                         IF k = 0 THEN s
                         ELSE IF s.used[k] \in X THEN zhe_uristore_drop_idx(f[k - 1], p, s.used[k])
                         ELSE f[k - 1]]
           drop == CHOOSE f : f = Step(f)
<1>1. DropAll(s, p, X) = drop[n]
  BY DEF DropAll
<1>2. PICK g : Rounds(s, p, X, g, n)
  BY RoundsExist
<1>3. g = Step(g)
  <2>1. \A k \in 0 .. n : k = 0 \/ k \in 1 .. n
    <3> HIDE DEF n
    <3>1. n \in Nat
      BY DEF n
    <3> QED
      BY <3>1
  <2>2. g = [k \in 0 .. n |-> g[k]] /\ g[0] = s /\ \A k \in 1 .. n : g[k] = Dropped(s, p, X, g[k - 1], k)
    BY <1>2 DEF Rounds
  <2>3. \A k \in 0 .. n : g[k] = Step(g)[k]
    BY <2>1, <2>2 DEF Dropped
  <2> QED
    BY <2>2, <2>3
<1>4. drop = Step(drop)
  BY <1>3
<1> HIDE DEF drop
<1>5. Rounds(s, p, X, drop, n)
  <2>1. 0 \in 0 .. n /\ \A k \in 1 .. n : k \in 0 .. n /\ k # 0
    <3> HIDE DEF n
    <3>1. n \in Nat
      BY DEF n
    <3> QED
      BY <3>1
  <2>2. drop = [k \in 0 .. n |-> drop[k]] /\ drop[0] = s
    BY <1>4, <2>1
  <2>3. \A k \in 1 .. n : drop[k] = Dropped(s, p, X, drop[k - 1], k)
    BY <1>4, <2>1 DEF Dropped
  <2> QED
    BY <2>2, <2>3 DEF Rounds
<1> QED
  BY <1>1, <1>5

\* What holds of the store t after n rounds.
SoFar(s, p, X, t, n) ==
    /\ StoreOK(t) /\ (BlocksOK(s) => BlocksOK(t))
    /\ \A i \in Entries :
          \/ /\ i \notin X \/ \A k \in 1 .. n : s.used[k] # i
             /\ t.ress[i] = s.ress[i]
          \/ /\ i \in X /\ \E k \in 1 .. n : s.used[k] = i
             /\ p \notin t.ress[i].peers
             /\ \A q : q # p /\ Commits(s.ress[i], q)
                  => Commits(t.ress[i], q) /\ t.ress[i].rid = s.ress[i].rid

LEMMA OneRound ==
  ASSUME NEW s, StoreOK(s), NEW p, p # NONE, NEW X, X \subseteq Entries,
         NEW n \in 1 .. Len(s.used), NEW t, SoFar(s, p, X, t, n - 1),
         NEW u, u = Dropped(s, p, X, t, n)
  PROVE  SoFar(s, p, X, u, n)
<1> DEFINE i == s.used[n]
<1>0. Len(s.used) \in Nat /\ s.used \in Seq(Entries) /\ i \in Entries /\ n \in Nat
  BY DEF StoreOK, OrderOK
<1>1. \A k \in 1 .. n : k \in 1 .. n - 1 \/ k = n
  BY <1>0
<1>2. \A k \in 1 .. n - 1 : k \in 1 .. n /\ s.used[k] # i
  <2> SUFFICES ASSUME NEW k \in 1 .. n - 1 PROVE k \in 1 .. n /\ s.used[k] # i
    OBVIOUS
  <2>1. k \in 1 .. Len(s.used) /\ k < n /\ k \in 1 .. n
    BY <1>0
  <2>2. s.ress[s.used[k]].rid < s.ress[s.used[n]].rid
    BY <2>1 DEF StoreOK, OrderOK
  <2>3. s.ress[i].rid \in Nat
    BY <1>0, Consts DEF StoreOK, ResRecords
  <2> QED
    BY <2>1, <2>2, <2>3
<1>3. t.ress[i] = s.ress[i] /\ StoreOK(t) /\ (BlocksOK(s) => BlocksOK(t))
  BY <1>0, <1>2 DEF SoFar
<1>4. s.ress[i].rid # 0
  BY <1>0 DEF StoreOK, OrderOK
<1>5. n \in 1 .. n
  BY <1>0
<1> HIDE DEF i
<1>6. CASE i \in X
  <2>1. u = zhe_uristore_drop_idx(t, p, i)
    BY <1>6 DEF Dropped, i
  <2>2. /\ StoreOK(u) /\ Others(t, u, i) /\ (BlocksOK(t) => BlocksOK(u))
        /\ p \notin u.ress[i].peers
        /\ \A q : q # p /\ Commits(t.ress[i], q)
              => Commits(u.ress[i], q) /\ u.ress[i].rid = t.ress[i].rid
    <3>1. t.ress[i].rid # 0
      BY <1>3, <1>4
    <3>2. Dropped1(t, zhe_uristore_drop_idx(t, p, i), p, i)
      BY <1>0, <1>3, <3>1, DropOne
    <3>3. Dropped1(t, u, p, i)
      BY <2>1, <3>2
    <3> QED
      BY <3>3 DEF Dropped1
  <2>3. ASSUME NEW j \in Entries, j # i
        PROVE  \/ /\ j \notin X \/ \A k \in 1 .. n : s.used[k] # j
                  /\ u.ress[j] = s.ress[j]
               \/ /\ j \in X /\ \E k \in 1 .. n : s.used[k] = j
                  /\ p \notin u.ress[j].peers
                  /\ \A q : q # p /\ Commits(s.ress[j], q)
                       => Commits(u.ress[j], q) /\ u.ress[j].rid = s.ress[j].rid
    <3>1. u.ress[j] = t.ress[j]
      BY <2>2, <2>3 DEF Others
    <3>2. (\E k \in 1 .. n : s.used[k] = j) <=> (\E k \in 1 .. n - 1 : s.used[k] = j)
      BY <1>1, <1>2, <2>3 DEF i
    <3> QED
      BY <3>1, <3>2 DEF SoFar
  <2>4. i \in X /\ \E k \in 1 .. n : s.used[k] = i
    BY <1>5, <1>6 DEF i
  <2> QED
    BY <1>3, <2>2, <2>3, <2>4 DEF SoFar
<1>7. CASE i \notin X
  <2>1. u = t
    BY <1>7 DEF Dropped, i
  <2>2. ASSUME NEW j \in Entries, j \in X
        PROVE  (\E k \in 1 .. n : s.used[k] = j) <=> (\E k \in 1 .. n - 1 : s.used[k] = j)
    BY <1>1, <1>2, <1>7, <2>2 DEF i
  <2> QED
    BY <2>1, <2>2 DEF SoFar
<1> QED
  BY <1>6, <1>7

\* p has nothing to do any more with the entries in X; all others are as they were.
AllDropped(s, t, p, X) ==
    /\ StoreOK(t) /\ (BlocksOK(s) => BlocksOK(t))
    /\ \A i \in Entries \ X : t.ress[i] = s.ress[i]
    /\ \A i \in X : /\ p \notin t.ress[i].peers
                    /\ \A q : q # p /\ Commits(s.ress[i], q)
                         => Commits(t.ress[i], q) /\ t.ress[i].rid = s.ress[i].rid

LEMMA DropAllIs ==
  ASSUME NEW s, StoreOK(s), NEW p, p # NONE, NEW X, X \subseteq Entries,
         \A i \in X : s.ress[i].rid # 0
  PROVE  AllDropped(s, DropAll(s, p, X), p, X)
<1> PICK t : t = DropAll(s, p, X)
  OBVIOUS
<1> DEFINE N == Len(s.used)
<1>1. N \in Nat /\ s.used \in Seq(Entries)
  BY DEF StoreOK, OrderOK
<1>2. PICK g : Rounds(s, p, X, g, N) /\ t = g[N]
  BY <1>1, DropAllRounds
<1> DEFINE S == {n \in 0 .. N : SoFar(s, p, X, g[n], n)}
<1>3. 0 \in S
  <2>1. g[0] = s
    BY <1>2 DEF Rounds
  <2>2. SoFar(s, p, X, s, 0)
    <3>1. \A k \in 1 .. 0 : FALSE
      OBVIOUS
    <3> QED
      BY <3>1 DEF SoFar
  <2> HIDE DEF N
  <2> QED
    BY <1>1, <2>1, <2>2
<1>4. ASSUME NEW n \in 1 .. N, n - 1 \in S PROVE n \in S
  <2>1. g[n] = Dropped(s, p, X, g[n - 1], n)
    BY <1>2 DEF Rounds
  <2>2. SoFar(s, p, X, g[n - 1], n - 1)
    BY <1>4
  <2>3. SoFar(s, p, X, g[n], n)
    BY <2>1, <2>2, OneRound
  <2>4. n \in 0 .. N
    <3> HIDE DEF N
    <3> QED
      BY <1>1
  <2> QED
    BY <2>3, <2>4
<1>5. N \in S
  <2> HIDE DEF S, N
  <2>1. S \subseteq 0 .. N
    BY DEF S
  <2>2. \A n \in 0 .. N : n \in S
    BY <1>1, <1>3, <1>4, <2>1, NatInSet
  <2> QED
    BY <1>1, <2>2
<1>6. SoFar(s, p, X, t, N)
  BY <1>2, <1>5
<1>7. \A i \in X : \E k \in 1 .. N : s.used[k] = i
  BY DEF StoreOK, OrderOK
<1>8. AllDropped(s, t, p, X)
  BY <1>6, <1>7 DEF SoFar, AllDropped
<1> QED
  BY <1>8

\* zhe_uristore_reset_peer
ResetDone(s, t, p) ==
    /\ StoreOK(t) /\ KeepsBut({p}, s, t) /\ (BlocksOK(s) => BlocksOK(t))
    /\ \A i \in Entries : p \notin t.ress[i].peers

LEMMA ResetIs ==
  ASSUME NEW s, StoreOK(s), NEW p, p # NONE
  PROVE  ResetDone(s, zhe_uristore_reset_peer(s, p), p)
<1> PICK t : t = zhe_uristore_reset_peer(s, p)
  OBVIOUS
<1> DEFINE X == {i \in ToSet(s.used) : p \in s.ress[i].peers}
<1>1. t = DropAll(s, p, X)
  BY DEF zhe_uristore_reset_peer
<1>2. s.used \in Seq(Entries) /\ X \subseteq Entries /\ \A i \in X : s.ress[i].rid # 0
  BY DEF StoreOK, OrderOK, ToSet
<1>3. \A i \in Entries : i \notin X => p \notin s.ress[i].peers
  <2> SUFFICES ASSUME NEW i \in Entries, i \notin X PROVE p \notin s.ress[i].peers
    OBVIOUS
  <2>1. CASE s.ress[i].rid = 0
    BY <2>1 DEF StoreOK, RowOK, FreeEntry
  <2>2. CASE s.ress[i].rid # 0
    <3>1. \E k \in 1 .. Len(s.used) : s.used[k] = i
      BY <2>2 DEF StoreOK, OrderOK
    <3>2. i \in ToSet(s.used)
      BY <1>2, <3>1 DEF ToSet
    <3> QED
      BY <3>2
  <2> QED
    BY <2>1, <2>2
<1> HIDE DEF X
<1>4. AllDropped(s, t, p, X)
  BY <1>1, <1>2, DropAllIs
<1>5. \A i \in Entries : p \notin t.ress[i].peers
  BY <1>3, <1>4 DEF AllDropped
<1>6. KeepsBut({p}, s, t)
  BY <1>4 DEF KeepsBut, AllDropped
<1> QED
  BY <1>4, <1>5, <1>6 DEF ResetDone, AllDropped

\* zhe_uristore_abort_tentative
Kept(s, t) == StoreOK(t) /\ KeepsBut({}, s, t) /\ (BlocksOK(s) => BlocksOK(t))

LEMMA AbortIs ==
  ASSUME NEW s, StoreOK(s), NEW p, p # NONE
  PROVE  Kept(s, zhe_uristore_abort_tentative(s, p))
<1> PICK t : t = zhe_uristore_abort_tentative(s, p)
  OBVIOUS
<1> DEFINE X == {i \in ToSet(s.used) : s.ress[i].tentative = p}
<1>1. t = DropAll(s, p, X)
  BY DEF zhe_uristore_abort_tentative
<1>2. s.used \in Seq(Entries) /\ X \subseteq Entries /\ \A i \in X : s.ress[i].rid # 0
  BY DEF StoreOK, OrderOK, ToSet
<1>3. \A i \in X : s.ress[i].tentative = p
  OBVIOUS
<1> HIDE DEF X
<1>4. AllDropped(s, t, p, X)
  BY <1>1, <1>2, DropAllIs
<1>5. KeepsBut({}, s, t)
  <2> SUFFICES ASSUME NEW i \in Entries, NEW q, Commits(s.ress[i], q)
               PROVE  Commits(t.ress[i], q) /\ t.ress[i].rid = s.ress[i].rid
    BY DEF KeepsBut
  <2>1. i \in X => q # p
    BY <1>3 DEF Commits
  <2> QED
    BY <1>4, <2>1 DEF AllDropped
<1> QED
  BY <1>4, <1>5 DEF Kept, AllDropped

\* A row of which p commits its tentative declaration.
MoreCommitted(r, r2) ==
    RowOK(r2) /\ r2.rid = r.rid /\ \A q : Commits(r, q) => Commits(r2, q)

LEMMA CommittedRow ==
  ASSUME NEW r, RowOK(r), NEW p, p # NONE, r.tentative = p
  PROVE  MoreCommitted(r, [r EXCEPT !.tentative = NONE, !.committed = TRUE])
<1> PICK r2 : r2 = [r EXCEPT !.tentative = NONE, !.committed = TRUE]
  OBVIOUS
<1>1. r = [rid |-> r.rid, committed |-> r.committed, tentative |-> r.tentative, peers |-> r.peers]
      /\ r.rid \in Rids \cup {0} /\ r.peers \subseteq Peers \cup {SELF}
  BY DEF RowOK, ResRecords
<1>2. r2 = [rid |-> r.rid, committed |-> TRUE, tentative |-> NONE, peers |-> r.peers]
  BY <1>1
<1>3. r.rid # 0 /\ IsFiniteSet(r.peers) /\ r.peers # {}
  BY DEF RowOK, FreeEntry
<1>4. r2 \in ResRecords
  BY <1>1, <1>2 DEF ResRecords
<1>5. r2.rid = r.rid /\ r2.committed /\ r2.tentative = NONE /\ r2.peers = r.peers
  BY <1>2
<1>6. \A q \in r.peers : q # NONE
  BY <1>1, Consts
<1>7. MoreCommitted(r, r2)
  BY <1>3, <1>4, <1>5, <1>6 DEF RowOK, Commits, MoreCommitted
<1> QED
  BY <1>7

LEMMA CommitIs ==
  ASSUME NEW s, StoreOK(s), NEW p, p # NONE
  PROVE  Kept(s, zhe_uristore_commit_tentative(s, p))
<1> PICK t : t = zhe_uristore_commit_tentative(s, p)
  OBVIOUS
<1> DEFINE row(i) == IF s.ress[i].tentative = p
                     THEN [s.ress[i] EXCEPT !.tentative = NONE, !.committed = TRUE]
                     ELSE s.ress[i]
<1>1. s = [b |-> s.b, ress |-> s.ress, where |-> s.where, used |-> s.used, free |-> s.free]
      /\ OrderOK(s) /\ \A i \in Entries : RowOK(s.ress[i])
  BY DEF StoreOK
<1>2. t = [s EXCEPT !.ress = [i \in Entries |-> row(i)]]
  BY DEF zhe_uristore_commit_tentative
<1>3. \A i \in Entries : RowOK(row(i)) /\ row(i).rid = s.ress[i].rid
                         /\ \A q : Commits(s.ress[i], q) => Commits(row(i), q)
  <2> SUFFICES ASSUME NEW i \in Entries PROVE MoreCommitted(s.ress[i], row(i))
    BY DEF MoreCommitted
  <2>1. CASE s.ress[i].tentative = p
    <3>1. MoreCommitted(s.ress[i], [s.ress[i] EXCEPT !.tentative = NONE, !.committed = TRUE])
      <4> PICK r : r = s.ress[i]
        OBVIOUS
      <4>1. RowOK(r) /\ r.tentative = p
        BY <1>1, <2>1
      <4>2. MoreCommitted(r, [r EXCEPT !.tentative = NONE, !.committed = TRUE])
        BY <4>1, CommittedRow
      <4> QED
        BY <4>2
    <3> QED
      BY <2>1, <3>1
  <2>2. CASE s.ress[i].tentative # p
    BY <1>1, <2>2 DEF MoreCommitted
  <2> QED
    BY <2>1, <2>2
<1> HIDE DEF row
<1>4. t = [b |-> s.b, ress |-> [i \in Entries |-> row(i)], where |-> s.where,
           used |-> s.used, free |-> s.free]
  BY <1>1, <1>2
<1>5. /\ t.ress = [i \in Entries |-> row(i)] /\ t.used = s.used /\ t.free = s.free
      /\ t = [b |-> t.b, ress |-> t.ress, where |-> t.where, used |-> t.used, free |-> t.free]
  BY <1>4
<1>6. \A i \in Entries : t.ress[i] = row(i) /\ row(i) \in ResRecords
  BY <1>3, <1>5 DEF RowOK
<1>7. OrderOK(t)
  BY <1>1, <1>3, <1>5, <1>6, SameOrder
<1>8. StoreOK(t)
  BY <1>3, <1>5, <1>6, <1>7 DEF StoreOK
<1>9. KeepsBut({}, s, t)
  BY <1>3, <1>6 DEF KeepsBut
<1>10. BlocksOK(s) => BlocksOK(t)
  <2>1. SameUse(s, t)
    BY <1>3, <1>4, <1>6 DEF SameUse
  <2> QED
    BY <2>1, SameBlocks
<1> QED
  BY <1>8, <1>9, <1>10 DEF Kept

LEMMA CollectIs ==
  ASSUME NEW s, StoreOK(s)
  PROVE  Kept(s, zhe_uristore_gc(s))
<1> PICK c : c = zhe_icgcb_gc(s.b, s.where)
  OBVIOUS
<1> PICK t : t = zhe_uristore_gc(s)
  OBVIOUS
<1>1. s = [b |-> s.b, ress |-> s.ress, where |-> s.where, used |-> s.used, free |-> s.free]
      /\ s.ress \in [Entries -> ResRecords] /\ OrderOK(s) /\ \A i \in Entries : RowOK(s.ress[i])
  BY DEF StoreOK
<1>2. t = [s EXCEPT !.b = c.b, !.where = c.where]
  BY DEF zhe_uristore_gc
<1>3. t = [b |-> c.b, ress |-> s.ress, where |-> c.where, used |-> s.used, free |-> s.free]
  BY <1>1, <1>2
<1>4. /\ t.ress = s.ress /\ t.used = s.used /\ t.free = s.free
      /\ t = [b |-> t.b, ress |-> t.ress, where |-> t.where, used |-> t.used, free |-> t.free]
  BY <1>3
<1>5. OrderOK(t)
  BY <1>1, <1>4, SameOrder
<1>6. BlocksOK(s) => BlocksOK(t)
  <2> SUFFICES ASSUME BlocksOK(s) PROVE BlocksOK(t)
    OBVIOUS
  <2>1. PICK ur : BufOK(s.b, s.where, Taken(s), ur)
    BY DEF BlocksOK
  <2>2. BufOK(c.b, c.where, Taken(s), ur)
    BY <2>1, GcOK
  <2>3. Taken(t) = Taken(s) /\ t.b = c.b /\ t.where = c.where
    BY <1>3, <1>4 DEF Taken
  <2> QED
    BY <2>2, <2>3 DEF BlocksOK
<1> QED
  BY <1>1, <1>4, <1>5, <1>6 DEF Kept, StoreOK, KeepsBut

-----------------------------------------------------------------------------
(* Storing. *)

\* One row is replaced by one with the same rid.
LEMMA RowReplaced ==
  ASSUME NEW s, StoreOK(s), NEW i \in Entries, NEW r2, MoreCommitted(s.ress[i], r2)
  PROVE  Kept(s, [s EXCEPT !.ress[i] = r2])
<1> PICK t : t = [s EXCEPT !.ress[i] = r2]
  OBVIOUS
<1>1. s = [b |-> s.b, ress |-> s.ress, where |-> s.where, used |-> s.used, free |-> s.free]
      /\ s.ress \in [Entries -> ResRecords] /\ OrderOK(s) /\ \A j \in Entries : RowOK(s.ress[j])
  BY DEF StoreOK
<1>2. RowOK(r2) /\ r2.rid = s.ress[i].rid /\ \A q : Commits(s.ress[i], q) => Commits(r2, q)
  BY DEF MoreCommitted
<1>3. t = [b |-> s.b, ress |-> [s.ress EXCEPT ![i] = r2], where |-> s.where,
           used |-> s.used, free |-> s.free]
  BY <1>1
<1>4. t.ress = [s.ress EXCEPT ![i] = r2] /\ t.used = s.used /\ t.free = s.free
      /\ t = [b |-> t.b, ress |-> t.ress, where |-> t.where, used |-> t.used, free |-> t.free]
  BY <1>3
<1>5. t.ress[i] = r2 /\ \A j \in Entries : j # i => t.ress[j] = s.ress[j]
  BY <1>1, <1>4
<1>6. t.ress \in [Entries -> ResRecords]
  BY <1>1, <1>2, <1>4 DEF RowOK
<1>7. \A j \in Entries : RowOK(t.ress[j]) /\ t.ress[j].rid = s.ress[j].rid
  BY <1>1, <1>2, <1>5
<1>8. OrderOK(t)
  BY <1>1, <1>4, <1>7, SameOrder
<1>9. StoreOK(t)
  BY <1>4, <1>6, <1>7, <1>8 DEF StoreOK
<1>10. KeepsBut({}, s, t)
  BY <1>2, <1>5 DEF KeepsBut
<1>11. BlocksOK(s) => BlocksOK(t)
  <2>1. SameUse(s, t)
    BY <1>3, <1>7 DEF SameUse
  <2> QED
    BY <2>1, SameBlocks
<1> QED
  BY <1>9, <1>10, <1>11 DEF Kept

\* zhe_uristore_record_tentative, for a peer that has not declared the resource
Winner(r, p, loser) ==
    [r EXCEPT !.peers = (@ \cup {p}) \ {loser}, !.tentative = IF loser = p THEN @ ELSE p]

LEMMA WinnerRow ==
  ASSUME NEW r, RowOK(r), r.rid # 0, NEW p \in Peers, p \notin r.peers,
         NEW loser, loser = IF r.tentative = NONE THEN NONE
                            ELSE IF p < r.tentative THEN r.tentative ELSE p
  PROVE  MoreCommitted(r, Winner(r, p, loser))
<1>1. r = [rid |-> r.rid, committed |-> r.committed, tentative |-> r.tentative, peers |-> r.peers]
      /\ r.rid \in Rids \cup {0} /\ r.peers \subseteq Peers \cup {SELF} /\ r.committed \in BOOLEAN
      /\ r.tentative \in Peers \cup {NONE}
  BY DEF RowOK, ResRecords
<1>2. /\ IsFiniteSet(r.peers) /\ r.peers # {}
      /\ r.committed <=> (r.tentative = NONE \/ Several(r.peers))
      /\ r.tentative # NONE => r.tentative \in r.peers
  BY DEF RowOK
<1> PICK P : P = (r.peers \cup {p}) \ {loser}
  OBVIOUS
<1> PICK T : T = IF loser = p THEN r.tentative ELSE p
  OBVIOUS
<1> PICK r2 : r2 = [r EXCEPT !.peers = P, !.tentative = T]
  OBVIOUS
<1>3. r2 = Winner(r, p, loser)
  BY DEF Winner
<1>4. r2 = [rid |-> r.rid, committed |-> r.committed, tentative |-> T, peers |-> P]
  BY <1>1, TwoFields
<1>5. p # NONE /\ \A q \in r.peers : q # NONE
  BY <1>1, Consts
<1>6. IsFiniteSet(P)
  <2>1. IsFiniteSet(r.peers \cup {p})
    BY <1>2, FS_AddElement
  <2> QED
    BY <2>1, FS_Subset
<1>7. /\ P # {} /\ P \subseteq Peers \cup {SELF} /\ T \in Peers \cup {NONE}
      /\ T # NONE => T \in P
      /\ r.committed <=> (T = NONE \/ Several(P))
      /\ \A q \in r.peers : q # r.tentative => q \in P /\ q # T
  <2>1. CASE r.tentative = NONE
    <3>1. loser = NONE /\ P = r.peers \cup {p} /\ T = p
      BY <1>1, <1>5, <2>1
    <3> QED
      BY <1>1, <1>2, <1>5, <2>1, <3>1 DEF Several
  <2>2. CASE r.tentative # NONE /\ p < r.tentative
    <3>1. loser = r.tentative /\ P = (r.peers \ {r.tentative}) \cup {p} /\ T = p
      BY <1>2, <2>2
    <3>2. Several(P) <=> Several(r.peers)
      BY <1>2, <2>2, <3>1 DEF Several
    <3> QED
      BY <1>1, <1>2, <1>5, <2>2, <3>1, <3>2
  <2>3. CASE r.tentative # NONE /\ ~ (p < r.tentative)
    <3>1. loser = p /\ P = r.peers /\ T = r.tentative
      BY <2>3
    <3> QED
      BY <1>1, <1>2, <3>1
  <2> QED
    BY <2>1, <2>2, <2>3
<1>8. r2.rid = r.rid /\ r2.committed = r.committed /\ r2.tentative = T /\ r2.peers = P
  BY <1>4
<1>9. r2 \in ResRecords
  BY <1>1, <1>4, <1>7 DEF ResRecords
<1>10. RowOK(r2)
  BY <1>6, <1>7, <1>8, <1>9 DEF RowOK
<1>11. \A q : Commits(r, q) => Commits(r2, q)
  BY <1>7, <1>8 DEF Commits
<1>12. MoreCommitted(r, r2)
  BY <1>8, <1>10, <1>11 DEF MoreCommitted
<1> QED
  BY <1>3, <1>12

LEMMA RecordIs ==
  ASSUME NEW s, StoreOK(s), NEW i \in Entries, s.ress[i].rid # 0,
         NEW p \in Peers, p \notin s.ress[i].peers
  PROVE  Kept(s, zhe_uristore_record_tentative(s, i, p).s)
<1> PICK r : r = s.ress[i]
  OBVIOUS
<1>1. s = [b |-> s.b, ress |-> s.ress, where |-> s.where, used |-> s.used, free |-> s.free]
      /\ s.ress \in [Entries -> ResRecords] /\ RowOK(r)
  BY DEF StoreOK
<1> PICK loser : loser = IF r.tentative \in {NONE, p} THEN NONE
                         ELSE IF p < r.tentative THEN r.tentative ELSE p
  OBVIOUS
<1>2. zhe_uristore_record_tentative(s, i, p).s = RecordWinner(s, i, p, loser)
  BY DEF zhe_uristore_record_tentative, Result
<1>3. r.tentative # p
  BY <1>1, Consts DEF RowOK
<1>4. loser = IF r.tentative = NONE THEN NONE ELSE IF p < r.tentative THEN r.tentative ELSE p
  BY <1>3
<1>5. MoreCommitted(r, Winner(r, p, loser))
  BY <1>1, <1>4, WinnerRow
<1>6. Kept(s, [s EXCEPT !.ress[i] = Winner(r, p, loser)])
  BY <1>5, RowReplaced
<1>7. RecordWinner(s, i, p, loser) = [s EXCEPT !.ress[i] = Winner(s.ress[i], p, loser)]
  BY DEF RecordWinner, Winner
<1> QED
  BY <1>2, <1>6, <1>7

LEMMA ThreeFields ==
  ASSUME NEW r, NEW T, NEW P,
         r = [rid |-> r.rid, committed |-> r.committed, tentative |-> r.tentative, peers |-> r.peers]
  PROVE  [r EXCEPT !.peers = P, !.tentative = T, !.committed = TRUE]
            = [rid |-> r.rid, committed |-> TRUE, tentative |-> T, peers |-> P]
<1>1. PICK r1 : r1 = [r EXCEPT !.peers = P, !.tentative = T, !.committed = TRUE]
  OBVIOUS
<1>2. r1 = [rid |-> r.rid, committed |-> TRUE, tentative |-> T, peers |-> P]
  BY <1>1
<1> QED
  BY <1>1, <1>2

\* A row to which p adds a declaration that is not tentative.
LEMMA DeclaredRow ==
  ASSUME NEW r, RowOK(r), r.rid # 0, NEW p \in Peers \cup {SELF}
  PROVE  MoreCommitted(r, [r EXCEPT !.peers = @ \cup {p},
                                    !.tentative = IF @ = p THEN NONE ELSE @,
                                    !.committed = TRUE])
<1>1. r = [rid |-> r.rid, committed |-> r.committed, tentative |-> r.tentative, peers |-> r.peers]
      /\ r.rid \in Rids \cup {0} /\ r.peers \subseteq Peers \cup {SELF}
      /\ r.tentative \in Peers \cup {NONE}
  BY DEF RowOK, ResRecords
<1>2. IsFiniteSet(r.peers) /\ r.peers # {} /\ (r.tentative # NONE => r.tentative \in r.peers)
  BY DEF RowOK
<1> PICK P : P = r.peers \cup {p}
  OBVIOUS
<1> PICK T : T = IF r.tentative = p THEN NONE ELSE r.tentative
  OBVIOUS
<1> PICK r2 : r2 = [r EXCEPT !.peers = P, !.tentative = T, !.committed = TRUE]
  OBVIOUS
<1>3. r2 = [rid |-> r.rid, committed |-> TRUE, tentative |-> T, peers |-> P]
  BY <1>1, ThreeFields
<1>4. r2.rid = r.rid /\ r2.committed /\ r2.tentative = T /\ r2.peers = P
  BY <1>3
<1>5. IsFiniteSet(P) /\ P # {} /\ P \subseteq Peers \cup {SELF} /\ T \in Peers \cup {NONE}
  BY <1>1, <1>2, FS_AddElement
<1>6. T = NONE \/ (Several(P) /\ T \in P)
  BY <1>2 DEF Several
<1>7. \A q \in r.peers : q # NONE
  BY <1>1, Consts
<1>8. r2 \in ResRecords
  BY <1>1, <1>3, <1>5 DEF ResRecords
<1>9. RowOK(r2)
  BY <1>4, <1>5, <1>6, <1>8 DEF RowOK
<1>10. MoreCommitted(r, r2)
  BY <1>4, <1>7, <1>9 DEF MoreCommitted, Commits
<1> QED
  BY <1>10

LEMMA StoreDupIs ==
  ASSUME NEW s, StoreOK(s), NEW i \in Entries, s.ress[i].rid # 0,
         NEW p \in Peers \cup {SELF}, NEW tentative \in BOOLEAN, tentative => p \in Peers
  PROVE  Kept(s, zhe_uristore_store_dup(s, i, p, tentative).s)
<1> PICK r : r = s.ress[i]
  OBVIOUS
<1>1. RowOK(r) /\ r.rid # 0
  BY DEF StoreOK
<1>2. CASE tentative /\ p \in r.peers
  <2>1. zhe_uristore_store_dup(s, i, p, tentative).s = s
    BY <1>2 DEF zhe_uristore_store_dup, Result
  <2> QED
    BY <2>1 DEF Kept, KeepsBut
<1>3. CASE tentative /\ p \notin r.peers
  <2>1. zhe_uristore_store_dup(s, i, p, tentative) = zhe_uristore_record_tentative(s, i, p)
    BY <1>3 DEF zhe_uristore_store_dup
  <2> QED
    BY <1>3, <2>1, RecordIs
<1>4. CASE ~tentative
  <2>1. zhe_uristore_store_dup(s, i, p, tentative).s
          = [s EXCEPT !.ress[i] = [r EXCEPT !.peers = @ \cup {p},
                                            !.tentative = IF @ = p THEN NONE ELSE @,
                                            !.committed = TRUE]]
    BY <1>4 DEF zhe_uristore_store_dup, Result
  <2> PICK r2 : r2 = [r EXCEPT !.peers = @ \cup {p}, !.tentative = IF @ = p THEN NONE ELSE @,
                               !.committed = TRUE]
    OBVIOUS
  <2>2. MoreCommitted(r, r2)
    BY <1>1, DeclaredRow
  <2>3. Kept(s, [s EXCEPT !.ress[i] = r2])
    BY <2>2, RowReplaced
  <2> QED
    BY <2>1, <2>3
<1> QED
  BY <1>2, <1>3, <1>4

\* A free entry is taken for rid, in its place in the order.
LEMMA EntryTaken ==
  ASSUME NEW s, StoreOK(s), NEW rid \in Rids, \A j \in Entries : s.ress[j].rid # rid,
         s.free # <<>>, NEW i, i = Head(s.free),
         NEW row, row.rid = rid,
         NEW t, t.ress = [s.ress EXCEPT ![i] = row],
         t.used = InsertByRid(s, i, rid), t.free = Tail(s.free)
  PROVE  i \in Entries /\ s.ress[i].rid = 0 /\ OrderOK(t)
<1> DEFINE n == Len(s.used)
           m == Len(s.free)
           above == {k \in DOMAIN s.used : s.ress[s.used[k]].rid > rid}
           at == Min(above \cup {n + 1})
<1>0. n \in Nat /\ m \in Nat /\ s.used \in Seq(Entries) /\ s.free \in Seq(Entries) /\ m >= 1
      /\ rid \in Nat /\ rid # 0 /\ DOMAIN s.used = 1 .. n
  BY Consts DEF StoreOK, OrderOK
<1>1. i = s.free[1] /\ i \in Entries /\ s.ress[i].rid = 0
  <2>1. i = s.free[1] /\ i \in Entries /\ 1 \in 1 .. m
    BY <1>0
  <2> QED
    BY <2>1 DEF StoreOK, OrderOK
<1>2. \A j \in 1 .. n : s.used[j] \in Entries /\ s.used[j] # i
                        /\ s.ress[s.used[j]].rid \in Nat /\ s.ress[s.used[j]].rid # rid
  <2>1. \A j \in Entries : s.ress[j].rid \in Nat
    BY Consts DEF StoreOK, ResRecords
  <2>2. \A j \in 1 .. n : s.used[j] \in Entries /\ s.ress[s.used[j]].rid # 0
    BY <1>0 DEF StoreOK, OrderOK
  <2> QED
    BY <1>1, <2>1, <2>2
<1>3. \A j, k \in 1 .. n : j < k => s.ress[s.used[j]].rid < s.ress[s.used[k]].rid
  BY DEF StoreOK, OrderOK
<1>4. at \in above \cup {n + 1} /\ \A k \in above \cup {n + 1} : at <= k
  <2>1. above \cup {n + 1} \subseteq Nat /\ above \cup {n + 1} # {}
    <3> HIDE DEF n
    <3>1. above \subseteq 1 .. n
      BY <1>0
    <3> QED
      BY <1>0, <3>1
  <2> HIDE DEF above, n
  <2> QED
    BY <2>1, MinIs
<1>5. t.used = InsertAt(s.used, at, i)
  BY DEF InsertByRid
<1> HIDE DEF n, m, at
<1>6. at \in 1 .. n + 1
  BY <1>0, <1>4
<1>7. \A k \in 1 .. n : k < at => s.ress[s.used[k]].rid < rid
  <2> SUFFICES ASSUME NEW k \in 1 .. n, k < at PROVE s.ress[s.used[k]].rid < rid
    OBVIOUS
  <2>1. k \notin above
    BY <1>0, <1>4, <1>6
  <2>2. ~ (s.ress[s.used[k]].rid > rid)
    BY <1>0, <2>1
  <2> QED
    BY <1>0, <1>2, <2>2
<1>8. \A k \in 1 .. n : k >= at => s.ress[s.used[k]].rid > rid
  <2> SUFFICES ASSUME NEW k \in 1 .. n, k >= at PROVE s.ress[s.used[k]].rid > rid
    OBVIOUS
  <2>1. at \in above /\ at \in 1 .. n
    BY <1>0, <1>4, <1>6
  <2>2. s.ress[s.used[at]].rid > rid
    BY <2>1
  <2>3. at = k \/ s.ress[s.used[at]].rid < s.ress[s.used[k]].rid
    BY <1>0, <1>3, <2>1
  <2> QED
    BY <1>0, <1>2, <2>1, <2>2, <2>3
<1>9. t.used \in Seq(Entries) /\ Len(t.used) = n + 1
      /\ \A j \in 1 .. n + 1 :
            t.used[j] = IF j < at THEN s.used[j] ELSE IF j = at THEN i ELSE s.used[j - 1]
  <2> PICK used : used = InsertAt(s.used, at, i)
    OBVIOUS
  <2>1. used \in Seq(Entries) /\ Inserted(used, s.used, at, i)
    <3>1. at \in 1 .. Len(s.used) + 1
      BY <1>6 DEF n
    <3> QED
      BY <1>0, <1>1, <3>1, InsertAtIs
  <2> QED
    BY <1>5, <2>1 DEF n, Inserted
<1>10. t.free \in Seq(Entries) /\ Len(t.free) = m - 1 /\ \A j \in 1 .. m - 1 : t.free[j] = s.free[j + 1]
  BY <1>0 DEF m
<1>11. \A j \in Entries : t.ress[j].rid = IF j = i THEN rid ELSE s.ress[j].rid
  BY <1>1 DEF StoreOK
<1> DEFINE old(j) == IF j < at THEN j ELSE j - 1
<1>12. \A j \in 1 .. n + 1 : j # at =>
          old(j) \in 1 .. n /\ t.used[j] = s.used[old(j)]
          /\ t.ress[t.used[j]].rid = s.ress[s.used[old(j)]].rid
          /\ (old(j) < at <=> j < at)
  <2> SUFFICES ASSUME NEW j \in 1 .. n + 1, j # at
               PROVE  old(j) \in 1 .. n /\ t.used[j] = s.used[old(j)]
                      /\ t.ress[t.used[j]].rid = s.ress[s.used[old(j)]].rid
                      /\ (old(j) < at <=> j < at)
    OBVIOUS
  <2>1. old(j) \in 1 .. n /\ (old(j) < at <=> j < at)
    BY <1>0, <1>6
  <2>2. t.used[j] = s.used[old(j)]
    BY <1>9
  <2> QED
    BY <1>2, <1>11, <2>1, <2>2
<1>13. at \in 1 .. n + 1 /\ t.used[at] = i /\ t.ress[t.used[at]].rid = rid
  BY <1>1, <1>6, <1>9, <1>11
<1>14. ASSUME NEW j \in 1 .. n + 1, NEW l \in 1 .. n + 1, j < l
       PROVE  t.ress[t.used[j]].rid < t.ress[t.used[l]].rid
  <2>1. CASE j = at
    <3>1. old(l) \in 1 .. n /\ ~ (old(l) < at) /\ t.ress[t.used[l]].rid = s.ress[s.used[old(l)]].rid
      BY <1>0, <1>6, <1>12, <1>14, <2>1
    <3> QED
      BY <1>0, <1>2, <1>6, <1>8, <1>13, <2>1, <3>1
  <2>2. CASE l = at
    <3>1. old(j) \in 1 .. n /\ old(j) < at /\ t.ress[t.used[j]].rid = s.ress[s.used[old(j)]].rid
      BY <1>0, <1>6, <1>12, <1>14, <2>2
    <3> QED
      BY <1>7, <1>13, <2>2, <3>1
  <2>3. CASE j # at /\ l # at
    <3>1. old(j) < old(l)
      BY <1>0, <1>6, <1>14, <2>3
    <3> QED
      BY <1>3, <1>12, <2>3, <3>1
  <2> QED
    BY <2>1, <2>2, <2>3
<1>15. ASSUME NEW j \in 1 .. m - 1, NEW l \in 1 .. m - 1, t.free[j] = t.free[l]
       PROVE  j = l
  <2>1. j + 1 \in 1 .. m /\ l + 1 \in 1 .. m /\ s.free[j + 1] = s.free[l + 1]
    BY <1>0, <1>10, <1>15
  <2>2. j + 1 = l + 1
    BY <2>1 DEF StoreOK, OrderOK, m
  <2> QED
    BY <2>2
<1>16. ASSUME NEW j \in Entries
       PROVE  (\E h \in 1 .. n + 1 : t.used[h] = j) <=> t.ress[j].rid # 0
  <2>0. (\E h \in 1 .. n : s.used[h] = j) <=> s.ress[j].rid # 0
    BY DEF StoreOK, OrderOK, n
  <2>1. ASSUME NEW h \in 1 .. n + 1, t.used[h] = j PROVE t.ress[j].rid # 0
    <3>1. CASE h = at
      BY <1>0, <1>13, <2>1, <3>1
    <3>2. CASE h # at
      BY <1>2, <1>11, <1>12, <2>0, <2>1, <3>2
    <3> QED
      BY <3>1, <3>2
  <2>2. ASSUME t.ress[j].rid # 0 PROVE \E h \in 1 .. n + 1 : t.used[h] = j
    <3>1. CASE j = i
      BY <1>13, <3>1
    <3>2. CASE j # i
      <4>1. PICK h \in 1 .. n : s.used[h] = j
        BY <1>11, <2>0, <2>2, <3>2
      <4>2. CASE h < at
        <5>1. h \in 1 .. n + 1
          BY <1>0
        <5> QED
          BY <1>9, <4>1, <4>2, <5>1
      <4>3. CASE ~ (h < at)
        <5>1. h + 1 \in 1 .. n + 1 /\ ~ (h + 1 < at) /\ h + 1 # at /\ h + 1 - 1 = h
          BY <1>0, <1>6, <4>3
        <5> QED
          BY <1>9, <4>1, <5>1
      <4> QED
        BY <4>2, <4>3
    <3> QED
      BY <3>1, <3>2
  <2> QED
    BY <2>1, <2>2
<1>17. ASSUME NEW j \in Entries
       PROVE  (\E h \in 1 .. m - 1 : t.free[h] = j) <=> t.ress[j].rid = 0
  <2>0. (\E h \in 1 .. m : s.free[h] = j) <=> s.ress[j].rid = 0
    BY DEF StoreOK, OrderOK, m
  <2>1. ASSUME NEW h \in 1 .. m - 1, t.free[h] = j PROVE t.ress[j].rid = 0
    <3>1. h + 1 \in 1 .. m /\ h + 1 # 1 /\ 1 \in 1 .. m /\ s.free[h + 1] = j
      BY <1>0, <1>10, <2>1
    <3>2. j # i
      BY <1>1, <3>1 DEF StoreOK, OrderOK, m
    <3> QED
      BY <1>11, <2>0, <3>1, <3>2
  <2>2. ASSUME t.ress[j].rid = 0 PROVE \E h \in 1 .. m - 1 : t.free[h] = j
    <3>1. j # i /\ s.ress[j].rid = 0
      BY <1>0, <1>11, <2>2
    <3>2. PICK h \in 1 .. m : s.free[h] = j
      BY <2>0, <3>1
    <3>3. h # 1
      BY <1>1, <3>1, <3>2
    <3>4. h - 1 \in 1 .. m - 1 /\ h - 1 + 1 = h
      BY <1>0, <3>3
    <3> QED
      BY <1>10, <3>2, <3>4
  <2> QED
    BY <2>1, <2>2
<1>18. OrderOK(t)
  <2>1. Len(t.used) = n + 1 /\ Len(t.free) = m - 1
    BY <1>9, <1>10
  <2>2. t.used \in Seq(Entries) /\ t.free \in Seq(Entries)
    BY <1>9, <1>10
  <2> QED
    BY <1>14, <1>15, <1>16, <1>17, <2>1, <2>2 DEF OrderOK
<1> QED
  BY <1>1, <1>18

LEMMA NewRow ==
  ASSUME NEW rid \in Rids, NEW p \in Peers \cup {SELF}, NEW tentative \in BOOLEAN,
         tentative => p \in Peers,
         NEW row, row = [rid |-> rid, committed |-> ~tentative,
                         tentative |-> IF tentative THEN p ELSE NONE, peers |-> {p}]
  PROVE  RowOK(row) /\ row.rid = rid
<1> PICK T : T = IF tentative THEN p ELSE NONE
  OBVIOUS
<1>1. row.rid = rid /\ row.tentative = T /\ row.peers = {p} /\ row.committed = ~tentative
  OBVIOUS
<1>2. p # NONE /\ rid # 0
  BY Consts
<1>3. row \in ResRecords
  BY DEF ResRecords
<1>4. IsFiniteSet({p}) /\ ~ Several({p})
  BY FS_Singleton DEF Several
<1> QED
  BY <1>1, <1>2, <1>3, <1>4 DEF RowOK

LEMMA StoreNewIs ==
  ASSUME NEW s, StoreOK(s), NEW p \in Peers \cup {SELF}, NEW rid \in Rids, NEW uri \in Uris,
         NEW tentative \in BOOLEAN, tentative => p \in Peers,
         \A j \in Entries : s.ress[j].rid # rid, s.free # <<>>
  PROVE  Kept(s, zhe_uristore_store_new(s, p, rid, uri, tentative).s)
<1> PICK t : t = zhe_uristore_store_new(s, p, rid, uri, tentative).s
  OBVIOUS
<1> PICK i : i = Head(s.free)
  OBVIOUS
<1> PICK row : row = [rid |-> rid, committed |-> ~tentative,
                      tentative |-> IF tentative THEN p ELSE NONE, peers |-> {p}]
  OBVIOUS
<1> PICK b : b = zhe_icgcb_alloc(s.b, UriLen[uri], i, uri)
  OBVIOUS
<1> PICK where : where = [s.where EXCEPT ![i] = s.b.openspace]
  OBVIOUS
<1> PICK res : res = AllocResult(s.b, UriLen[uri])
  OBVIOUS
<1>1. CASE res \in {"IAR_NOSPACE", "IAR_AGAIN"}
  <2>1. t = s
    BY <1>1 DEF zhe_uristore_store_new, Result
  <2> QED
    BY <2>1 DEF Kept, KeepsBut
<1>2. CASE res \notin {"IAR_NOSPACE", "IAR_AGAIN"}
  <2>1. t = [b |-> b, ress |-> [s.ress EXCEPT ![i] = row], where |-> where,
             used |-> InsertByRid(s, i, rid), free |-> Tail(s.free)]
    BY <1>2 DEF zhe_uristore_store_new, Result
  <2>2. /\ t.ress = [s.ress EXCEPT ![i] = row] /\ t.used = InsertByRid(s, i, rid)
        /\ t.free = Tail(s.free)
        /\ t = [b |-> t.b, ress |-> t.ress, where |-> t.where, used |-> t.used, free |-> t.free]
    BY <2>1
  <2>3. RowOK(row) /\ row.rid = rid
    BY NewRow
  <2>4. i \in Entries /\ s.ress[i].rid = 0 /\ OrderOK(t)
    BY <2>2, <2>3, EntryTaken
  <2>5. s.ress \in [Entries -> ResRecords] /\ \A j \in Entries : RowOK(s.ress[j])
    BY DEF StoreOK
  <2>6. t.ress[i] = row /\ \A j \in Entries : j # i => t.ress[j] = s.ress[j]
    BY <2>2, <2>4, <2>5
  <2>7. t.ress \in [Entries -> ResRecords]
    BY <2>2, <2>3, <2>4, <2>5 DEF RowOK
  <2>8. \A j \in Entries : RowOK(t.ress[j])
    BY <2>3, <2>5, <2>6
  <2>9. StoreOK(t)
    BY <2>2, <2>4, <2>7, <2>8 DEF StoreOK
  <2>10. \A q : ~ Commits(s.ress[i], q)
    BY <2>4 DEF Commits
  <2>11. KeepsBut({}, s, t)
    BY <2>6, <2>10 DEF KeepsBut
  <2>12. BlocksOK(s) => BlocksOK(t)
    <3>1. res = "IAR_OK"
      BY <1>2 DEF AllocResult
    <3>2. t.b = b /\ t.where = where
      BY <2>1
    <3>3. t.ress[i].rid # 0
      BY <2>3, <2>6, Consts
    <3>4. NewUse(s, t, i, uri)
      BY <2>4, <2>6, <3>1, <3>2, <3>3 DEF NewUse
    <3> QED
      BY <2>4, <3>4, BlockTaken
  <2> QED
    BY <2>9, <2>11, <2>12 DEF Kept
<1> QED
  BY <1>1, <1>2

LEMMA LookupIs ==
  ASSUME NEW s, StoreOK(s), NEW rid \in Rids
  PROVE  lookup_rid(s, rid) = {i \in Entries : s.ress[i].rid = rid}
<1>1. \A i \in Entries : s.ress[i].rid = rid => i \in ToSet(s.used)
  BY Consts DEF StoreOK, OrderOK, ToSet
<1>2. ToSet(s.used) \subseteq Entries
  BY DEF StoreOK, OrderOK, ToSet
<1> QED
  BY <1>1, <1>2 DEF lookup_rid

\* Whatever the result, nothing that was committed is lost.
LEMMA StoreIs ==
  ASSUME NEW s, StoreOK(s), NEW p \in Peers \cup {SELF}, NEW rid \in Rids, NEW uri \in Uris,
         NEW tentative \in BOOLEAN, tentative => p \in Peers
  PROVE  Kept(s, zhe_uristore_store(s, p, rid, uri, tentative).s)
<1> PICK r : r = zhe_uristore_store(s, p, rid, uri, tentative)
  OBVIOUS
<1>1. lookup_rid(s, rid) = {i \in Entries : s.ress[i].rid = rid}
  BY LookupIs
<1>2. Kept(s, s)
  BY DEF Kept, KeepsBut
<1>3. CASE \E i \in lookup_rid(s, rid) : UriOf(s, i) # uri
  <2>1. r.s = s
    BY <1>3 DEF zhe_uristore_store, Result
  <2> QED
    BY <1>2, <2>1
<1>4. CASE ~ (\E i \in lookup_rid(s, rid) : UriOf(s, i) # uri) /\ lookup_rid(s, rid) # {}
  <2> PICK i : i = CHOOSE j \in lookup_rid(s, rid) : TRUE
    OBVIOUS
  <2>1. r = zhe_uristore_store_dup(s, i, p, tentative)
    BY <1>4 DEF zhe_uristore_store
  <2>2. i \in lookup_rid(s, rid)
    BY <1>4
  <2>3. i \in Entries /\ s.ress[i].rid # 0
    BY <1>1, <2>2, Consts
  <2> QED
    BY <2>1, <2>3, StoreDupIs
<1>5. CASE lookup_rid(s, rid) = {} /\ s.free = <<>>
  <2>1. r.s = s
    BY <1>5 DEF zhe_uristore_store, Result
  <2> QED
    BY <1>2, <2>1
<1>6. CASE lookup_rid(s, rid) = {} /\ s.free # <<>>
  <2>1. r = zhe_uristore_store_new(s, p, rid, uri, tentative)
    BY <1>6 DEF zhe_uristore_store
  <2>2. \A j \in Entries : s.ress[j].rid # rid
    BY <1>1, <1>6
  <2> QED
    BY <1>6, <2>1, <2>2, StoreNewIs
<1> QED
  BY <1>3, <1>4, <1>5, <1>6

-----------------------------------------------------------------------------
(* What users of the store rely on: results, and names that stay. *)

StoreResults == {"USR_OK", "USR_DUPLICATE", "USR_MISMATCH", "USR_NOSPACE", "USR_AGAIN"}

\* what zhe_uristore_store may return, and the peer that may have lost
LEMMA StoreResultIs ==
  ASSUME NEW s, StoreOK(s), NEW p \in Peers \cup {SELF}, NEW rid \in Rids, NEW uri,
         NEW tentative \in BOOLEAN, tentative => p \in Peers
  PROVE  LET r == zhe_uristore_store(s, p, rid, uri, tentative)
         IN  r.res \in StoreResults /\ r.loser \in Peers \cup {NONE}
<1> PICK r : r = zhe_uristore_store(s, p, rid, uri, tentative)
  OBVIOUS
<1>1. lookup_rid(s, rid) = {i \in Entries : s.ress[i].rid = rid}
  BY LookupIs
<1>2. CASE \E i \in lookup_rid(s, rid) : UriOf(s, i) # uri
  BY <1>2 DEF zhe_uristore_store, Result, StoreResults
<1>3. CASE ~ (\E i \in lookup_rid(s, rid) : UriOf(s, i) # uri) /\ lookup_rid(s, rid) # {}
  <2> PICK i : i = CHOOSE j \in lookup_rid(s, rid) : TRUE
    OBVIOUS
  <2>1. r = zhe_uristore_store_dup(s, i, p, tentative)
    BY <1>3 DEF zhe_uristore_store
  <2>2. i \in lookup_rid(s, rid)
    BY <1>3
  <2>3. s.ress[i].tentative \in Peers \cup {NONE}
    BY <1>1, <2>2 DEF StoreOK, RowOK, ResRecords
  <2>4. CASE tentative /\ p \notin s.ress[i].peers
    <3>1. r = zhe_uristore_record_tentative(s, i, p)
      BY <2>1, <2>4 DEF zhe_uristore_store_dup
    <3> PICK other : other = s.ress[i].tentative
      OBVIOUS
    <3>2. \E loser : loser \in {NONE, other, p} /\ (other = NONE => loser # other \/ loser = NONE)
                    /\ r = Result(RecordWinner(s, i, p, loser), "USR_OK", loser)
      BY <3>1 DEF zhe_uristore_record_tentative
    <3>3. PICK loser : loser \in {NONE, other, p} /\ r = Result(RecordWinner(s, i, p, loser), "USR_OK", loser)
      BY <3>2
    <3>4. r.res = "USR_OK" /\ r.loser = loser
      BY <3>3 DEF Result
    <3> QED
      BY <2>3, <2>4, <3>3, <3>4 DEF StoreResults
  <2>5. CASE ~ (tentative /\ p \notin s.ress[i].peers)
    <3>1. r.res \in {"USR_OK", "USR_DUPLICATE"} /\ r.loser = NONE
      BY <2>1, <2>5 DEF zhe_uristore_store_dup, Result
    <3> QED
      BY <3>1 DEF StoreResults
  <2> QED
    BY <2>4, <2>5
<1>4. CASE lookup_rid(s, rid) = {}
  <2>1. r.res \in {"USR_OK", "USR_NOSPACE", "USR_AGAIN"} /\ r.loser = NONE
    BY <1>4 DEF zhe_uristore_store, zhe_uristore_store_new, Result
  <2> QED
    BY <2>1 DEF StoreResults
<1> QED
  BY <1>2, <1>3, <1>4

\* the node itself has committed every resource in use
AllBySelf(s) == \A i \in Entries : s.ress[i].rid # 0 => Commits(s.ress[i], SELF)

\* such a resource is committed, and stays so whatever a peer does
LEMMA BySelfIs ==
  ASSUME NEW s, StoreOK(s), AllBySelf(s), NEW i \in Entries, s.ress[i].rid # 0
  PROVE  s.ress[i].committed /\ SELF \in s.ress[i].peers /\ s.ress[i].tentative # SELF
<1>1. Commits(s.ress[i], SELF) /\ RowOK(s.ress[i])
  BY DEF AllBySelf, StoreOK
<1> QED
  BY <1>1 DEF Commits, RowOK, Several

LEMMA BySelfStays ==
  ASSUME NEW s, NEW t, NEW out, AllBySelf(s), KeepsBut(out, s, t), SELF \notin out, SameUse(s, t)
  PROVE  AllBySelf(t)
BY DEF AllBySelf, KeepsBut, SameUse

LEMMA DropAllSame ==
  ASSUME NEW s, StoreOK(s), AllBySelf(s), NEW p \in Peers, NEW X, X \subseteq Entries,
         \A i \in X : s.ress[i].rid # 0
  PROVE  SameUse(s, DropAll(s, p, X))
<1> PICK t : t = DropAll(s, p, X)
  OBVIOUS
<1> DEFINE N == Len(s.used)
<1>0. p # NONE /\ p # SELF
  BY Consts
<1>1. N \in Nat /\ s.used \in Seq(Entries)
  BY DEF StoreOK, OrderOK
<1>2. PICK g : Rounds(s, p, X, g, N) /\ t = g[N]
  BY <1>1, DropAllRounds
<1> DEFINE S == {n \in 0 .. N : SoFar(s, p, X, g[n], n) /\ g[n].b = s.b /\ g[n].where = s.where}
<1>3. 0 \in S
  <2>1. g[0] = s
    BY <1>2 DEF Rounds
  <2>2. SoFar(s, p, X, s, 0)
    <3>1. \A k \in 1 .. 0 : FALSE
      OBVIOUS
    <3> QED
      BY <3>1 DEF SoFar
  <2> HIDE DEF N
  <2> QED
    BY <1>1, <2>1, <2>2
<1>4. ASSUME NEW n \in 1 .. N, n - 1 \in S PROVE n \in S
  <2> PICK u : u = g[n - 1]
    OBVIOUS
  <2>1. g[n] = Dropped(s, p, X, u, n)
    BY <1>2 DEF Rounds
  <2>2. SoFar(s, p, X, u, n - 1) /\ u.b = s.b /\ u.where = s.where
    BY <1>4
  <2>3. SoFar(s, p, X, g[n], n)
    BY <1>0, <2>1, <2>2, OneRound
  <2>4. n \in 0 .. N
    <3> HIDE DEF N
    <3> QED
      BY <1>1
  <2>5. g[n].b = u.b /\ g[n].where = u.where
    <3> PICK i : i = s.used[n]
      OBVIOUS
    <3>1. CASE i \notin X
      BY <2>1, <3>1 DEF Dropped
    <3>2. CASE i \in X
      <4>1. g[n] = zhe_uristore_drop_idx(u, p, i)
        BY <2>1, <3>2 DEF Dropped
      <4>2. i \in Entries /\ Commits(s.ress[i], SELF)
        BY <3>2 DEF AllBySelf
      <4>3. Commits(u.ress[i], SELF) /\ StoreOK(u)
        BY <1>0, <2>2, <4>2 DEF SoFar
      <4>4. RowOK(u.ress[i])
        BY <4>2, <4>3 DEF StoreOK
      <4> PICK r1 : r1 = Without(u.ress[i], p)
        OBVIOUS
      <4>5. r1.peers = u.ress[i].peers \ {p}
        BY <4>4, WithoutIs DEF RowOK
      <4>6. r1.peers # {}
        BY <1>0, <4>3, <4>5 DEF Commits
      <4>7. g[n] = [u EXCEPT !.ress[i] = [r1 EXCEPT !.committed = CommittedWithout(r1)]]
        BY <4>1, <4>6 DEF zhe_uristore_drop_idx, Without
      <4>8. u = [b |-> u.b, ress |-> u.ress, where |-> u.where, used |-> u.used, free |-> u.free]
        BY <4>3 DEF StoreOK
      <4> QED
        BY <4>7, <4>8
    <3> QED
      BY <3>1, <3>2
  <2> QED
    BY <2>2, <2>3, <2>4, <2>5
<1>5. N \in S
  <2> HIDE DEF S, N
  <2>1. S \subseteq 0 .. N
    BY DEF S
  <2>2. \A n \in 0 .. N : n \in S
    BY <1>1, <1>3, <1>4, <2>1, NatInSet
  <2> QED
    BY <1>1, <2>2
<1>6. t.b = s.b /\ t.where = s.where
  BY <1>2, <1>5
<1>7. AllDropped(s, t, p, X)
  BY <1>0, DropAllIs
<1>8. \A i \in Entries : t.ress[i].rid = s.ress[i].rid
  BY <1>0, <1>7 DEF AllDropped, AllBySelf
<1>9. SameUse(s, t)
  BY <1>6, <1>8 DEF SameUse
<1> QED
  BY <1>9

LEMMA TakenUris ==
  ASSUME NEW s, BlocksOK(s), NEW i \in Entries, s.ress[i].rid # 0
  PROVE  UriOf(s, i) \in Uris
<1>1. PICK ur, H : Laid(s.b, s.where, Taken(s), ur, H)
  BY DEF BlocksOK, BufOK
<1>2. i \in Taken(s)
  BY DEF Taken
<1>3. UriOf(s, i) = ur[i] /\ ur[i] \in Uris
  BY <1>1, <1>2, UriIs
<1> QED
  BY <1>3

\* t is s, as far as resources in use and their names are concerned, and all
\* of them are still the node's own
Alike(s, t) == StoreOK(t) /\ AllBySelf(t) /\ SameUse(s, t)

LEMMA DropsAlike ==
  ASSUME NEW s, StoreOK(s), AllBySelf(s), NEW p \in Peers
  PROVE  Alike(s, zhe_uristore_reset_peer(s, p)) /\ Alike(s, zhe_uristore_abort_tentative(s, p))
<1>0. p # NONE /\ SELF # p
  BY Consts
<1>1. \A i \in ToSet(s.used) : i \in Entries /\ s.ress[i].rid # 0
  BY DEF StoreOK, OrderOK, ToSet
<1>2. ASSUME NEW t, t = zhe_uristore_reset_peer(s, p) PROVE Alike(s, t)
  <2> PICK X : X = {i \in ToSet(s.used) : p \in s.ress[i].peers}
    OBVIOUS
  <2>1. t = DropAll(s, p, X) /\ X \subseteq Entries /\ \A i \in X : s.ress[i].rid # 0
    BY <1>1, <1>2 DEF zhe_uristore_reset_peer
  <2>2. SameUse(s, t)
    BY <2>1, DropAllSame
  <2>3. ResetDone(s, t, p)
    BY <1>0, <1>2, ResetIs
  <2>4. KeepsBut({p}, s, t) /\ StoreOK(t) /\ SELF \notin {p}
    BY <1>0, <2>3 DEF ResetDone
  <2> QED
    BY <2>2, <2>4, BySelfStays DEF Alike
<1>3. ASSUME NEW t, t = zhe_uristore_abort_tentative(s, p) PROVE Alike(s, t)
  <2> PICK X : X = {i \in ToSet(s.used) : s.ress[i].tentative = p}
    OBVIOUS
  <2>1. t = DropAll(s, p, X) /\ X \subseteq Entries /\ \A i \in X : s.ress[i].rid # 0
    BY <1>1, <1>3 DEF zhe_uristore_abort_tentative
  <2>2. SameUse(s, t)
    BY <2>1, DropAllSame
  <2>3. Kept(s, t)
    BY <1>0, <1>3, AbortIs
  <2>4. KeepsBut({}, s, t) /\ StoreOK(t) /\ SELF \notin {}
    BY <2>3 DEF Kept
  <2> QED
    BY <2>2, <2>4, BySelfStays DEF Alike
<1> QED
  BY <1>2, <1>3

LEMMA CommitAlike ==
  ASSUME NEW s, StoreOK(s), AllBySelf(s), NEW p \in Peers
  PROVE  Alike(s, zhe_uristore_commit_tentative(s, p))
<1> PICK t : t = zhe_uristore_commit_tentative(s, p)
  OBVIOUS
<1>1. Kept(s, t)
  BY CommitIs, Consts
<1>2. KeepsBut({}, s, t) /\ StoreOK(t) /\ SELF \notin {}
  BY <1>1 DEF Kept
<1>3. s = [b |-> s.b, ress |-> s.ress, where |-> s.where, used |-> s.used, free |-> s.free]
      /\ \A i \in Entries : s.ress[i] \in ResRecords
  BY DEF StoreOK
<1>4. t.b = s.b /\ t.where = s.where
      /\ t.ress = [i \in Entries |-> IF s.ress[i].tentative = p
                                     THEN [s.ress[i] EXCEPT !.tentative = NONE, !.committed = TRUE]
                                     ELSE s.ress[i]]
  BY <1>3 DEF zhe_uristore_commit_tentative
<1>5. \A i \in Entries : t.ress[i].rid = s.ress[i].rid
  <2> SUFFICES ASSUME NEW i \in Entries PROVE t.ress[i].rid = s.ress[i].rid
    OBVIOUS
  <2> PICK r : r = s.ress[i]
    OBVIOUS
  <2>1. r = [rid |-> r.rid, committed |-> r.committed, tentative |-> r.tentative, peers |-> r.peers]
    BY <1>3 DEF ResRecords
  <2>2. t.ress[i] = r \/ t.ress[i] = [r EXCEPT !.tentative = NONE, !.committed = TRUE]
    BY <1>4
  <2> QED
    BY <2>1, <2>2
<1>6. SameUse(s, t)
  BY <1>4, <1>5 DEF SameUse
<1> QED
  BY <1>2, <1>6, BySelfStays DEF Alike

\* Storing what is there already changes no name, and only a tentative
\* declaration is told USR_OK.
LEMMA StoreKnown ==
  ASSUME NEW s, StoreOK(s), AllBySelf(s), NEW p \in Peers \cup {SELF}, NEW rid \in Rids,
         NEW uri \in Uris, NEW tentative \in BOOLEAN, tentative => p \in Peers,
         lookup_rid(s, rid) # {}
  PROVE  LET r == zhe_uristore_store(s, p, rid, uri, tentative)
         IN  Alike(s, r.s) /\ (r.res = "USR_OK" => tentative)
<1> PICK r : r = zhe_uristore_store(s, p, rid, uri, tentative)
  OBVIOUS
<1>0. Kept(s, r.s)
  BY StoreIs
<1>1. KeepsBut({}, s, r.s) /\ StoreOK(r.s) /\ SELF \notin {}
  BY <1>0 DEF Kept
<1>2. SameUse(s, r.s) /\ (r.res = "USR_OK" => tentative)
  <2>1. CASE \E i \in lookup_rid(s, rid) : UriOf(s, i) # uri
    BY <2>1 DEF zhe_uristore_store, Result, SameUse
  <2>2. CASE ~ (\E i \in lookup_rid(s, rid) : UriOf(s, i) # uri)
    <3> PICK i : i = CHOOSE j \in lookup_rid(s, rid) : TRUE
      OBVIOUS
    <3>1. r = zhe_uristore_store_dup(s, i, p, tentative)
      BY <2>2 DEF zhe_uristore_store
    <3>2. i \in Entries /\ s.ress[i].rid # 0
      <4>1. i \in lookup_rid(s, rid)
        OBVIOUS
      <4> QED
        BY <4>1, LookupIs, Consts
    <3>3. s.ress[i].committed
      BY <3>2, BySelfIs
    <3>4. r.s = s \/ \E row : r.s = [s EXCEPT !.ress[i] = row] /\ row.rid = s.ress[i].rid
      <4> PICK row0 : row0 = s.ress[i]
        OBVIOUS
      <4>1. row0 = [rid |-> row0.rid, committed |-> row0.committed, tentative |-> row0.tentative,
                    peers |-> row0.peers]
        BY <3>2 DEF StoreOK, RowOK, ResRecords
      <4>2. CASE tentative /\ p \in row0.peers
        BY <3>1, <4>2 DEF zhe_uristore_store_dup, Result
      <4>3. CASE tentative /\ p \notin row0.peers
        <5>1. r = zhe_uristore_record_tentative(s, i, p)
          BY <3>1, <4>3 DEF zhe_uristore_store_dup
        <5>2. \E loser : r = Result(RecordWinner(s, i, p, loser), "USR_OK", loser)
          BY <5>1 DEF zhe_uristore_record_tentative
        <5> PICK loser : r = Result(RecordWinner(s, i, p, loser), "USR_OK", loser)
          BY <5>2
        <5>21. r.s = RecordWinner(s, i, p, loser)
          BY DEF Result
        <5> PICK row : row = Winner(row0, p, loser)
          OBVIOUS
        <5>3. row.rid = row0.rid
          BY <4>1 DEF Winner
        <5>4. r.s = [s EXCEPT !.ress[i] = row]
          BY <5>21 DEF RecordWinner, Winner
        <5> QED
          BY <5>3, <5>4
      <4>4. CASE ~ tentative
        <5> PICK P : P = row0.peers \cup {p}
          OBVIOUS
        <5> PICK T : T = IF row0.tentative = p THEN NONE ELSE row0.tentative
          OBVIOUS
        <5>0. PICK row : row = [row0 EXCEPT !.peers = P, !.tentative = T, !.committed = TRUE]
          OBVIOUS
        <5>1. r.s = [s EXCEPT !.ress[i] = row]
          BY <3>1, <4>4, <5>0 DEF zhe_uristore_store_dup, Result
        <5>2. row = [rid |-> row0.rid, committed |-> TRUE, tentative |-> T, peers |-> P]
          BY <4>1, <5>0, ThreeFields
        <5>3. row.rid = row0.rid
          BY <5>2
        <5> QED
          BY <5>1, <5>3
      <4> QED
        BY <4>2, <4>3, <4>4
    <3>5. r.res = "USR_OK" => tentative
      BY <3>1, <3>3 DEF zhe_uristore_store_dup, Result
    <3>6. s = [b |-> s.b, ress |-> s.ress, where |-> s.where, used |-> s.used, free |-> s.free]
          /\ s.ress \in [Entries -> ResRecords]
      BY DEF StoreOK
    <3>7. SameUse(s, r.s)
      BY <3>2, <3>4, <3>6 DEF SameUse
    <3> QED
      BY <3>5, <3>7
  <2> QED
    BY <2>1, <2>2
<1>3. AllBySelf(r.s)
  BY <1>1, <1>2, BySelfStays
<1> QED
  BY <1>1, <1>2, <1>3 DEF Alike

\* t is s with one more resource, declared by the node itself in entry i
OneMore(s, t, i, rid, uri) ==
    /\ s.ress[i].rid = 0 /\ t.ress[i].rid = rid /\ Others(s, t, i)
    /\ UriOf(t, i) = uri /\ \A j \in Taken(s) : UriOf(t, j) = UriOf(s, j)
    /\ StoreOK(t) /\ AllBySelf(t) /\ BlocksOK(t)

LEMMA StoreFresh ==
  ASSUME NEW s, StoreOK(s), AllBySelf(s), BlocksOK(s), NEW rid \in Rids, NEW uri \in Uris,
         lookup_rid(s, rid) = {},
         NEW r, r = zhe_uristore_store(s, SELF, rid, uri, FALSE)
  PROVE  IF r.res = "USR_OK" THEN \E i \in Entries : OneMore(s, r.s, i, rid, uri) ELSE r.s = s
<1>1. CASE s.free = <<>>
  BY <1>1 DEF zhe_uristore_store, Result
<1>2. CASE s.free # <<>> /\ AllocResult(s.b, UriLen[uri]) \in {"IAR_NOSPACE", "IAR_AGAIN"}
  BY <1>2 DEF zhe_uristore_store, zhe_uristore_store_new, Result
<1>3. CASE s.free # <<>> /\ AllocResult(s.b, UriLen[uri]) \notin {"IAR_NOSPACE", "IAR_AGAIN"}
  <2>a. PICK i : i = Head(s.free)
    OBVIOUS
  <2>b. PICK t : t = r.s
    OBVIOUS
  <2>c. PICK row : row = [rid |-> rid, committed |-> TRUE, tentative |-> NONE, peers |-> {SELF}]
    OBVIOUS
  <2>d. PICK b : b = zhe_icgcb_alloc(s.b, UriLen[uri], i, uri)
    OBVIOUS
  <2>e. PICK where : where = [s.where EXCEPT ![i] = s.b.openspace]
    OBVIOUS
  <2>0. s.free # <<>>
    BY <1>3
  <2>1. AllocResult(s.b, UriLen[uri]) = "IAR_OK"
    BY <1>3 DEF AllocResult
  <2>2. /\ r.res = "USR_OK"
        /\ t = [b |-> b, ress |-> [s.ress EXCEPT ![i] = row], where |-> where,
                used |-> InsertByRid(s, i, rid), free |-> Tail(s.free)]
    BY <1>3, <2>1, <2>a, <2>b, <2>c, <2>d, <2>e DEF zhe_uristore_store, zhe_uristore_store_new, Result
  <2>3. /\ t.ress = [s.ress EXCEPT ![i] = row] /\ t.used = InsertByRid(s, i, rid) /\ t.free = Tail(s.free)
        /\ t.b = b /\ t.where = where
    BY <2>2
  <2>4. row.rid = rid /\ rid # 0 /\ SELF # NONE
    BY <2>c, Consts
  <2>5. \A j \in Entries : s.ress[j].rid # rid
    BY LookupIs
  <2>6. i \in Entries /\ s.ress[i].rid = 0
    BY <2>0, <2>3, <2>4, <2>5, <2>a, EntryTaken
  <2>7. s.ress \in [Entries -> ResRecords]
    BY DEF StoreOK
  <2>8. t.ress[i] = row /\ Others(s, t, i)
    BY <2>3, <2>6, <2>7 DEF Others
  <2>9. NewUse(s, t, i, uri)
    <3>1. t.ress[i].rid # 0
      BY <2>4, <2>8
    <3> QED
      BY <2>1, <2>3, <2>6, <2>8, <2>d, <2>e, <3>1 DEF NewUse, Others
  <2>10. BlocksOK(t) /\ UriOf(t, i) = uri /\ \A j \in Taken(s) : UriOf(t, j) = UriOf(s, j)
    BY <2>6, <2>9, BlockTaken
  <2>11. StoreOK(t)
    <3>1. Kept(s, r.s)
      BY StoreIs
    <3> QED
      BY <2>b, <3>1 DEF Kept
  <2>12. AllBySelf(t)
    <3>1. Commits(row, SELF)
      BY <2>4, <2>c DEF Commits
    <3> QED
      BY <2>8, <3>1 DEF AllBySelf, Others
  <2>13. OneMore(s, t, i, rid, uri)
    BY <2>4, <2>6, <2>8, <2>10, <2>11, <2>12 DEF OneMore
  <2> QED
    BY <2>2, <2>6, <2>13, <2>b
<1> QED
  BY <1>1, <1>2, <1>3

-----------------------------------------------------------------------------
(* The invariant, and what a step may withdraw. *)

StoreInv == StoreOK(store) /\ BlocksOK(store) /\ failed \in [Peers -> BOOLEAN]

LEMMA InitOK == Init => StoreInv
<1> SUFFICES ASSUME Init PROVE StoreInv
  OBVIOUS
<1>1. store = [b |-> zhe_icgcb_init, ress |-> [i \in Entries |-> FreeEntry],
               where |-> [i \in Entries |-> 0], used |-> <<>>, free |-> [i \in Entries |-> i]]
  BY DEF Init, zhe_uristore_init
<1>2. /\ store.ress = [i \in Entries |-> FreeEntry] /\ store.used = <<>>
      /\ store.free = [i \in Entries |-> i]
      /\ store = [b |-> store.b, ress |-> store.ress, where |-> store.where,
                  used |-> store.used, free |-> store.free]
  BY <1>1
<1>3. FreeEntry \in ResRecords /\ FreeEntry.rid = 0
  BY FreeRow DEF RowOK, FreeEntry
<1>4. store.free \in Seq(Entries) /\ Len(store.free) = MAX_RESOURCES
  BY <1>2, Consts DEF Entries
<1>5. OrderOK(store)
  <2>1. store.used \in Seq(Entries) /\ Len(store.used) = 0 /\ \A k \in 1 .. 0 : FALSE
    BY <1>2
  <2>2. \A i \in Entries : store.ress[i].rid = 0
    BY <1>2, <1>3
  <2>3. \A k \in 1 .. Len(store.free) : store.free[k] = k
    BY <1>2, <1>4 DEF Entries
  <2>4. \A i \in Entries : i \in 1 .. Len(store.free)
    BY <1>4 DEF Entries
  <2> QED
    BY <1>4, <2>1, <2>2, <2>3, <2>4 DEF OrderOK
<1>6. BlocksOK(store)
  <2>1. Taken(store) = {} /\ store.b = zhe_icgcb_init /\ store.where = [i \in Entries |-> 0]
    BY <1>1, <1>2, <1>3 DEF Taken
  <2> PICK ur : ur = [i \in Entries |-> 0]
    OBVIOUS
  <2>2. ur = [i \in Entries |-> ur[i]]
    OBVIOUS
  <2>3. BufOK(zhe_icgcb_init, [i \in Entries |-> 0], {}, ur)
    BY <2>2, InitLaid
  <2>4. BufOK(store.b, store.where, Taken(store), ur)
    BY <2>1, <2>3
  <2> QED
    BY <2>4 DEF BlocksOK
<1> QED
  BY <1>2, <1>3, <1>5, <1>6, FreeRow DEF StoreInv, StoreOK, Init

\* the end of the session of a peer
EndsSession(s, t, f) == \E p \in Peers : ResetDone(s, t, p) /\ ~ f[p]

StepOK(t, f) ==
    /\ f \in [Peers -> BOOLEAN]
    /\ Kept(store, t) \/ EndsSession(store, t, f)

LEMMA KeptTwice ==
  ASSUME NEW s, NEW t, NEW u, Kept(s, t), Kept(t, u)
  PROVE  Kept(s, u)
BY DEF Kept, KeepsBut

LEMMA KeptThenReset ==
  ASSUME NEW s, NEW t, NEW u, NEW p, Kept(s, t), ResetDone(t, u, p)
  PROVE  ResetDone(s, u, p)
BY DEF Kept, KeepsBut, ResetDone

LEMMA ClosedIs ==
  ASSUME StoreInv, NEW p \in Peers, NEW s, Kept(store, s), Closed(p, s)
  PROVE  StepOK(store', failed')
<1>1. StoreOK(s) /\ p # NONE
  BY Consts DEF Kept
<1>2. ResetDone(s, zhe_uristore_reset_peer(s, p), p)
  BY <1>1, ResetIs
<1>3. ResetDone(store, store', p)
  BY <1>2, KeptThenReset DEF Closed
<1>4. failed' \in [Peers -> BOOLEAN] /\ ~ failed'[p]
  BY DEF Closed, StoreInv
<1> QED
  BY <1>3, <1>4 DEF StepOK, EndsSession

LEMMA RefuseIs ==
  ASSUME StoreInv, NEW p \in Peers, NEW s, Kept(store, s), Refuse(p, s)
  PROVE  StepOK(store', failed')
<1>1. StoreOK(s) /\ p # NONE
  BY Consts DEF Kept
<1>2. Kept(s, zhe_uristore_abort_tentative(s, p))
  BY <1>1, AbortIs
<1>3. Kept(store, store')
  BY <1>2, KeptTwice DEF Refuse
<1> QED
  BY <1>3 DEF StepOK, Refuse, StoreInv

LEMMA NextOK ==
  ASSUME StoreInv, [Next]_vars
  PROVE  StepOK(store', failed')
<1>0. StoreOK(store) /\ failed \in [Peers -> BOOLEAN] /\ Kept(store, store)
  BY DEF StoreInv, Kept, KeepsBut
<1>1. \A r \in Resources : r[1] \in Rids /\ r[2] \in Uris
  BY StoreAssumption DEF Rids
<1>2. ASSUME NEW p \in Peers, NEW r \in Resources, NEW tentative \in BOOLEAN,
             HandleResource(p, r[1], r[2], tentative)
      PROVE  StepOK(store', failed')
  <2> PICK x : x = zhe_uristore_store(store, p, r[1], r[2], tentative)
    OBVIOUS
  <2> PICK errors : errors = IF x.res \in {"USR_NOSPACE", "USR_MISMATCH"} THEN Note(p)
                             ELSE IF x.loser # NONE THEN Note(x.loser)
                             ELSE failed
    OBVIOUS
  <2>1. \/ Refuse(p, x.s) \/ Closed(p, x.s)
        \/ store' = x.s /\ failed' = errors
    BY <1>2 DEF HandleResource
  <2>2. Kept(store, x.s)
    BY <1>0, <1>1, StoreIs
  <2>3. errors \in [Peers -> BOOLEAN]
    BY <1>0 DEF Note
  <2>4. CASE store' = x.s /\ failed' = errors
    BY <2>2, <2>3, <2>4 DEF StepOK
  <2> QED
    BY <2>1, <2>2, <2>4, RefuseIs, ClosedIs
<1>3. ASSUME NEW p \in Peers, NEW room \in BOOLEAN, HandleCommit(p, room)
      PROVE  StepOK(store', failed')
  <2>1. CASE ~ room
    BY <1>0, <1>3, <2>1, RefuseIs DEF HandleCommit
  <2>2. CASE room
    <3>1. store' = (IF failed[p] THEN zhe_uristore_abort_tentative(store, p)
                                 ELSE zhe_uristore_commit_tentative(store, p))
          /\ failed' = [failed EXCEPT ![p] = FALSE]
      BY <1>3, <2>2 DEF HandleCommit
    <3>2. Kept(store, store')
      BY <1>0, <3>1, AbortIs, CommitIs, Consts
    <3> QED
      BY <1>0, <3>1, <3>2 DEF StepOK
  <2> QED
    BY <2>1, <2>2
<1>4. ASSUME NEW p \in Peers, reset_peer(p) PROVE StepOK(store', failed')
  BY <1>0, <1>4, ClosedIs DEF reset_peer
<1>5. ASSUME NEW r \in Resources, zhe_declare_resource(r[1], r[2])
      PROVE  StepOK(store', failed')
  <2>1. Kept(store, zhe_uristore_store(store, SELF, r[1], r[2], FALSE).s)
    BY <1>0, <1>1, StoreIs
  <2> QED
    BY <1>0, <1>5, <2>1 DEF StepOK, zhe_declare_resource
<1>6. CASE Collect
  BY <1>0, <1>6, CollectIs DEF StepOK, Collect
<1>7. CASE UNCHANGED vars
  BY <1>0, <1>7 DEF StepOK, vars
<1> QED
  BY <1>2, <1>3, <1>4, <1>5, <1>6, <1>7 DEF Next

LEMMA StepInv ==
  ASSUME StoreInv, [Next]_vars
  PROVE  StoreInv'
<1>1. StepOK(store', failed')
  BY NextOK
<1>2. StoreOK(store') /\ BlocksOK(store') /\ failed' \in [Peers -> BOOLEAN]
  BY <1>1 DEF StepOK, EndsSession, Kept, ResetDone, StoreInv
<1> QED
  BY <1>2 DEF StoreInv

\* Every row of the table is well formed, the entries are in order, and the
\* buffer holds the URIs of those in use and nothing else.
THEOREM TableSound == Spec => []StoreInv
<1>1. Init => StoreInv
  BY InitOK
<1>2. StoreInv /\ [Next]_vars => StoreInv'
  BY StepInv
<1> QED
  BY <1>1, <1>2, PTL DEF Spec

-----------------------------------------------------------------------------
(* The properties of UriStore. *)

LEMMA InUseIs == StoreInv => InUse = Taken(store)
BY DEF InUse, Taken, ToSet, StoreInv, StoreOK, OrderOK

LEMMA SumOver == ASSUME NEW S, NEW f, f = [x \in S |-> f[x]] PROVE SumFunction(f) = Sum(f, S)
BY DEF SumFunction, Sum

LEMMA SoundFollows ==
  ASSUME NEW b, NEW where, NEW U, NEW ur, NEW H, Laid(b, where, U, ur, H)
  PROVE  Sound(b) /\ b.freespace \in 0 .. Sentinel * UNIT
<1> DEFINE e == b.e
<1>0. /\ Tiled(e, H) /\ Marks(b, H) /\ Counted(b, H, U, ur) /\ Cells(e) /\ b.freespace \in Nat
      /\ U \subseteq Entries /\ \A i \in U : ur[i] \in Uris
  BY DEF Laid, BufType, Known, Owned
<1>1. Headers(b) = H
  BY <1>0, HeadersAre
<1>2. /\ Sentinel \in Nat /\ UNIT \in Nat /\ UNIT > 1 /\ Sentinel \in H
      /\ \A h \in H : h \in Nat /\ h <= Sentinel /\ e[h].size \in Nat
  <2>1. \A h \in H : h \in Nat /\ h <= Sentinel /\ h \in Places
    BY <1>0, BlockEnds
  <2> QED
    BY <1>0, <2>1, BufferConsts DEF Tiled, Cells, Cell
<1>3. /\ b.firstfree \in H /\ b.openspace \in H /\ b.firstfree <= b.openspace
      /\ e[b.firstfree].ref = Nobody /\ e[b.openspace].ref = Nobody
      /\ \A h \in H : /\ h < b.firstfree => e[h].ref # Nobody
                      /\ h < b.openspace => e[h].size > UNIT
                      /\ h > b.openspace => h = Sentinel
  BY <1>0 DEF Marks
<1>4. e[Sentinel].size = 0 /\ e[Sentinel].ref = Nobody
      /\ \A h \in H : h # Sentinel => IsHeader(e[h])
  BY <1>0 DEF Tiled
<1> HIDE DEF e
<1>5. ASSUME NEW h \in H
      PROVE  /\ h < b.firstfree => e[h].ref # Nobody
             /\ h < b.openspace => e[h].size > UNIT
             /\ h >= b.openspace \/ h = b.firstfree => e[h].ref = Nobody
             /\ h > b.openspace => h = Sentinel
             /\ e[h].ref = Nobody => e[h].size % UNIT = 0
             /\ e[h].size = 0 <=> h = Sentinel
  <2>1. h >= b.openspace \/ h = b.firstfree => e[h].ref = Nobody
    <3>1. h \in Nat /\ b.openspace \in Nat
      BY <1>2, <1>3
    <3>2. h >= b.openspace => h > b.openspace \/ h = b.openspace
      BY <3>1
    <3> QED
      BY <1>3, <1>4, <3>2
  <2>2. e[h].ref = Nobody => e[h].size % UNIT = 0
    <3>1. CASE h = Sentinel
      BY <1>2, <1>4, <3>1
    <3>2. CASE h # Sentinel /\ e[h].ref = Nobody
      <4> DEFINE n == e[h].size
                 u == Units(n)
      <4>1. n = u * UNIT /\ u \in Nat
        BY <1>2, <1>4, <3>2, UnitsIs DEF IsHeader
      <4> HIDE DEF n, u
      <4>2. n % UNIT = 0
        BY <4>1, UnitsOfMultiple
      <4> QED
        BY <4>2 DEF n
    <3> QED
      BY <3>1, <3>2
  <2>3. e[h].size = 0 <=> h = Sentinel
    <3>1. h # Sentinel => e[h].size >= UNIT
      BY <1>4 DEF IsHeader
    <3> QED
      BY <1>2, <1>4, <3>1
  <2> QED
    BY <1>3, <2>1, <2>2, <2>3
<1>6. b.freespace = FreeSpace(b)
  <2> DEFINE F == FreeHeaders(e, H)
             f == [i \in {j \in H : e[j].ref = Nobody} |-> e[i].size]
  <2>1. F = {j \in H : e[j].ref = Nobody} /\ f = [i \in F |-> e[i].size]
    BY DEF FreeHeaders
  <2>2. FreeSpace(b) = SumFunction(f)
    BY <1>1 DEF FreeSpace, e
  <2> HIDE DEF f, F
  <2>3. f = [i \in F |-> f[i]]
    BY <2>1
  <2>4. SumFunction(f) = Sum(f, F)
    BY <2>3, SumOver
  <2>5. F \subseteq Places
    BY <1>0, <2>1 DEF Tiled
  <2>6. IsFiniteSet(F) /\ \A x \in F : SizeOf(e)[x] = e[x].size
    BY <1>0, <2>5, SizesAre
  <2>7. \A x \in F : f[x] = SizeOf(e)[x]
    BY <2>1, <2>6
  <2>8. Sum(f, F) = Sum(SizeOf(e), F)
    BY <2>6, <2>7, SumSame
  <2>9. b.freespace = FreeBytes(e, H)
    BY <1>0 DEF Counted, e
  <2> QED
    BY <2>2, <2>4, <2>8, <2>9 DEF FreeBytes, F
<1>7. b.freespace \in 0 .. Sentinel * UNIT
  <2>1. Sum(Needs(ur), U) \in Nat
    BY <1>0, NeedsSame
  <2>2. b.freespace + Sum(Needs(ur), U) = Sentinel * UNIT
    BY <1>0 DEF Counted
  <2> DEFINE all == Sentinel * UNIT
             n == Sum(Needs(ur), U)
  <2>3. all \in Nat
    BY <1>2
  <2> HIDE DEF all, n
  <2>4. b.freespace \in 0 .. all
    BY <1>0, <2>1, <2>2, <2>3 DEF n, all
  <2> QED
    BY <2>4 DEF all
<1> QED
  BY <1>1, <1>2, <1>3, <1>5, <1>6, <1>7 DEF Sound, e

\* The assertions of zhe-icgcb's check hold after every allocation, every free
\* and every collection, finished or not.
THEOREM BufferIsSound == Spec => []BufferSound
<1>1. StoreInv => BufferSound
  BY SoundFollows DEF StoreInv, BlocksOK, BufOK, BufferSound
<1> QED
  BY <1>1, TableSound, PTL

LEMMA UrisFollow == StoreInv => UrisIntact
<1> SUFFICES ASSUME StoreInv PROVE UrisIntact
  OBVIOUS
<1> PICK b : b = store.b
  OBVIOUS
<1> PICK where : where = store.where
  OBVIOUS
<1>1. PICK ur, H : Laid(b, where, Taken(store), ur, H)
  BY DEF StoreInv, BlocksOK, BufOK
<1>2. /\ Tiled(b.e, H) /\ Cells(b.e) /\ Owned(b.e, H, where, Taken(store), ur)
  BY <1>1 DEF Laid, BufType
<1>3. Headers(b) = H /\ InUse = Taken(store)
  BY <1>2, HeadersAre, InUseIs
<1>4. ASSUME NEW i \in InUse
      PROVE  /\ where[i] \in Headers(b) /\ b.e[where[i]].ref = i
             /\ \E uri \in Uris :
                   /\ zhe_icgcb_getsize(b, where[i]) = UriLen[uri]
                   /\ \A k \in 1 .. Units(zhe_icgcb_getsize(b, where[i])) :
                         b.e[where[i] + k].text = <<uri, k>>
  <2>1. where[i] \in H /\ ur[i] \in Uris /\ Holds(b.e, where[i], i, ur[i])
    BY <1>2, <1>3 DEF Owned
  <2>2. zhe_icgcb_getsize(b, where[i]) = UriLen[ur[i]]
    <3>1. UriLen[ur[i]] \in Nat /\ UNIT \in Nat
      BY <2>1, BufferConsts
    <3> QED
      BY <2>1, <3>1 DEF zhe_icgcb_getsize, Holds
  <2> QED
    BY <1>3, <2>1, <2>2 DEF Holds
<1>5. \A at \in Headers(b) : b.e[at].ref # Nobody => where[b.e[at].ref] = at
  BY <1>2, <1>3 DEF Owned
<1> QED
  BY <1>4, <1>5 DEF UrisIntact

\* Each resource has its whole URI where the store looks for it, wherever the
\* collector has moved it, and no block outlives its resource.
THEOREM UrisStay == Spec => []UrisIntact
BY TableSound, UrisFollow, PTL

LEMMA SpaceFollows == StoreInv => NoSpaceLost
<1> SUFFICES ASSUME StoreInv PROVE NoSpaceLost
  OBVIOUS
<1> PICK b : b = store.b
  OBVIOUS
<1> PICK U : U = Taken(store)
  OBVIOUS
<1>1. PICK ur, H : Laid(b, store.where, U, ur, H)
  BY DEF StoreInv, BlocksOK, BufOK
<1>2. /\ Owned(b.e, H, store.where, U, ur) /\ U \subseteq Entries /\ b.freespace \in Nat
      /\ b.freespace + Sum(Needs(ur), U) = Sentinel * UNIT /\ InUse = U
      /\ \A i \in U : ur[i] \in Uris
  BY <1>1, InUseIs DEF Laid, Known, Counted, BufType, Owned
<1>3. ASSUME NEW i \in U PROVE UriOf(store, i) = ur[i]
  <2>1. Holds(b.e, store.where[i], i, ur[i]) /\ UriLen[ur[i]] \in Nat /\ UriLen[ur[i]] >= 1
    BY <1>2, BufferConsts DEF Owned
  <2>2. Units(UriLen[ur[i]]) \in Nat /\ Units(UriLen[ur[i]]) > 0
    BY <2>1, UnitsIs
  <2>3. 1 \in 1 .. Units(UriLen[ur[i]])
    BY <2>2
  <2>4. b.e[store.where[i] + 1].text = <<ur[i], 1>>
    BY <2>1, <2>3 DEF Holds
  <2> QED
    BY <2>4 DEF UriOf
<1> DEFINE f == [i \in InUse |-> BlockSize(UriLen[UriOf(store, i)])]
<1>4. f = [i \in U |-> f[i]] /\ \A i \in U : f[i] = BlockSize(UriLen[ur[i]])
  BY <1>2, <1>3
<1>5. IsFiniteSet(U) /\ \A i \in U : Needs(ur)[i] = BlockSize(UriLen[ur[i]]) /\ Needs(ur)[i] \in Nat
  BY <1>2, NeedsAre
<1>6. NoSpaceLost <=> b.freespace = Sentinel * UNIT - SumFunction(f)
  BY DEF NoSpaceLost
<1> HIDE DEF f
<1>7. SumFunction(f) = Sum(f, U)
  BY <1>4, SumOver
<1>8. Sum(f, U) = Sum(Needs(ur), U)
  <2>1. \A i \in U : f[i] = Needs(ur)[i]
    BY <1>4, <1>5
  <2> QED
    BY <1>5, <2>1, SumSame
<1>9. Sum(Needs(ur), U) \in Nat
  BY <1>5, SumType
<1> DEFINE n == Sum(Needs(ur), U)
           all == Sentinel * UNIT
<1> HIDE DEF n, all
<1>10. b.freespace = all - n
  <2>1. n \in Nat /\ b.freespace + n = all /\ b.freespace \in Nat
    BY <1>2, <1>9 DEF n, all
  <2> QED
    BY <2>1
<1> QED
  BY <1>6, <1>7, <1>8, <1>10 DEF n, all

\* The space that is not taken by the URI of a resource is free: whatever was
\* dropped, moved or merged, none of it is lost.
THEOREM NoSpaceLeaks == Spec => []NoSpaceLost
BY TableSound, SpaceFollows, PTL

LEMMA FlagFollows == StoreInv => CommittedFlag
<1> SUFFICES ASSUME StoreInv, NEW i \in InUse
             PROVE  LET r == store.ress[i]
                    IN  /\ r.committed <=> (r.tentative = NONE \/ Cardinality(r.peers) > 1)
                        /\ r.tentative # NONE => r.tentative \in r.peers
  BY DEF CommittedFlag
<1>1. i \in Entries /\ store.ress[i].rid # 0
  BY DEF InUse, ToSet, StoreInv, StoreOK, OrderOK
<1>2. RowOK(store.ress[i])
  BY <1>1 DEF StoreInv, StoreOK
<1> QED
  BY <1>1, <1>2, OneMember DEF RowOK

\* The flag "committed" says what the comments in struct restable say: whatever
\* the peers declare, commit, lose to each other or take with them.
THEOREM FlagIsRight == Spec => []CommittedFlag
BY TableSound, FlagFollows, PTL

\* a consists of s and t
Consists(a, s, t) ==
    /\ DOMAIN a = 1 .. Len(s) + Len(t)
    /\ \A j \in 1 .. Len(s) : a[j] = s[j]
    /\ \A j \in Len(s) + 1 .. Len(s) + Len(t) : a[j] = t[j - Len(s)]

LEMMA Joined ==
  ASSUME NEW S, NEW s \in Seq(S), NEW t \in Seq(S)
  PROVE  Consists(s \o t, s, t)
<1>1. s \o t \in Seq(S) /\ Len(s \o t) = Len(s) + Len(t)
  BY ConcatProperties
<1>2. DOMAIN (s \o t) = 1 .. Len(s) + Len(t)
  BY <1>1
<1>3. ASSUME NEW j \in 1 .. Len(s) PROVE (s \o t)[j] = s[j]
  OBVIOUS
<1>4. ASSUME NEW j \in Len(s) + 1 .. Len(s) + Len(t) PROVE (s \o t)[j] = t[j - Len(s)]
  OBVIOUS
<1> QED
  BY <1>2, <1>3, <1>4 DEF Consists

LEMMA TypesFollow == StoreInv => TypeOK
<1> SUFFICES ASSUME StoreInv PROVE TypeOK
  OBVIOUS
<1> DEFINE n == Len(store.used)
           m == Len(store.free)
           all == store.used \o store.free
<1>1. /\ store.ress \in [Entries -> ResRecords] /\ failed \in [Peers -> BOOLEAN]
      /\ store.used \in Seq(Entries) /\ store.free \in Seq(Entries)
      /\ \A j, k \in 1 .. n : j < k => store.ress[store.used[j]].rid < store.ress[store.used[k]].rid
      /\ \A j, k \in 1 .. m : store.free[j] = store.free[k] => j = k
      /\ \A i \in Entries : (\E k \in 1 .. n : store.used[k] = i) <=> store.ress[i].rid # 0
      /\ \A i \in Entries : (\E k \in 1 .. m : store.free[k] = i) <=> store.ress[i].rid = 0
  BY DEF StoreInv, StoreOK, OrderOK
<1>2. n \in Nat /\ m \in Nat /\ DOMAIN store.used = 1 .. n
  BY <1>1
<1>3. /\ DOMAIN all = 1 .. n + m
      /\ \A j \in 1 .. n : all[j] = store.used[j]
      /\ \A j \in n + 1 .. n + m : all[j] = store.free[j - n]
  <2>1. Consists(all, store.used, store.free)
    BY <1>1, Joined
  <2> HIDE DEF all
  <2> QED
    BY <2>1 DEF Consists
<1>4. \A i \in Entries : i \in InUse <=> store.ress[i].rid # 0
  BY <1>1, <1>2 DEF InUse, ToSet
<1>5. \A j, k \in DOMAIN store.used :
          j < k => store.ress[store.used[j]].rid < store.ress[store.used[k]].rid
  BY <1>1, <1>2
<1>6. \A i \in Entries : store.ress[i].rid \in Nat
  BY <1>1, Consts DEF ResRecords
<1>7. ASSUME NEW j \in 1 .. n PROVE all[j] \in Entries /\ store.ress[all[j]].rid # 0
  <2>1. all[j] = store.used[j] /\ store.used[j] \in Entries
    <3> HIDE DEF all
    <3>1. all[j] = store.used[j]
      BY <1>3
    <3>2. j \in 1 .. Len(store.used)
      OBVIOUS
    <3>3. store.used[j] \in Entries
      BY <1>1, <3>2
    <3> QED
      BY <3>1, <3>3
  <2>2. store.ress[store.used[j]].rid # 0
    BY <1>1, <2>1
  <2> QED
    BY <2>1, <2>2
<1>8. \A j \in n + 1 .. n + m : j - n \in 1 .. m /\ store.ress[all[j]].rid = 0
  <2> SUFFICES ASSUME NEW j \in n + 1 .. n + m
               PROVE  j - n \in 1 .. m /\ store.ress[all[j]].rid = 0
    OBVIOUS
  <2>1. j - n \in 1 .. m
    <3> HIDE DEF n, m, all
    <3> QED
      BY <1>2
  <2> QED
    BY <1>1, <1>3, <2>1
<1> HIDE DEF n, m, all
<1>9. IsInjective(all)
  <2> SUFFICES ASSUME NEW j \in 1 .. n + m, NEW k \in 1 .. n + m, all[j] = all[k]
               PROVE  j = k
    BY <1>3 DEF IsInjective
  <2>1. j \in 1 .. n \/ j \in n + 1 .. n + m
    BY <1>2
  <2>2. k \in 1 .. n \/ k \in n + 1 .. n + m
    BY <1>2
  <2>3. CASE j \in 1 .. n /\ k \in 1 .. n
    <3>1. store.used[j] = store.used[k] /\ store.used[j] \in Entries
      BY <1>3, <1>7, <2>3
    <3>2. ~ (j < k) /\ ~ (k < j)
      BY <1>1, <1>6, <2>3, <3>1
    <3> QED
      BY <1>2, <2>3, <3>2
  <2>4. CASE j \in n + 1 .. n + m /\ k \in n + 1 .. n + m
    <3>1. store.free[j - n] = store.free[k - n]
      BY <1>3, <2>4
    <3>2. j - n = k - n
      BY <1>1, <1>8, <2>4, <3>1
    <3> QED
      BY <1>2, <3>2
  <2> QED
    BY <1>7, <1>8, <2>1, <2>2, <2>3, <2>4
<1>10. ToSet(all) = Entries
  <2>1. ToSet(all) \subseteq Entries
    <3> SUFFICES ASSUME NEW j \in 1 .. n + m PROVE all[j] \in Entries
      BY <1>3 DEF ToSet
    <3>1. CASE j \in 1 .. n
      BY <1>7, <3>1
    <3>2. CASE j \notin 1 .. n
      <4>1. j \in n + 1 .. n + m
        BY <1>2, <3>2
      <4>2. all[j] = store.free[j - n] /\ j - n \in 1 .. m
        BY <1>3, <1>8, <4>1
      <4> QED
        BY <1>1, <4>2 DEF m
    <3> QED
      BY <3>1, <3>2
  <2>2. ASSUME NEW i \in Entries PROVE \E j \in 1 .. n + m : all[j] = i
    <3>1. CASE store.ress[i].rid # 0
      <4>1. PICK k \in 1 .. n : store.used[k] = i
        BY <1>1, <3>1
      <4>2. k \in 1 .. n + m
        BY <1>2
      <4> QED
        BY <1>3, <4>1, <4>2
    <3>2. CASE store.ress[i].rid = 0
      <4>1. PICK k \in 1 .. m : store.free[k] = i
        BY <1>1, <3>2
      <4>2. k + n \in n + 1 .. n + m /\ k + n \in 1 .. n + m /\ (k + n) - n = k
        BY <1>2
      <4>3. all[k + n] = store.free[(k + n) - n]
        BY <1>3, <4>2
      <4> QED
        BY <4>1, <4>2, <4>3
    <3> QED
      BY <3>1, <3>2
  <2> QED
    BY <1>3, <2>1, <2>2 DEF ToSet
<1> QED
  BY <1>1, <1>4, <1>5, <1>9, <1>10 DEF TypeOK, all, ResRecords

\* Every entry is in use or free, once, and those in use are in the order of
\* their rid, on which the binary search of lookup_rid_ress_idx rests.
THEOREM EntriesInOrder == Spec => []TypeOK
BY TableSound, TypesFollow, PTL

LEMMA CommittersAre ==
  ASSUME NEW s, StoreOK(s), NEW rid \in Rids, NEW q
  PROVE  q \in Committers(s, rid) <=> \E i \in Entries : s.ress[i].rid = rid /\ Commits(s.ress[i], q)
<1>1. lookup_rid(s, rid) = {i \in Entries : s.ress[i].rid = rid}
  BY LookupIs
<1> QED
  BY <1>1, Consts DEF Committers, Commits

\* the step that OnlyResetWithdraws speaks of
Withdraws ==
    \A rid \in Rids : \A p \in Committers(store, rid) \ Committers(store', rid) :
        /\ p # SELF
        /\ \A i \in Entries : p \notin store'.ress[i].peers
        /\ ~failed'[p]

LEMMA StepWithdraws ==
  ASSUME StoreInv, [Next]_vars
  PROVE  Withdraws
<1> SUFFICES ASSUME NEW rid \in Rids, NEW q \in Committers(store, rid) \ Committers(store', rid)
             PROVE  /\ q # SELF
                    /\ \A i \in Entries : q \notin store'.ress[i].peers
                    /\ ~failed'[q]
  BY DEF Withdraws
<1>1. StoreOK(store) /\ StepOK(store', failed')
  BY NextOK DEF StoreInv
<1>2. StoreOK(store')
  BY <1>1 DEF StepOK, EndsSession, Kept, ResetDone
<1>3. PICK i \in Entries : store.ress[i].rid = rid /\ Commits(store.ress[i], q)
  BY <1>1, CommittersAre
<1>4. ~ (Commits(store'.ress[i], q) /\ store'.ress[i].rid = rid)
  BY <1>2, CommittersAre
<1>5. ~ Kept(store, store')
  BY <1>3, <1>4 DEF Kept, KeepsBut
<1>6. PICK p \in Peers : ResetDone(store, store', p) /\ ~ failed'[p]
  BY <1>1, <1>5 DEF StepOK, EndsSession
<1>7. q = p
  BY <1>3, <1>4, <1>6 DEF ResetDone, KeepsBut
<1> QED
  BY <1>6, <1>7, Consts DEF ResetDone

\* What a peer has committed is withdrawn only by the end of its session, and
\* then all of it: no abort, lost conflict or commit of another peer does it.
THEOREM OnlyAnEndWithdraws == Spec => OnlyResetWithdraws
<1>1. StoreInv /\ [Next]_vars => Withdraws
  BY StepWithdraws
<1>2. Spec => [][Withdraws]_vars
  BY <1>1, TableSound, PTL DEF Spec
<1> QED
  BY <1>2, PTL DEF OnlyResetWithdraws, Withdraws

=============================================================================
