---------------------------- MODULE SeqNumProofs ----------------------------
(***************************************************************************)
(* What the wrapped sequence numbers say about the unwrapped ones: for     *)
(* numbers less than half the space apart, comparing the wrapped numbers   *)
(* with zhe_seq_lt and zhe_seq_le gives the order of the unwrapped ones,   *)
(* and for numbers less than the whole space apart, equality.              *)
(***************************************************************************)
EXTENDS SeqNum, TLAPS

\* Division with remainder by the (positive) size of the space.
LEMMA DivMod ==
    ASSUME NEW x \in Int
    PROVE  /\ x % SeqSpace \in Seqnums
           /\ \E q \in Int : x = q * SeqSpace + (x % SeqSpace)
<1> DEFINE S == SeqSpace
<1>1. S \in Nat /\ S > 0
  BY HalfSpaceAssumption DEF SeqSpace
<1> HIDE DEF S
<1>2. /\ x % S \in 0 .. (S - 1)
      /\ x \div S \in Int
      /\ x = (x \div S) * S + (x % S)
  BY <1>1
<1>3. x % S \in 0 .. (S - 1) /\ \E q \in Int : x = q * S + (x % S)
  BY <1>2
<1> QED
  BY <1>3 DEF S, Seqnums

\* The remainder is the only number of the space that differs from x by a
\* multiple of its size.
LEMMA ModUnique ==
    ASSUME NEW x \in Int, NEW q \in Int, NEW r \in Seqnums,
           x = q * SeqSpace + r
    PROVE  x % SeqSpace = r
<1> DEFINE S == SeqSpace
<1>1. S \in Nat /\ S > 0 /\ r \in 0 .. (S - 1)
  BY HalfSpaceAssumption DEF SeqSpace, Seqnums
<1>2. x = q * S + r
  OBVIOUS
<1>3. PICK d \in Int : x = d * S + (x % S)
  BY DivMod
<1>4. x % S \in 0 .. (S - 1)
  BY DivMod DEF Seqnums
<1> SUFFICES x % S = r
  OBVIOUS
<1> HIDE DEF S
<1>5. (d - q) * S = r - (x % S)
  BY <1>1, <1>2, <1>3, <1>4
<1>6. CASE d - q >= 1
  <2>1. (d - q) * S >= S
    BY <1>1, <1>6
  <2> QED
    BY <2>1, <1>1, <1>4, <1>5
<1>7. CASE d - q <= -1
  <2>1. (d - q) * S <= -S
    BY <1>1, <1>7
  <2> QED
    BY <2>1, <1>1, <1>4, <1>5
<1>8. CASE d = q
  <2> DEFINE m == x % S
             k == q * S
  <2>1. m \in Int /\ r \in Int /\ k \in Int
    BY <1>1, <1>4
  <2>2. k + r = k + m
    BY <1>2, <1>3, <1>8
  <2> HIDE DEF m, k
  <2>3. m = r
    BY <2>1, <2>2
  <2> QED
    BY <2>3 DEF m
<1> QED
  BY <1>1, <1>6, <1>7, <1>8

\* Adding to a wrapped number wraps the sum.
LEMMA AddWrapped ==
    ASSUME NEW x \in Int, NEW y \in Int
    PROVE  seq_add(x % SeqSpace, y) = (x + y) % SeqSpace
<1> DEFINE S == SeqSpace
           z == (x % S) + y
<1>1. S \in Nat /\ S > 0
  BY HalfSpaceAssumption DEF SeqSpace
<1>2. PICK q \in Int : x = q * S + (x % S)
  BY DivMod
<1>3. x % S \in Int /\ z \in Int
  BY DivMod DEF Seqnums
<1>4. PICK p \in Int : z = p * S + (z % S)
  BY DivMod, <1>3
<1>5. z % S \in Seqnums
  BY DivMod, <1>3
<1>6. x + y = (q + p) * S + (z % S)
  <2> DEFINE r == z % S
             c == x % S
  <2>1. r \in Int /\ c \in Int
    BY <1>5, <1>3 DEF Seqnums
  <2>2. x = q * S + c /\ c + y = p * S + r
    BY <1>2, <1>4
  <2> HIDE DEF r, c, S
  <2>3. x + y = (q + p) * S + r
    BY <2>1, <2>2, <1>1
  <2> QED
    BY <2>3 DEF r
<1>7. (x + y) % S = z % S
  BY <1>5, <1>6, ModUnique
<1> QED
  BY <1>7 DEF seq_add

\* The difference of two wrapped numbers is the wrapped difference.
LEMMA SubWrapped ==
    ASSUME NEW x \in Int, NEW y \in Int
    PROVE  seq_sub(x % SeqSpace, y % SeqSpace) = (x - y) % SeqSpace
<1> DEFINE S == SeqSpace
           a == x % S
           b == y % S
           z == a - b
<1>1. S \in Nat /\ S > 0
  BY HalfSpaceAssumption DEF SeqSpace
<1>2. PICK q \in Int : x = q * S + a
  BY DivMod
<1>3. PICK p \in Int : y = p * S + b
  BY DivMod
<1>4. a \in Int /\ b \in Int /\ z \in Int
  BY DivMod DEF Seqnums
<1>5. PICK t \in Int : z = t * S + (z % S)
  BY DivMod, <1>4
<1>6. z % S \in Seqnums
  BY DivMod, <1>4
<1>7. x - y = (q - p + t) * S + (z % S)
  <2> DEFINE r == z % S
  <2>1. r \in Int
    BY <1>6 DEF Seqnums
  <2>2. a - b = t * S + r
    BY <1>5
  <2> HIDE DEF r, a, b, z, S
  <2>3. x - y = (q - p + t) * S + r
    BY <2>1, <2>2, <1>1, <1>2, <1>3, <1>4
  <2> QED
    BY <2>3 DEF r
<1>8. (x - y) % S = z % S
  BY <1>6, <1>7, ModUnique
<1> QED
  BY <1>8 DEF seq_sub

\* The wrapped difference of nearby numbers.
LEMMA SmallDifference ==
    ASSUME NEW d \in Int
    PROVE  /\ d \in 0 .. (SeqSpace - 1) => d % SeqSpace = d
           /\ d \in (-SeqSpace) .. (-1) => d % SeqSpace = d + SeqSpace
<1>1. SeqSpace \in Nat /\ SeqSpace > 0
  BY HalfSpaceAssumption DEF SeqSpace
<1>2. ASSUME d \in 0 .. (SeqSpace - 1) PROVE d % SeqSpace = d
  <2>1. d = 0 * SeqSpace + d /\ d \in Seqnums
    BY <1>1, <1>2 DEF Seqnums
  <2> QED
    BY <2>1, ModUnique
<1>3. ASSUME d \in (-SeqSpace) .. (-1) PROVE d % SeqSpace = d + SeqSpace
  <2>1. d = (-1) * SeqSpace + (d + SeqSpace) /\ d + SeqSpace \in Seqnums
    BY <1>1, <1>3 DEF Seqnums
  <2> QED
    BY <2>1, ModUnique
<1> QED
  BY <1>2, <1>3

\* zhe_seq_lt on wrapped numbers is < on numbers less than half the space apart.
THEOREM SeqLtCorrect ==
    ASSUME NEW x \in Int, NEW y \in Int, x - y \in (-HalfSpace) .. (HalfSpace - 1)
    PROVE  zhe_seq_lt(x % SeqSpace, y % SeqSpace) <=> x < y
<1>1. seq_sub(x % SeqSpace, y % SeqSpace) = (x - y) % SeqSpace
  BY SubWrapped
<1>2. HalfSpace \in Nat /\ HalfSpace > 0 /\ SeqSpace = 2 * HalfSpace
  BY HalfSpaceAssumption DEF SeqSpace
<1>3. CASE x < y
  <2>1. (x - y) % SeqSpace = x - y + SeqSpace
    BY <1>2, <1>3, SmallDifference
  <2> QED
    BY <1>1, <1>2, <1>3, <2>1 DEF zhe_seq_lt
<1>4. CASE ~(x < y)
  <2>1. (x - y) % SeqSpace = x - y
    BY <1>2, <1>4, SmallDifference
  <2> QED
    BY <1>1, <1>2, <1>4, <2>1 DEF zhe_seq_lt
<1> QED
  BY <1>3, <1>4

\* zhe_seq_le on wrapped numbers is <= on numbers less than half the space apart.
THEOREM SeqLeCorrect ==
    ASSUME NEW x \in Int, NEW y \in Int, x - y \in (-HalfSpace) .. (HalfSpace - 1)
    PROVE  zhe_seq_le(x % SeqSpace, y % SeqSpace) <=> x <= y
<1>1. seq_sub(x % SeqSpace, y % SeqSpace) = (x - y) % SeqSpace
  BY SubWrapped
<1>2. HalfSpace \in Nat /\ HalfSpace > 0 /\ SeqSpace = 2 * HalfSpace
  BY HalfSpaceAssumption DEF SeqSpace
<1>3. (x - y) % SeqSpace = 0 <=> x = y
  <2>1. CASE x < y
    BY <1>2, <2>1, SmallDifference
  <2>2. CASE ~(x < y)
    BY <1>2, <2>2, SmallDifference
  <2> QED
    BY <2>1, <2>2
<1> QED
  BY <1>1, <1>3, SeqLtCorrect DEF zhe_seq_le

\* Two numbers less than the whole space apart are equal if they are wrapped.
THEOREM SeqEqCorrect ==
    ASSUME NEW x \in Int, NEW y \in Int,
           x - y \in (1 - SeqSpace) .. (SeqSpace - 1),
           x % SeqSpace = y % SeqSpace
    PROVE  x = y
<1>1. SeqSpace \in Nat /\ SeqSpace > 0
  BY HalfSpaceAssumption DEF SeqSpace
<1>2. (x - y) % SeqSpace = (x - x) % SeqSpace
  BY SubWrapped
<1>3. (x - x) % SeqSpace = 0
  BY <1>1, SmallDifference
<1>4. CASE x < y
  BY <1>1, <1>2, <1>3, <1>4, SmallDifference
<1>5. CASE ~(x < y)
  BY <1>1, <1>2, <1>3, <1>5, SmallDifference
<1> QED
  BY <1>4, <1>5
=============================================================================
