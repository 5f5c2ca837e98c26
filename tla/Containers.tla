----------------------------- MODULE Containers -----------------------------
(***************************************************************************)
(* The containers zhe keeps its tables in, against the sets they stand     *)
(* for: zhe-simpleset, a sorted array with binary search, and zhe-bitset,  *)
(* an array of bytes.  A set has the fields elems, a sequence, and count   *)
(* as its length.  Indices start at 0 as in the code, sequences at 1.      *)
(***************************************************************************)
EXTENDS Integers, SequencesExt, FiniteSetsExt

-----------------------------------------------------------------------------
(* zhe-simpleset *)

\* simpleset_search: whether key is in elems, and where it is or belongs
simpleset_search(elems, key) ==
    LET at[i \in 0 .. Len(elems), j \in 0 .. Len(elems)] ==
            LET m == i + (j - i) \div 2
            IN  IF i >= j THEN [found |-> FALSE, pos |-> j]
                ELSE IF key = elems[m + 1] THEN [found |-> TRUE, pos |-> m]
                ELSE IF key < elems[m + 1] THEN at[i, m]
                ELSE at[m + 1, j]
    IN  at[0, Len(elems)]

simpleset_contains(elems, key) == simpleset_search(elems, key).found

\* mutant: the elements after the new one are not moved up
OverwriteAt(elems, pos, key) == SubSeq(elems, 1, pos) \o <<key>> \o SubSeq(elems, pos + 2, Len(elems))
PlaceAt(elems, pos, key) == InsertAt(elems, pos + 1, key)

\* simpleset_insert: the new array and the result
simpleset_insert(elems, key, max) ==
    LET s == simpleset_search(elems, key)
    IN  IF s.found THEN [elems |-> elems, res |-> "SSIR_EXISTS"]
        ELSE IF Len(elems) = max THEN [elems |-> elems, res |-> "SSIR_NOSPACE"]
        ELSE [elems |-> PlaceAt(elems, s.pos, key), res |-> "SSIR_SUCCESS"]

\* simpleset_delete: the new array and the result
simpleset_delete(elems, key) ==
    LET s == simpleset_search(elems, key)
    IN  IF s.found THEN [elems |-> RemoveAt(elems, s.pos + 1), res |-> TRUE]
                   ELSE [elems |-> elems, res |-> FALSE]

\* The array that holds set S.
Sorted(S) == SetToSortSeq(S, <)

\* Whatever was inserted and deleted before, the sorted array answers like the
\* set: nothing is held twice, found where it is not, or lost at the limit.
SimpleSetIsSet(keys, max) ==
    \A S \in {T \in SUBSET keys : Cardinality(T) <= max} : \A key \in keys :
        LET elems == Sorted(S)
            ins == simpleset_insert(elems, key, max)
            del == simpleset_delete(elems, key)
        IN  /\ simpleset_contains(elems, key) <=> key \in S
            /\ ins.res = "SSIR_EXISTS" <=> key \in S
            /\ ins.res = "SSIR_NOSPACE" <=> key \notin S /\ Cardinality(S) = max
            /\ ins.elems = Sorted(IF ins.res = "SSIR_SUCCESS" THEN S \cup {key} ELSE S)
            /\ del.res <=> key \in S
            /\ del.elems = Sorted(S \ {key})

-----------------------------------------------------------------------------
(* zhe-bitset: a sequence of bytes, bit idx being bit idx % 8 of byte      *)
(* idx / 8.                                                                *)

Bit(byte, k) == (byte \div 2^k) % 2
Bytes(size) == (size + 7) \div 8

zhe_bitset_test(s, idx) == Bit(s[idx \div 8 + 1], idx % 8) # 0

zhe_bitset_set(s, idx) ==
    [s EXCEPT ![idx \div 8 + 1] = @ + (1 - Bit(@, idx % 8)) * 2^(idx % 8)]

zhe_bitset_clear(s, idx) ==
    [s EXCEPT ![idx \div 8 + 1] = @ - Bit(@, idx % 8) * 2^(idx % 8)]

zhe_popcnt8(x) == Cardinality({k \in 0 .. 7 : Bit(x, k) = 1})

zhe_bitset_count(s, size) == FoldSeq(LAMBDA x, n : n + zhe_popcnt8(x), 0, SubSeq(s, 1, Bytes(size)))

zhe_bitset_andnot(d, s, size) ==
    [i \in DOMAIN d |->
        IF i <= Bytes(size)
        THEN MapThenSumSet(LAMBDA k : Bit(d[i], k) * (1 - Bit(s[i], k)) * 2^k, 0 .. 7)
        ELSE d[i]]

\* the first bit of the first byte that is not 0
zhe_bitset_findfirst(s, size) ==
    LET some == {i \in 1 .. Bytes(size) : s[i] # 0}
    IN  IF some = {} THEN -1
        ELSE 8 * (Min(some) - 1) + Min({k \in 0 .. 7 : Bit(s[Min(some)], k) = 1})

\* zhe_bitset_iter_first and zhe_bitset_iter_next: the bits the iteration yields
zhe_bitset_iter(s, size) ==
    {cursor \in 0 .. 8 * Len(s) - 1 : cursor < size /\ zhe_bitset_test(s, cursor)}

\* The bytes that hold set S of numbers.
BytesOf(S, nbytes) ==
    [i \in 1 .. nbytes |->
        MapThenSumSet(LAMBDA k : IF 8 * (i - 1) + k \in S THEN 2^k ELSE 0, 0 .. 7)]

\* The bytes answer like the set of the bits: also when the size is not a
\* multiple of 8, in which case no bit from there on is ever set.
BitsetIsSet(size) ==
    LET bits == 0 .. size - 1
        bytes(S) == BytesOf(S, Bytes(size))
    IN  \A S \in SUBSET bits :
            /\ zhe_bitset_count(bytes(S), size) = Cardinality(S)
            /\ zhe_bitset_iter(bytes(S), size) = S
            /\ zhe_bitset_findfirst(bytes(S), size) = IF S = {} THEN -1 ELSE Min(S)
            /\ \A idx \in bits :
                  /\ zhe_bitset_test(bytes(S), idx) <=> idx \in S
                  /\ zhe_bitset_set(bytes(S), idx) = bytes(S \cup {idx})
                  /\ zhe_bitset_clear(bytes(S), idx) = bytes(S \ {idx})
                  /\ zhe_bitset_andnot(bytes(S), bytes({idx} \cup (bits \ S)), size)
                        = bytes(S \ {idx})
=============================================================================
