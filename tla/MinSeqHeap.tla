----------------------------- MODULE MinSeqHeap -----------------------------
(***************************************************************************)
(* zhe_minseqheap: the binary heap (BINHEAP package) that orders peers by  *)
(* a sequence number, so that the smallest is found at once.               *)
(*                                                                         *)
(* A heap is a record: vs is the array of the peers in the heap (position  *)
(* i of the code is position i + 1 here), ks gives the key of each of      *)
(* them.  The inverse ix of vs is not kept: it is what IndexIn computes.   *)
(***************************************************************************)
EXTENDS SeqNum, Sequences, SequencesExt, Functions

EmptyHeap == [vs |-> <<>>, ks |-> <<>>]

Members(h) == ToSet(h.vs)
IndexIn(h, v) == CHOOSE i \in 1 .. Len(h.vs) : h.vs[i] = v
KeyAt(h, i) == h.ks[h.vs[i]]
Swap(h, i, j) == [h EXCEPT !.vs[i] = h.vs[j], !.vs[j] = h.vs[i]]

HeapMin(h) == KeyAt(h, 1)

\* heapify: the key at j moves down as long as a child has a smaller one
RECURSIVE Heapify(_, _)
Heapify(h, j) ==
    LET n == Len(h.vs)
        left == 2 * j
        k == IF left + 1 <= n /\ zhe_seq_lt(KeyAt(h, left + 1), KeyAt(h, left))
             THEN left + 1 ELSE left
    IN  IF left > n THEN h
        ELSE Heapify(IF zhe_seq_lt(KeyAt(h, k), KeyAt(h, j)) THEN Swap(h, j, k) ELSE h, k)

\* the loop of insert: the key at i moves up as long as its parent's is larger
RECURSIVE MoveUp(_, _)
MoveUp(h, i) ==
    IF i > 1 /\ zhe_seq_lt(KeyAt(h, i), KeyAt(h, i \div 2))
    THEN MoveUp(Swap(h, i, i \div 2), i \div 2)
    ELSE h

HeapInsert(h, v, k) ==
    MoveUp([vs |-> Append(h.vs, v),
            ks |-> [u \in Members(h) \cup {v} |-> IF u = v THEN k ELSE h.ks[u]]],
           Len(h.vs) + 1)

\* whether raisekey finds the new key worth recording
Raises(h, v, nk) == v \in Members(h) /\ zhe_seq_lt(h.ks[v], nk)

\* mutant: the key is raised in place
RaiseInPlace(h, v, nk) == IF Raises(h, v, nk) THEN [h EXCEPT !.ks[v] = nk] ELSE h

HeapRaiseKey(h, v, nk) ==
    IF Raises(h, v, nk) THEN Heapify([h EXCEPT !.ks[v] = nk], IndexIn(h, v)) ELSE h

\* delete: the last peer takes the place of the one that leaves
HeapDelete(h, v) ==
    LET i == IndexIn(h, v)
        moved == [vs |-> Front([h.vs EXCEPT ![i] = Last(h.vs)]),
                  ks |-> Restrict(h.ks, Members(h) \ {v})]
    IN  IF i < Len(h.vs) THEN Heapify(moved, i) ELSE moved

\* the assertions of check
HeapOrdered(h) ==
    \A i \in 2 .. Len(h.vs) : ~zhe_seq_lt(KeyAt(h, i), KeyAt(h, i \div 2))
=============================================================================
