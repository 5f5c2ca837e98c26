------------------------------- MODULE Icgcb -------------------------------
(***************************************************************************)
(* The buffer of zhe-icgcb: blocks are allocated at the high end of memory *)
(* and a garbage collector, a bounded amount of work at a time, moves      *)
(* blocks down over the free ones.                                         *)
(*                                                                         *)
(* Memory is an array of units, a unit being the size of a header.  A unit *)
(* holds a header or a piece of contents; reading one as the other is      *)
(* noticed by the properties.  What nobody will read is blank: the inside  *)
(* of a free block.  Sizes are in bytes, positions in units.               *)
(***************************************************************************)
EXTENDS Integers, Sequences, FiniteSetsExt, Functions

CONSTANTS
    UNIT,              \* sizeof(struct icgcb_hdr)
    URISPACE,          \* ZHE_MAX_URISPACE: bytes for blocks and the sentinel
    MAX_BLOCKS,        \* limit of a collection: blocks inspected
    MAX_BYTES,         \* limit of a collection: bytes moved
    Nobody             \* URIPOS_INVALID: the ref of a free block

ASSUME BufferAssumption ==
    /\ UNIT \in Nat /\ UNIT > 1
    /\ URISPACE \in Nat /\ URISPACE >= 2 * UNIT
    /\ MAX_BLOCKS \in Nat \ {0} /\ MAX_BYTES \in Nat \ {0}

Units(n) == (n + UNIT - 1) \div UNIT
alignup(n) == Units(n) * UNIT

Sentinel == (URISPACE - UNIT) \div UNIT

Header(size, ref) == [size |-> size, ref |-> ref, text |-> <<>>]
Contents(text) == [size |-> 1, ref |-> Nobody, text |-> text]
Blank == Contents(<<>>)

zhe_icgcb_init ==
    [freespace |-> Sentinel * UNIT, firstfree |-> 0, openspace |-> 0,
     e |-> [i \in 0 .. Sentinel |->
               IF i = 0 THEN Header(Sentinel * UNIT, Nobody)
               ELSE IF i = Sentinel THEN Header(0, Nobody) ELSE Blank]]

-----------------------------------------------------------------------------
(* Allocation and freeing. *)

BlockSize(size) == UNIT + alignup(size)

\* whether an allocation succeeds, may succeed later, or is hopeless
AllocResult(b, size) ==
    IF b.freespace < BlockSize(size) THEN "IAR_NOSPACE"
    ELSE IF b.e[b.openspace].size < BlockSize(size) THEN "IAR_AGAIN"
    ELSE "IAR_OK"

\* zhe_icgcb_alloc when it succeeds, and the copying of text into the block
zhe_icgcb_alloc(b, size, ref, text) ==
    LET at == b.openspace
        rest == b.e[at].size - BlockSize(size)
        next == IF rest < UNIT THEN Sentinel ELSE at + BlockSize(size) \div UNIT
    IN  [freespace |-> b.freespace - BlockSize(size),
         firstfree |-> IF b.firstfree = at THEN next ELSE b.firstfree,
         openspace |-> next,
         e |-> [i \in 0 .. Sentinel |->
                   IF i = at THEN Header(UNIT + size, ref)
                   ELSE IF i > at /\ i <= at + Units(size) THEN Contents(<<text, i - at>>)
                   ELSE IF i = next /\ rest >= UNIT THEN Header(rest, Nobody)
                   ELSE b.e[i]]]

FirstStays(b, at) == b.firstfree                                      \* mutant
FirstAfterFree(b, at) == IF at < b.firstfree THEN at ELSE b.firstfree

SizeAsUsed(size) == size                                              \* mutant
FreeSize(size) == alignup(size)

\* zhe_icgcb_free of the block whose header is at position at
zhe_icgcb_free(b, at) ==
    LET size == FreeSize(b.e[at].size)
    IN  [b EXCEPT !.e = [i \in 0 .. Sentinel |->
                            IF i = at THEN Header(size, Nobody)
                            ELSE IF i > at /\ i < at + Units(size) THEN Blank
                            ELSE b.e[i]],
                  !.freespace = @ + size,
                  !.firstfree = FirstAfterFree(b, at)]

zhe_icgcb_getsize(b, at) == b.e[at].size - UNIT

-----------------------------------------------------------------------------
(* Garbage collection: c is the buffer b, the positions where the owner of *)
(* each block believes it to be, and the bytes moved so far.               *)

ToldNothing(where, ref, at) == where                                  \* mutant
Told(where, ref, at) == [where EXCEPT ![ref] = at]

\* the block behind the first free one is in use and moves down over it
MoveDown(c) ==
    LET b == c.b
        at == b.firstfree
        by == b.e[at].size \div UNIT
        moved == b.e[at + by]
        n == Units(moved.size)
    IN  [b |-> [b EXCEPT !.firstfree = at + n,
                         !.e = [i \in 0 .. Sentinel |->
                                   IF i = at + n THEN Header(b.e[at].size, Nobody)
                                   ELSE IF i >= at /\ i < at + n THEN b.e[i + by]
                                   ELSE IF i > at + n /\ i < at + n + by THEN Blank
                                   ELSE b.e[i]]],
         where |-> Told(c.where, moved.ref, at),
         bytes |-> c.bytes + moved.size]

\* the block behind the first free one is free, too, or the sentinel
Merge(c) ==
    LET b == c.b
        at == b.firstfree
        next == at + b.e[at].size \div UNIT
    IN  [c EXCEPT !.b.e = [b.e EXCEPT ![next] = IF next = Sentinel THEN @ ELSE Blank,
                                      ![at].size = @ + b.e[next].size],
                  !.b.openspace = IF next = @ THEN at ELSE @]

GcStep(c) ==
    LET at == c.b.firstfree
        next == at + c.b.e[at].size \div UNIT
    IN  IF c.b.e[next].ref # Nobody THEN MoveDown(c) ELSE Merge(c)

\* zhe_icgcb_gc
zhe_icgcb_gc(b, where) ==
    LET run[k \in 0 .. MAX_BLOCKS] ==
            IF k = 0 THEN [b |-> b, where |-> where, bytes |-> 0]
            ELSE LET c == run[k-1]
                 IN  IF c.b.firstfree # c.b.openspace /\ c.bytes < MAX_BYTES
                     THEN GcStep(c) ELSE c
    IN  run[MAX_BLOCKS]

-----------------------------------------------------------------------------
(* The assertions of check. *)

\* the positions of headers, found by walking from block to block
Headers(b) ==
    LET walk[k \in 0 .. Sentinel] ==
            IF k = 0 THEN 0
            ELSE LET at == walk[k-1]
                 IN  IF at >= Sentinel THEN at ELSE at + Units(b.e[at].size)
    IN  {walk[k] : k \in 0 .. Sentinel} \cap (0 .. Sentinel)

FreeSpace(b) ==
    SumFunction([i \in {j \in Headers(b) : b.e[j].ref = Nobody} |-> b.e[i].size])

Sound(b) ==
    /\ b.firstfree <= b.openspace
    /\ {b.firstfree, b.openspace, Sentinel} \subseteq Headers(b)
    /\ \A i \in Headers(b) :
          /\ i < b.firstfree => b.e[i].ref # Nobody
          /\ i < b.openspace => b.e[i].size > UNIT
          /\ i >= b.openspace \/ i = b.firstfree => b.e[i].ref = Nobody
          /\ i > b.openspace => i = Sentinel
          /\ b.e[i].ref = Nobody => b.e[i].size % UNIT = 0
          /\ b.e[i].size = 0 <=> i = Sentinel
    /\ b.freespace = FreeSpace(b)
=============================================================================
