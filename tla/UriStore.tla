------------------------------ MODULE UriStore ------------------------------
(***************************************************************************)
(* The resources (pairs of a number rid and a URI) that a node and its     *)
(* peers have declared: zhe-uristore on top of the buffer of zhe-icgcb.    *)
(* Peers declare in transactions, tentatively at first; when two peers do  *)
(* so for the same rid, the one with the lower id wins.                    *)
(*                                                                         *)
(* A DECLARE packet with one declaration in it is one message.  A peer may *)
(* send anything at any time; that it repeats what was refused is one of   *)
(* the things it may do.  Publications and subscriptions are left out.     *)
(***************************************************************************)
EXTENDS Icgcb, SequencesExt

CONSTANTS
    Peers,             \* the peers, numbers in the order of their ids
    SELF,              \* URISTORE_PEERIDX_SELF
    NONE,              \* PEERIDX_INVALID, and other absent values
    MAX_RESOURCES,     \* ZHE_MAX_RESOURCES
    Uris, UriLen,      \* the URIs and their lengths
    Resources          \* the resources declared, pairs of a rid and a URI

\* URIPOS_INVALID is larger than any entry's number by a static assertion
ASSUME StoreAssumption ==
    /\ Peers \subseteq Nat /\ SELF \notin Peers /\ NONE \notin Peers \cup {SELF}
    /\ MAX_RESOURCES \in Nat \ {0} /\ Nobody \notin 1 .. MAX_RESOURCES
    /\ Resources \subseteq (Nat \ {0}) \X Uris
    /\ UriLen \in [Uris -> 1 .. URISPACE - 1]

VARIABLES
    store,             \* what the functions of zhe-uristore work on, see below
    failed             \* precommit[p].result: some error in p's transaction

vars == <<store, failed>>

Rids == {r[1] : r \in Resources}

(* store has the fields                                                    *)
(*   b      struct icgcb uris                                              *)
(*   ress   the table of resources, rid = 0 for a free entry               *)
(*   where  uripos of the entries, as the position of the header           *)
(*   used   ress_idx[0 .. nres-1], the entries in use in the order of rid  *)
(*   free   ress_idx[nres ..], the others                                  *)

Entries == 1 .. MAX_RESOURCES
FreeEntry == [rid |-> 0, committed |-> FALSE, tentative |-> NONE, peers |-> {}]

\* zhe_uristore_init
zhe_uristore_init ==
    [b |-> zhe_icgcb_init, ress |-> [i \in Entries |-> FreeEntry],
     where |-> [i \in Entries |-> 0], used |-> <<>>, free |-> [i \in Entries |-> i]]

lookup_rid(s, rid) == {i \in ToSet(s.used) : s.ress[i].rid = rid}

UriOf(s, i) == s.b.e[s.where[i] + 1].text[1]

-----------------------------------------------------------------------------
(* Storing.  The result is the new store, what zhe_uristore_store returns, *)
(* and the peer that lost its tentative declaration, if any.               *)

Result(s, res, loser) == [s |-> s, res |-> res, loser |-> loser]

LoserStays(s, i, p, loser) ==                                         \* mutant
    [s EXCEPT !.ress[i].peers = @ \cup {p},
              !.ress[i].tentative = IF loser = p THEN @ ELSE p]

\* p declares entry i tentatively, and loser is out of it
RecordWinner(s, i, p, loser) ==
    LET r == s.ress[i]
    IN  [s EXCEPT !.ress[i] = [r EXCEPT !.peers = (@ \cup {p}) \ {loser},
                                        !.tentative = IF loser = p THEN @ ELSE p]]

\* zhe_uristore_record_tentative
zhe_uristore_record_tentative(s, i, p) ==
    LET other == s.ress[i].tentative
        loser == IF other \in {NONE, p} THEN NONE ELSE IF p < other THEN other ELSE p
    IN  Result(RecordWinner(s, i, p, loser), "USR_OK", loser)

\* zhe_uristore_store_dup
zhe_uristore_store_dup(s, i, p, tentative) ==
    LET r == s.ress[i]
    IN  IF tentative /\ p \in r.peers THEN Result(s, "USR_DUPLICATE", NONE)
        ELSE IF tentative THEN zhe_uristore_record_tentative(s, i, p)
        ELSE Result([s EXCEPT !.ress[i] =
                        [r EXCEPT !.peers = @ \cup {p},
                                  !.tentative = IF @ = p THEN NONE ELSE @,
                                  !.committed = TRUE]],
                    IF r.committed THEN "USR_DUPLICATE" ELSE "USR_OK", NONE)

InsertLast(s, i, rid) == Append(s.used, i)                            \* mutant

\* ress_idx with entry i in its place in the order of rid
InsertByRid(s, i, rid) ==
    LET above == {k \in DOMAIN s.used : s.ress[s.used[k]].rid > rid}
    IN  InsertAt(s.used, Min(above \cup {Len(s.used) + 1}), i)

\* zhe_uristore_store_new
zhe_uristore_store_new(s, p, rid, uri, tentative) ==
    LET i == Head(s.free)
        res == AllocResult(s.b, UriLen[uri])
    IN  IF res = "IAR_NOSPACE" THEN Result(s, "USR_NOSPACE", NONE)
        ELSE IF res = "IAR_AGAIN" THEN Result(s, "USR_AGAIN", NONE)
        ELSE Result([b |-> zhe_icgcb_alloc(s.b, UriLen[uri], i, uri),
                     ress |-> [s.ress EXCEPT ![i] =
                                  [rid |-> rid, committed |-> ~tentative,
                                   tentative |-> IF tentative THEN p ELSE NONE,
                                   peers |-> {p}]],
                     where |-> [s.where EXCEPT ![i] = s.b.openspace],
                     used |-> InsertByRid(s, i, rid),
                     free |-> Tail(s.free)],
                    "USR_OK", NONE)

\* zhe_uristore_store, for a valid URI
zhe_uristore_store(s, p, rid, uri, tentative) ==
    IF \E i \in lookup_rid(s, rid) : UriOf(s, i) # uri
    THEN Result(s, "USR_MISMATCH", NONE)
    ELSE IF lookup_rid(s, rid) # {}
    THEN zhe_uristore_store_dup(s, CHOOSE i \in lookup_rid(s, rid) : TRUE, p, tentative)
    ELSE IF s.free = <<>> THEN Result(s, "USR_NOSPACE", NONE)
    ELSE zhe_uristore_store_new(s, p, rid, uri, tentative)

-----------------------------------------------------------------------------
(* Dropping and committing. *)

CommittedWithout(r) ==
    r.committed /\ ~(r.tentative # NONE /\ Cardinality(r.peers) = 1)

KeepBlock(s, i) == s.b                                                \* mutant
FreeBlock(s, i) == zhe_icgcb_free(s.b, s.where[i])

\* ress_idx_idx, the place of entry i in ress_idx
IndexOf(s, i) == CHOOSE k \in DOMAIN s.used : s.used[k] = i

\* zhe_uristore_drop_idx: p has nothing to do with entry i any more
zhe_uristore_drop_idx(s, p, i) ==
    LET r == [s.ress[i] EXCEPT !.peers = @ \ {p},
                               !.tentative = IF @ = p THEN NONE ELSE @]
    IN  IF r.peers # {}
        THEN [s EXCEPT !.ress[i] = [r EXCEPT !.committed = CommittedWithout(r)]]
        ELSE [s EXCEPT !.ress[i] = FreeEntry, !.b = FreeBlock(s, i), !.where[i] = 0,
                       !.used = RemoveAt(@, IndexOf(s, i)), !.free = <<i>> \o @]

\* p has nothing to do any more with a set of entries, in the order of ress_idx
DropAll(s, p, entries) ==
    LET drop[n \in 0 .. Len(s.used)] ==
            IF n = 0 THEN s
            ELSE IF s.used[n] \in entries THEN zhe_uristore_drop_idx(drop[n-1], p, s.used[n])
            ELSE drop[n-1]
    IN  drop[Len(s.used)]

zhe_uristore_reset_peer(s, p) ==
    DropAll(s, p, {i \in ToSet(s.used) : p \in s.ress[i].peers})

\* mutant: what p had committed before is dropped, too
AbortEverything(s, p) == zhe_uristore_reset_peer(s, p)

zhe_uristore_abort_tentative(s, p) ==
    DropAll(s, p, {i \in ToSet(s.used) : s.ress[i].tentative = p})

zhe_uristore_commit_tentative(s, p) ==
    [s EXCEPT !.ress = [i \in Entries |->
        IF @[i].tentative = p THEN [@[i] EXCEPT !.tentative = NONE, !.committed = TRUE]
                              ELSE @[i]]]

zhe_uristore_gc(s) ==
    LET c == zhe_icgcb_gc(s.b, s.where) IN [s EXCEPT !.b = c.b, !.where = c.where]

-----------------------------------------------------------------------------
Init ==
    /\ store = zhe_uristore_init
    /\ failed = [p \in Peers |-> FALSE]

\* reset_peer, as far as declarations are concerned
Closed(p, s) ==
    /\ store' = zhe_uristore_reset_peer(s, p)
    /\ failed' = [failed EXCEPT ![p] = FALSE]

reset_peer(p) == Closed(p, store)

\* handle_mdeclare in mode DIM_ABORT: the packet will be repeated
Refuse(p, s) ==
    /\ store' = zhe_uristore_abort_tentative(s, p)
    /\ UNCHANGED failed

\* zhe_decl_note_error_somepeer; which error it is only matters to the peer
Note(p) == [failed EXCEPT ![p] = TRUE]

\* handle_dresource, with handle_mdeclare around it.  A declaration that is not
\* tentative comes with the C flag: after an error the session is closed.
HandleResource(p, rid, uri, tentative) ==
    LET r == zhe_uristore_store(store, p, rid, uri, tentative)
        errors == IF r.res \in {"USR_NOSPACE", "USR_MISMATCH"} THEN Note(p)
                  ELSE IF r.loser # NONE THEN Note(r.loser)
                  ELSE failed
    IN  IF r.res = "USR_AGAIN" \/ r.loser = p THEN Refuse(p, r.s)
        ELSE IF ~tentative /\ errors[p] THEN Closed(p, r.s)
        ELSE store' = r.s /\ failed' = errors

\* handle_dcommit; room: whether the window has room for the DRESULT
HandleCommit(p, room) ==
    IF ~room THEN Refuse(p, store)
    ELSE /\ store' = IF failed[p] THEN zhe_uristore_abort_tentative(store, p)
                                  ELSE zhe_uristore_commit_tentative(store, p)
         /\ failed' = [failed EXCEPT ![p] = FALSE]

\* zhe_declare_resource
zhe_declare_resource(rid, uri) ==
    /\ store' = zhe_uristore_store(store, SELF, rid, uri, FALSE).s
    /\ UNCHANGED failed

\* zhe_housekeeping
Collect ==
    /\ store' = zhe_uristore_gc(store)
    /\ UNCHANGED failed

Next ==
    \/ \E p \in Peers, r \in Resources, tentative \in BOOLEAN :
          HandleResource(p, r[1], r[2], tentative)
    \/ \E p \in Peers, room \in BOOLEAN : HandleCommit(p, room)
    \/ \E p \in Peers : reset_peer(p)
    \/ \E r \in Resources : zhe_declare_resource(r[1], r[2])
    \/ Collect

Spec == Init /\ [][Next]_vars

\* zhe_housekeeping is called over and over
FairSpec == Spec /\ WF_vars(Collect)

-----------------------------------------------------------------------------
(* Properties. *)

InUse == ToSet(store.used)

\* Entries are in use or free, and those in use are in the order of their rid.
TypeOK ==
    /\ store.ress \in [Entries -> [rid : Rids \cup {0}, committed : BOOLEAN,
                                   tentative : Peers \cup {NONE},
                                   peers : SUBSET (Peers \cup {SELF})]]
    /\ IsInjective(store.used \o store.free) /\ ToSet(store.used \o store.free) = Entries
    /\ \A i \in Entries : i \in InUse <=> store.ress[i].rid # 0
    /\ \A i, j \in DOMAIN store.used :
          i < j => store.ress[store.used[i]].rid < store.ress[store.used[j]].rid
    /\ failed \in [Peers -> BOOLEAN]

\* The assertions of zhe-icgcb's check hold after every allocation, every
\* sequence of frees and every collection, finished or not.
BufferSound == Sound(store.b) /\ store.b.freespace \in 0 .. Sentinel * UNIT

\* zhe_uristore_geturi_for_idx finds the whole URI of every resource, wherever
\* the collector has moved it, and every block in use is that of a resource.
UrisIntact ==
    /\ \A i \in InUse :
          LET at == store.where[i]
              len == zhe_icgcb_getsize(store.b, at)
          IN  /\ at \in Headers(store.b) /\ store.b.e[at].ref = i
              /\ \E uri \in Uris :
                    /\ len = UriLen[uri]
                    /\ \A k \in 1 .. Units(len) : store.b.e[at + k].text = <<uri, k>>
    /\ \A at \in Headers(store.b) :
          store.b.e[at].ref # Nobody => store.where[store.b.e[at].ref] = at

\* Space that is not taken by the URI of a resource can be allocated again.
NoSpaceLost ==
    store.b.freespace
        = Sentinel * UNIT - SumFunction([i \in InUse |-> BlockSize(UriLen[UriOf(store, i)])])

\* The comments in struct restable: "committed" says the same as "not tentative
\* or declared by several peers", and the tentative declaration is by one of
\* the peers, all others having committed theirs.
CommittedFlag ==
    \A i \in InUse :
        LET r == store.ress[i]
        IN  /\ r.committed <=> (r.tentative = NONE \/ Cardinality(r.peers) > 1)
            /\ r.tentative # NONE => r.tentative \in r.peers

\* the peers that have committed a declaration of rid
Committers(s, rid) ==
    UNION {s.ress[i].peers \ {s.ress[i].tentative} : i \in lookup_rid(s, rid)}

\* A declaration that was committed is withdrawn only when the session of its
\* peer ends, with all that peer has declared and the errors noted against it:
\* not by an aborted transaction, a conflict that was lost, or another peer.
OnlyResetWithdraws ==
    [][\A rid \in Rids : \A p \in Committers(store, rid) \ Committers(store', rid) :
          /\ p # SELF
          /\ \A i \in Entries : p \notin store'.ress[i].peers
          /\ ~failed'[p]]_vars

\* "eventually the GC will free up the space": a declaration for which there is
\* space in all is not put off for ever.
AgainEnds ==
    \A uri \in Uris :
        AllocResult(store.b, UriLen[uri]) = "IAR_AGAIN"
            ~> AllocResult(store.b, UriLen[uri]) # "IAR_AGAIN"

\* "pretend we never received this declare message": a packet that is refused
\* leaves the transaction it belongs to as it was.
TransactionWhole ==
    [][\A p \in Peers :
          /\ ~failed[p] /\ ~failed'[p]
          /\ HandleCommit(p, FALSE) \/ \E r \in Resources : HandleResource(p, r[1], r[2], TRUE)
          => \A i \in InUse : store.ress[i].tentative = p => p \in store'.ress[i].peers]_vars
=============================================================================
