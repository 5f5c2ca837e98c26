------------------------------- MODULE PubSub -------------------------------
(***************************************************************************)
(* Publications and subscriptions of a node and the subscriptions of its   *)
(* peers: the tables of zhe-pubsub, for MAX_PEERS > 0 and ZHE_MAX_URISPACE *)
(* > 0, with the handlers of zhe.c for DECLARE messages that change them   *)
(* and the resources of zhe-uristore.                                      *)
(*                                                                         *)
(* A DECLARE message is a record: decls, the declarations in it, and C,    *)
(* the flag that commits them at once.  The peers send any of a set of     *)
(* messages at any time.  The buffer of URIs is large enough for all, and  *)
(* always compact (module UriStore has the rest).                          *)
(***************************************************************************)
EXTENDS Integers, SequencesExt, FiniteSetsExt, Functions

CONSTANTS
    Peers,                      \* numbers, in the order of the peers' ids
    SELF, NONE,                 \* URISTORE_PEERIDX_SELF, PEERIDX_INVALID
    MAX_RID,                    \* ZHE_MAX_RID
    MAX_RESOURCES,              \* ZHE_MAX_RESOURCES
    MAX_PUBLICATIONS, MAX_SUBSCRIPTIONS, MAX_SUBSCRIPTIONS_PER_PEER,
    CountSpace,                 \* 2^w for zhe_rsubcount_t of w bits
    Uris, ValidUris,            \* resource names, and those zhe_urivalid accepts
    UriMatches,                 \* pairs of names for which zhe_urimatch holds
    Resources,                  \* what the node declares, pairs of a rid and a name
    OwnRids,                    \* what the node publishes and subscribes to
    Messages,                   \* for each peer, the DECLARE messages that it sends
    Settled,                    \* TRUE: peers refer to a resource only after this node
    Cids, XmitCid, XmitNeed     \* conduits; xmitcid and xmitneed of each subscription

\* The count of a publication has as many bits as ZHE_MAX_RSUBCOUNT needs, which
\* is MAX_RESOURCES for each peer.
ASSUME PubSubAssumption ==
    /\ IsFiniteSet(Peers) /\ Peers \subseteq Nat
    /\ SELF \notin Peers /\ NONE \notin Peers \cup {SELF}
    /\ MAX_RESOURCES \in Nat \ {0} /\ NONE \notin 1 .. MAX_RESOURCES
    /\ Resources \subseteq (Nat \ {0}) \X Uris
    /\ MAX_RID \in Nat /\ OwnRids \subseteq 1 .. MAX_RID
    /\ MAX_PUBLICATIONS \in Nat \ {0} /\ MAX_SUBSCRIPTIONS \in Nat \ {0}
    /\ MAX_SUBSCRIPTIONS_PER_PEER \in Nat \ {0}
    /\ CountSpace \in Nat /\ MAX_RESOURCES * Cardinality(Peers) < CountSpace
    /\ Settled \in BOOLEAN
    /\ UriMatches \subseteq Uris \X Uris /\ ValidUris \subseteq Uris
    /\ XmitCid \in [1 .. MAX_SUBSCRIPTIONS -> Cids]
    /\ XmitNeed \in [1 .. MAX_SUBSCRIPTIONS -> Nat]
    /\ \A u, v \in Uris : <<u, v>> \in UriMatches <=> <<v, u>> \in UriMatches
    /\ \A p \in Peers : \A m \in Messages[p] :
          /\ m.C \in BOOLEAN /\ m.decls \in Seq(ToSet(m.decls))
          /\ \A d \in ToSet(m.decls) :
                d.rid \in Nat /\ (d.kind = "DRESOURCE" => d.rid # 0 /\ d.uri \in Uris)

VARIABLES
    pubs,        \* rids of pubs[0 .. max_pubidx], in order
    subs,        \* subs[0 .. max_subidx]: records of rid and next
    node         \* what declarations change, see below

vars == <<pubs, subs, node>>

(* node has the fields                                                     *)
(*   store       the resources (module UriStore)                           *)
(*   residx2sub  for each resource index the list of its subscriptions     *)
(*   count       pubs_rsubcounts                                           *)
(*   rsubs       peers_rsubs, for each peer                                *)
(*   precommit   for each peer rsubs and result of its transaction         *)
(*   curpkt      precommit_curpkt                                          *)

US == INSTANCE UriStore
        WITH UNIT <- 2, URISPACE <- 8 * (MAX_RESOURCES + 1), MAX_BLOCKS <- 1, MAX_BYTES <- 1,
             Nobody <- NONE, UriLen <- [u \in Uris |-> 1],
             store <- node.store, failed <- [p \in Peers |-> node.precommit[p].result # "OK"]

Pubs == 1 .. MAX_PUBLICATIONS
NoDecls == [rsubs |-> {}, result |-> "OK"]

\* zhe_pubsub_init
Init ==
    /\ pubs = <<>>
    /\ subs = <<>>
    /\ node = [store |-> US!zhe_uristore_init,
               residx2sub |-> [i \in 1 .. MAX_RESOURCES |-> <<>>],
               count |-> [i \in Pubs |-> 0],
               rsubs |-> [p \in Peers |-> {}],
               precommit |-> [p \in Peers |-> NoDecls],
               curpkt |-> NoDecls]

-----------------------------------------------------------------------------
(* Names. *)

\* zhe_uristore_geturi_for_rid: the committed entry for rid, if any
CommittedEntry(store, rid) == {i \in US!lookup_rid(store, rid) : store.ress[i].committed}
geturi_for_rid(store, rid) == {US!UriOf(store, i) : i \in CommittedEntry(store, rid)}

UrisMatch(us, vs) == \E u \in us, v \in vs : <<u, v>> \in UriMatches

pub_sub_match(store, a, b) ==
    a = b \/ UrisMatch(geturi_for_rid(store, a), geturi_for_rid(store, b))

\* those of rids, a peer's subscriptions, that a publication of rid is for
Matching(store, rid, rids) == {r \in rids : pub_sub_match(store, rid, r)}

\* every publication counts those of rids that match it, or no longer does
CountUp(n, rids) ==
    [n EXCEPT !.count = [i \in Pubs |->
        IF i \in DOMAIN pubs
        THEN (@[i] + Cardinality(Matching(n.store, pubs[i], rids))) % CountSpace ELSE @[i]]]

CountDown(n, rids) ==
    [n EXCEPT !.count = [i \in Pubs |->
        IF i \in DOMAIN pubs
        THEN (@[i] - Cardinality(Matching(n.store, pubs[i], rids))) % CountSpace ELSE @[i]]]

zhe_rid_in_use_anonymously(store, rid) ==
    /\ rid \in ToSet(pubs) \/ \E i \in DOMAIN subs : subs[i].rid = rid
    /\ geturi_for_rid(store, rid) = {}

\* The subscriptions to the resource rid, which has just been committed, are
\* added to the list of its index.
zhe_update_subs_for_resource_decl(n, rid) ==
    LET idx == CHOOSE i \in US!lookup_rid(n.store, rid) : TRUE
        Named(k) == UrisMatch(geturi_for_rid(n.store, subs[k].rid), geturi_for_rid(n.store, rid))
        list[k \in 0 .. Len(subs)] ==
            IF k = 0 THEN n.residx2sub[idx]
            ELSE IF Named(k) THEN Append(list[k-1], k) ELSE list[k-1]
    IN  [n EXCEPT !.residx2sub[idx] = list[Len(subs)]]

\* mutant: only the subscription's own resource is looked at
OwnResourceOnly(n, rid, subidx) ==
    [n EXCEPT !.residx2sub = [i \in DOMAIN @ |->
        IF i \in CommittedEntry(n.store, rid) THEN Append(@[i], subidx) ELSE @[i]]]

zhe_update_subs_for_sub_decl(n, rid, subidx) ==
    [n EXCEPT !.residx2sub = [i \in DOMAIN @ |->
        IF /\ i \in ToSet(n.store.used) /\ n.store.ress[i].committed
           /\ UrisMatch(geturi_for_rid(n.store, rid), {US!UriOf(n.store, i)})
        THEN Append(@[i], subidx) ELSE @[i]]]

-----------------------------------------------------------------------------
(* Transactions of a peer. *)

NotedIn(pre, status) ==
    IF pre.result \in {"OK", "AGAIN"} THEN [pre EXCEPT !.result = status] ELSE pre

zhe_decl_note_error_curpkt(n, status) == [n EXCEPT !.curpkt = NotedIn(@, status)]
zhe_decl_note_error_somepeer(n, p, status) == [n EXCEPT !.precommit[p] = NotedIn(@, status)]
zhe_rsub_precommit_curpkt_abort(n) == [n EXCEPT !.curpkt = NoDecls]

\* peers_rsubs[p] gets rids and the publications that match count the new ones
AddRsubs(n, p, rids) ==
    CountUp([n EXCEPT !.rsubs[p] = @ \cup rids], rids \ n.rsubs[p])

Full(rsubs) == Cardinality(rsubs) = MAX_SUBSCRIPTIONS_PER_PEER

\* what gets into a table when rids are inserted in their order, while there is room
FirstFit(rsubs, rids) ==
    LET new == rids \ rsubs
        room == MAX_SUBSCRIPTIONS_PER_PEER - Cardinality(rsubs)
    IN  {r \in new : Cardinality({q \in new : q < r}) < room}

SubError(rid, mode) ==
    IF mode # "PUSH" THEN "UNSUPPORTED" ELSE IF rid >= MAX_RID THEN "INVALID" ELSE "OK"

rsub_register_committed(n, p, rid, mode) ==
    IF SubError(rid, mode) # "OK" THEN zhe_decl_note_error_curpkt(n, SubError(rid, mode))
    ELSE IF rid \notin n.rsubs[p] /\ Full(n.rsubs[p])
    THEN zhe_decl_note_error_curpkt(n, "NOSPACE")
    ELSE AddRsubs(n, p, {rid})

rsub_register_tentative(n, rid, mode) ==
    IF SubError(rid, mode) # "OK" THEN zhe_decl_note_error_curpkt(n, SubError(rid, mode))
    ELSE IF rid \notin n.curpkt.rsubs /\ Full(n.curpkt.rsubs)
    THEN zhe_decl_note_error_curpkt(n, "NOSPACE")
    ELSE [n EXCEPT !.curpkt.rsubs = @ \cup {rid}]

\* The packet is complete: its declarations and its error become the transaction's.
zhe_rsub_precommit_curpkt_done(n, p) ==
    LET rsubs == n.precommit[p].rsubs
        fit == FirstFit(rsubs, n.curpkt.rsubs)
        all == [n EXCEPT !.precommit[p].rsubs = rsubs \cup fit]
        noted == IF n.curpkt.rsubs \subseteq rsubs \cup fit THEN all
                 ELSE zhe_decl_note_error_curpkt(all, "NOSPACE")
        result == noted.curpkt.result
    IN  zhe_rsub_precommit_curpkt_abort(
            IF result = "OK" THEN noted ELSE zhe_decl_note_error_somepeer(noted, p, result))

\* mutant: the limit is compared with the transaction only
FitsAlone(n, p) == Cardinality(n.precommit[p].rsubs) <= MAX_SUBSCRIPTIONS_PER_PEER

Fits(n, p) ==
    Cardinality(n.precommit[p].rsubs) <= MAX_SUBSCRIPTIONS_PER_PEER - Cardinality(n.rsubs[p])

\* the result of the transaction; after an error it is forgotten
PrecommitResult(n, p) ==
    IF n.precommit[p].result # "OK" THEN n.precommit[p].result
    ELSE IF ~Fits(n, p) THEN "NOSPACE" ELSE "OK"
zhe_rsub_precommit(n, p) ==
    IF PrecommitResult(n, p) = "OK" THEN n ELSE [n EXCEPT !.precommit[p] = NoDecls]

\* zhe_rsub_commit leaves precommit[p] as it is, and clears precommit_curpkt
zhe_rsub_commit(n, p) ==
    zhe_rsub_precommit_curpkt_abort(
        AddRsubs(n, p, FirstFit(n.rsubs[p], n.precommit[p].rsubs)))

\* those of p's tentative declarations are committed that have a number up to rid
CommittedUpto(store, p, rid) ==
    [store EXCEPT !.ress = [i \in DOMAIN @ |->
        IF @[i].tentative = p /\ @[i].rid <= rid
        THEN [@[i] EXCEPT !.tentative = NONE, !.committed = TRUE] ELSE @[i]]]

\* zhe_uristore_commit_tentative, with the update of subscriptions that it calls
\* for each resource that has just become committed, the others still to come
CommitTentative(n, p) ==
    LET fresh == {i \in ToSet(n.store.used) : /\ n.store.ress[i].tentative = p
                                             /\ ~n.store.ress[i].committed}
        Updated(i) ==
            LET rid == n.store.ress[i].rid
            IN  zhe_update_subs_for_resource_decl(
                    [n EXCEPT !.store = CommittedUpto(@, p, rid)], rid).residx2sub[i]
    IN  [n EXCEPT !.store = US!zhe_uristore_commit_tentative(@, p),
                  !.residx2sub = [i \in DOMAIN @ |-> IF i \in fresh THEN Updated(i) ELSE @[i]]]

\* mutant: the tables of the peer are cleared before they are counted down
CountNothing(n, p) ==
    [n EXCEPT !.rsubs[p] = {}, !.precommit[p] = NoDecls, !.curpkt = NoDecls]

zhe_reset_peer_rsubs(n, p) ==
    [CountDown(n, n.rsubs[p])
        EXCEPT !.rsubs[p] = {}, !.precommit[p] = NoDecls, !.curpkt = NoDecls]

\* reset_peer, as far as declarations are concerned
Closed(n, p) ==
    [zhe_reset_peer_rsubs(n, p) EXCEPT !.store = US!zhe_uristore_reset_peer(@, p)]

-----------------------------------------------------------------------------
(* DECLARE messages.  The handler of a declaration takes and gives the node *)
(* and the mode of interpretation.                                          *)

Step(n, mode) == [n |-> n, mode |-> mode]

handle_dresource(n, p, d, tentative) ==
    LET r == IF d.uri \in ValidUris
             THEN US!zhe_uristore_store(n.store, p, d.rid, d.uri, tentative)
             ELSE [s |-> n.store, res |-> "USR_INVALID", loser |-> NONE]
        stored == [n EXCEPT !.store = r.s]
    IN  IF zhe_rid_in_use_anonymously(n.store, d.rid)
        THEN Step(zhe_decl_note_error_curpkt(n, "CONFLICT"), "DIM_INTERPRET")
        ELSE CASE r.res = "USR_OK" /\ ~tentative ->
                    Step(zhe_update_subs_for_resource_decl(stored, d.rid), "DIM_INTERPRET")
               [] r.res = "USR_OK" /\ tentative /\ r.loser = p ->
                    Step(zhe_decl_note_error_curpkt(stored, "AGAIN"), "DIM_ABORT")
               [] r.res = "USR_OK" /\ tentative /\ r.loser \in Peers \ {p} ->
                    Step(zhe_decl_note_error_somepeer(stored, r.loser, "AGAIN"), "DIM_INTERPRET")
               [] r.res = "USR_OK" /\ tentative /\ r.loser = NONE -> Step(stored, "DIM_INTERPRET")
               [] r.res = "USR_DUPLICATE" -> Step(stored, "DIM_INTERPRET")
               [] r.res = "USR_AGAIN" -> Step(n, "DIM_ABORT")
               [] r.res = "USR_NOSPACE" -> Step(zhe_decl_note_error_curpkt(n, "NOSPACE"), "DIM_INTERPRET")
               [] r.res = "USR_MISMATCH" -> Step(zhe_decl_note_error_curpkt(n, "CONFLICT"), "DIM_INTERPRET")
               [] r.res = "USR_INVALID" -> Step(zhe_decl_note_error_curpkt(n, "INVALID"), "DIM_INTERPRET")

handle_dsub(n, p, d, tentative) ==
    Step(IF tentative THEN rsub_register_tentative(n, d.rid, d.mode)
                      ELSE rsub_register_committed(n, p, d.rid, d.mode),
         "DIM_INTERPRET")

\* DSELECTION and DBINDID
handle_unsupported(n) == Step(zhe_decl_note_error_curpkt(n, "UNSUPPORTED"), "DIM_INTERPRET")

\* room: whether the transmit window has room for the DRESULT
handle_dcommit(n, p, room) ==
    LET done == zhe_rsub_precommit_curpkt_done(n, p)
    IN  IF ~room THEN Step(n, "DIM_ABORT")
        ELSE IF PrecommitResult(done, p) = "OK"
        THEN Step(CommitTentative(zhe_rsub_commit(done, p), p), "DIM_INTERPRET")
        ELSE Step([zhe_rsub_precommit(done, p)
                      EXCEPT !.store = US!zhe_uristore_abort_tentative(@, p)], "DIM_INTERPRET")

\* The declaration d of a message of p.  What handle_dpub, handle_dresult and
\* the DF... handlers do does not concern these tables.
HandleDecl(n, p, d, tentative, room) ==
    CASE d.kind = "DRESOURCE" -> handle_dresource(n, p, d, tentative)
      [] d.kind = "DSUB" -> handle_dsub(n, p, d, tentative)
      [] d.kind = "DSELECTION" -> handle_unsupported(n)
      [] d.kind = "DCOMMIT" -> handle_dcommit(n, p, room)
      [] OTHER -> Step(n, "DIM_INTERPRET")

\* May p refer to resource rid?  If Settled, once the node has declared it.
MayUse(rid) ==
    Settled /\ (\E r \in Resources : r[1] = rid) => geturi_for_rid(node.store, rid) # {}

\* The declarations of a message, one after the other until one is aborted.
Interpreted(n, p, msg, room) ==
    LET step[k \in 0 .. Len(msg.decls)] ==
            IF k = 0 THEN Step(n, "DIM_INTERPRET")
            ELSE IF step[k-1].mode = "DIM_ABORT" THEN step[k-1]
            ELSE HandleDecl(step[k-1].n, p, msg.decls[k], ~msg.C, room)
    IN  step[Len(msg.decls)]

\* handle_mdeclare, for a message that is next in order.  One that is aborted
\* is not acknowledged and comes again.
handle_mdeclare(p, msg, room) ==
    LET s == Interpreted(node, p, msg, room)
        done == zhe_rsub_precommit_curpkt_done(s.n, p)
    IN  /\ \A i \in DOMAIN msg.decls : MayUse(msg.decls[i].rid)
        /\ node' = IF s.mode = "DIM_ABORT"
                   THEN zhe_rsub_precommit_curpkt_abort(
                            [s.n EXCEPT !.store = US!zhe_uristore_abort_tentative(@, p)])
                   ELSE IF msg.C /\ done.precommit[p].result # "OK" THEN Closed(done, p)
                   ELSE done
        /\ UNCHANGED <<pubs, subs>>

\* The session with p ends; the next one starts with nothing.
reset_peer(p) ==
    /\ node' = Closed(node, p)
    /\ UNCHANGED <<pubs, subs>>

-----------------------------------------------------------------------------
(* What the application calls. *)

zhe_declare_resource(rid, uri) ==
    LET r == US!zhe_uristore_store(node.store, SELF, rid, uri, FALSE)
    IN  /\ Settled => \A p \in Peers : rid \notin node.rsubs[p] \cup node.precommit[p].rsubs
        /\ ~zhe_rid_in_use_anonymously(node.store, rid)
        /\ uri \in ValidUris
        /\ node' = IF r.res = "USR_OK"
                   THEN zhe_update_subs_for_resource_decl([node EXCEPT !.store = r.s], rid)
                   ELSE [node EXCEPT !.store = r.s]
        /\ UNCHANGED <<pubs, subs>>

Subscribers(n, rid) ==
    Cardinality(UNION {{p} \X Matching(n.store, rid, n.rsubs[p]) : p \in Peers})

zhe_publish(rid) ==
    /\ Len(pubs) < MAX_PUBLICATIONS
    /\ pubs' = Append(pubs, rid)
    /\ node' = [node EXCEPT !.count[Len(pubs) + 1] = Subscribers(node, rid) % CountSpace]
    /\ UNCHANGED subs

\* the entry of rid2sub for rid, if any: the first subscription to it
rid2sub(rid) ==
    {k \in DOMAIN subs : subs[k].rid = rid /\ \A j \in 1 .. k - 1 : subs[j].rid # rid}

zhe_subscribe(rid) ==
    LET subidx == Len(subs) + 1
    IN  /\ subidx <= MAX_SUBSCRIPTIONS
        /\ subs' = Append(subs, [rid |-> rid, next |-> Min(rid2sub(rid) \cup {subidx})])
        /\ node' = zhe_update_subs_for_sub_decl(node, rid, subidx)
        /\ UNCHANGED pubs

-----------------------------------------------------------------------------
(* Delivery.  space gives the bytes free in the window of each conduit, and *)
(* the result is the list of subscriptions whose handlers are called.       *)

Needed(list, cid) ==
    SumFunction([i \in DOMAIN list |-> IF XmitCid[list[i]] = cid THEN XmitNeed[list[i]] ELSE 0])
AllFit(list, space) == \A cid \in Cids : Needed(list, cid) > 0 => Needed(list, cid) <= space[cid]

CallAllOrNone(list, space) == IF AllFit(list, space) THEN list ELSE <<>>

\* What the walk along next from k comes by, if it does not end at once: the
\* smallest set that contains k and the successors of its members.
Circle(k) ==
    LET closed == {C \in SUBSET DOMAIN subs : k \in C /\ \A j \in C : subs[j].next \in C}
    IN  SetToSortSeq({j \in DOMAIN subs : \A C \in closed : j \in C}, <)

zhe_handle_msdata_deliver_anon(prid, space) ==
    LET k == CHOOSE k \in rid2sub(prid) : TRUE
    IN  IF rid2sub(prid) = {} THEN <<>>
        ELSE CallAllOrNone(IF subs[k].next = k THEN <<k>> ELSE Circle(k), space)

zhe_handle_msdata_deliver(prid, space) ==
    LET entry == US!lookup_rid(node.store, prid)
    IN  IF entry = {} THEN zhe_handle_msdata_deliver_anon(prid, space)
        ELSE CallAllOrNone(node.residx2sub[CHOOSE i \in entry : TRUE], space)

\* The loops after the first one go over subs[0 .. nm-1], nm being the number of
\* matches, and not over the matches.
zhe_handle_mwdata_deliver(uri, space) ==
    LET nm == Cardinality({k \in DOMAIN subs : UrisMatch({uri}, geturi_for_rid(node.store, subs[k].rid))})
    IN  CallAllOrNone([k \in 1 .. nm |-> k], space)

-----------------------------------------------------------------------------
Next ==
    \/ \E p \in Peers : \E msg \in Messages[p] : handle_mdeclare(p, msg, TRUE)
    \/ \E p \in Peers : \E msg \in {m \in Messages[p] : Last(m.decls).kind = "DCOMMIT"} :
          handle_mdeclare(p, msg, FALSE)
    \/ \E p \in Peers : reset_peer(p)
    \/ \E r \in Resources : zhe_declare_resource(r[1], r[2])
    \/ \E rid \in OwnRids : zhe_publish(rid)
    \/ \E rid \in OwnRids : zhe_subscribe(rid)

Spec == Init /\ [][Next]_vars

-----------------------------------------------------------------------------
(* Properties. *)

\* The tables are within their limits, sets of subscriptions are per peer, and
\* nothing is left of the packet that was handled last.
TypeOK ==
    /\ pubs \in BoundedSeq(OwnRids, MAX_PUBLICATIONS)
    /\ Len(subs) <= MAX_SUBSCRIPTIONS
    /\ \A k \in DOMAIN subs : subs[k].rid \in OwnRids /\ subs[k].next \in 1 .. k
    /\ node.count \in [Pubs -> 0 .. CountSpace - 1]
    /\ node.curpkt = NoDecls
    /\ \A p \in Peers :
          /\ node.rsubs[p] \subseteq 0 .. MAX_RID - 1
          /\ Cardinality(node.rsubs[p]) <= MAX_SUBSCRIPTIONS_PER_PEER
          /\ Cardinality(node.precommit[p].rsubs) <= MAX_SUBSCRIPTIONS_PER_PEER

\* "we count the number of remote subs for each pub": however publications,
\* transactions, repetitions and ends of sessions are interleaved, the count
\* that makes zhe_write send or skip is the number of subscriptions that match.
CountsExact == \A i \in DOMAIN pubs : node.count[i] = Subscribers(node, pubs[i])

Plenty == [cid \in Cids |-> SumFunction(XmitNeed)]
Called(list) == ToSet(list)

\* the subscriptions that data for rid is meant for
Addressed(rid) ==
    IF geturi_for_rid(node.store, rid) = {} THEN rid2sub(rid)
    ELSE {k \in DOMAIN subs : UrisMatch(geturi_for_rid(node.store, rid),
                                       geturi_for_rid(node.store, subs[k].rid))}

\* Whatever the order of subscribing and declaring resources, data reaches
\* every subscription whose name matches, once; without a name, the first
\* subscription to the number.  Data that comes with a name reaches those whose
\* name matches, provided no other subscription is older than one of them.
DataToSubscribers ==
    /\ \A rid \in OwnRids :
          LET list == zhe_handle_msdata_deliver(rid, Plenty)
          IN  IsInjective(list) /\ Called(list) = Addressed(rid)
    /\ \A uri \in ValidUris :
          LET matching == {k \in DOMAIN subs : UrisMatch({uri}, geturi_for_rid(node.store, subs[k].rid))}
          IN  (\A k \in matching : 1 .. k \subseteq matching)
                => Called(zhe_handle_mwdata_deliver(uri, Plenty)) = matching

\* A transaction's subscriptions take effect all at once or not at all: the
\* assertion in zhe_rsub_commit that they fit holds.
CommitAllOrNothing ==
    [][\A p \in Peers : \A msg \in {m \in Messages[p] : Len(m.decls) = 1 /\ m.decls[1].kind = "DCOMMIT"} :
          handle_mdeclare(p, msg, TRUE) =>
              IF node'.precommit[p] = NoDecls
              THEN node'.rsubs[p] = node.rsubs[p]
              ELSE node'.rsubs[p] = node.rsubs[p] \cup node.precommit[p].rsubs]_vars

\* The assertion of zhe-arylist: a list of subscriptions has room when the next
\* one is inserted.
ListsFit == \A i \in 1 .. MAX_RESOURCES : Len(node.residx2sub[i]) <= MAX_SUBSCRIPTIONS
=============================================================================
