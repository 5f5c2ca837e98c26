---------------------------- MODULE Declarations ----------------------------
(***************************************************************************)
(* How a node declares its resources and subscriptions to its peers, and   *)
(* learns whether they were accepted: pending_decls and decl_results of    *)
(* zhe-pubsub, for MAX_PEERS > 1 with a unicast conduit for each peer.     *)
(*                                                                         *)
(* A peer that is accepted is sent everything there is over its unicast    *)
(* conduit, with the C flag (historical declarations).  What is declared   *)
(* later is sent in a transaction over multicast conduit 0 (fresh ones).   *)
(* There is one cursor for each peer and one for the multicast conduit,    *)
(* and within it one for each kind of declaration.                         *)
(*                                                                         *)
(* A reliable conduit is a queue of messages with room for Window of them  *)
(* (module ReliableChannel refines FifoChannel); a session starts and ends *)
(* at both ends in one step (module Session).  A peer is its tables        *)
(* (module PubSub), of which MAX_SUBSCRIPTIONS_PER_PEER may differ.        *)
(***************************************************************************)
EXTENDS Integers, SequencesExt, FiniteSetsExt

CONSTANTS
    Peers, MULTICAST,     \* the cursors: MULTICAST_CURSORIDX is not a peer
    Members,              \* peers that listen to multicast conduit 0
    MAX_ITEMS,            \* for each kind, ZHE_MAX_RESOURCES etc.
    INVALID,              \* DECLITEM_IDX_INVALID
    Window,               \* messages in the transmit window of a conduit
    Room,                 \* for each peer, MAX_SUBSCRIPTIONS_PER_PEER
    MaxSessions           \* bound on the number of sessions

Kinds == <<"RESOURCE", "PUBLICATION", "SUBSCRIPTION">>      \* in order of declitem_kind

ASSUME DeclarationsAssumption ==
    /\ MULTICAST \notin Peers /\ Members \subseteq Peers
    /\ MAX_ITEMS \in [ToSet(Kinds) -> Nat]
    /\ INVALID \in Nat /\ \A kind \in ToSet(Kinds) : MAX_ITEMS[kind] < INVALID
    /\ Window \in Nat \ {0} /\ Room \in [Peers -> Nat] /\ MaxSessions \in Nat

VARIABLES
    items,          \* for each kind the indices of what the application declared
    pend, pos,      \* pending_decls.peers[0 .. cnt-1] and pos
    cursor,         \* pending_decls.cursor
    waiting,        \* decl_results.waiting
    status,         \* decl_results.status
    established,    \* peers with a session
    sessions,       \* how many there were
    uni, multi,     \* for each peer what it still has to receive on either conduit
    results,        \* for each peer the DRESULTs it sent
    table           \* for each peer what it keeps about this node

local == <<items, pend, pos, cursor, waiting, status>>
remote == <<established, sessions, uni, multi, results, table>>
vars == <<items, pend, pos, cursor, waiting, status,
          established, sessions, uni, multi, results, table>>

Cursors == Peers \cup {MULTICAST}
NoDecls == [known |-> {}, pre |-> {}, result |-> "OK"]

Init ==
    /\ items = [kind \in ToSet(Kinds) |-> {}]
    /\ pend = <<>> /\ pos = 0
    /\ cursor = [c \in Cursors |-> [kind \in ToSet(Kinds) |-> 0]]
    /\ waiting = {} /\ status = "OK"
    /\ established = {} /\ sessions = 0
    /\ uni = [p \in Peers |-> <<>>]
    /\ multi = [p \in Peers |-> <<>>]
    /\ results = [p \in Peers |-> <<>>]
    /\ table = [p \in Peers |-> NoDecls]

-----------------------------------------------------------------------------
(* Scheduling. *)

\* the entry at index i (from 0) of peers is replaced by the last one, and pos
\* goes back to the start when it is beyond the end
Removed(i) == SubSeq([pend EXCEPT ![i + 1] = Last(pend)], 1, Len(pend) - 1)
\* mutant
PosStays == pos
PosWithin == IF pos = Len(pend) - 1 THEN 0 ELSE pos

\* accept_peer with zhe_accept_peer_sched_hist_decls
accept_peer(p) ==
    /\ p \notin established /\ sessions < MaxSessions
    /\ established' = established \cup {p}
    /\ sessions' = sessions + 1
    /\ pend' = Append(pend, p)
    /\ cursor' = [cursor EXCEPT ![p] = [kind \in ToSet(Kinds) |-> 0]]
    /\ UNCHANGED <<items, pos, waiting, status, uni, multi, results, table>>

\* reset_peer with zhe_reset_peer_unsched_hist_decls and zhe_reset_peer_declstatus,
\* and the same at the other end
Reset(p) ==
    /\ established' = established \ {p}
    /\ IF p \in ToSet(pend)
       THEN /\ pend' = Removed((CHOOSE i \in DOMAIN pend : pend[i] = p) - 1)
            /\ pos' = PosWithin
       ELSE UNCHANGED <<pend, pos>>
    /\ waiting' = waiting \ {p}
    /\ uni' = [uni EXCEPT ![p] = <<>>]
    /\ multi' = [multi EXCEPT ![p] = <<>>]
    /\ results' = [results EXCEPT ![p] = <<>>]
    /\ table' = [table EXCEPT ![p] = NoDecls]
    /\ UNCHANGED <<items, cursor, status, sessions>>

reset_peer(p) == p \in established /\ Reset(p)

\* mutant: the cursor is not moved back
NotBack(kind, itemidx) == cursor
BackTo(kind, itemidx) ==
    [cursor EXCEPT ![MULTICAST][kind] = IF @ > itemidx THEN itemidx ELSE @]

sched_fresh_declare(kind, itemidx) ==
    /\ pend' = IF MULTICAST \in ToSet(pend) THEN pend ELSE Append(pend, MULTICAST)
    /\ cursor' = BackTo(kind, itemidx)

\* zhe_declare_resource, zhe_publish and zhe_subscribe: the store gives a resource
\* any free index, the others get the next one
Declare(kind, itemidx) ==
    /\ itemidx \notin items[kind]
    /\ kind = "RESOURCE" \/ itemidx = Cardinality(items[kind])
    /\ items' = [items EXCEPT ![kind] = @ \cup {itemidx}]
    /\ sched_fresh_declare(kind, itemidx)
    /\ UNCHANGED <<pos, waiting, status>>
    /\ UNCHANGED remote

-----------------------------------------------------------------------------
(* Sending.  A message is a declaration, with the flag C, or a commit. *)

Message(kind, i, C) == [kind |-> kind, i |-> i, C |-> C]
Commit == Message("COMMIT", 0, FALSE)

Listening == Members \cap established
Backlog(c) ==
    IF c = MULTICAST THEN Max({Len(multi[p]) : p \in Listening} \cup {0}) ELSE Len(uni[c])

\* zhe_oc_pack_mdeclare: is there room in the window after n more messages?
HasRoom(c, n) == Backlog(c) + n < Window

zhe_out_conduit_is_connected(c) == IF c = MULTICAST THEN Listening # {} ELSE c \in established

\* send_declare_resource and send_declare_sub after n messages in the same step
SendOne(c, kind, n) ==
    IF cursor[c][kind] \in items[kind] /\ HasRoom(c, n)
    THEN <<Message(kind, cursor[c][kind], c # MULTICAST)>>
    ELSE <<>>
send_declare(c) ==
    LET res == SendOne(c, "RESOURCE", 0) IN res \o SendOne(c, "SUBSCRIPTION", Len(res))

\* The cursor after that: it stays at an item for which there was no room.
\* send_declare_pub only counts.
Advanced(c, out) ==
    [kind \in ToSet(Kinds) |->
        LET i == cursor[c][kind]
        IN  CASE i = INVALID -> i
              [] i # INVALID /\ kind = "PUBLICATION" -> i + 1
              [] i # INVALID /\ kind # "PUBLICATION" /\ i = MAX_ITEMS[kind] -> INVALID
              [] OTHER -> IF i \in items[kind] /\ \A m \in ToSet(out) : m.kind # kind THEN i ELSE i + 1]

NeverDone(at) == FALSE                                                \* mutant
AllDone(at) == \A kind \in ToSet(Kinds) : at[kind] = INVALID

\* zhe_send_declares1: the cursor after the step, what is sent, whether all was done
\* before it, and whether there is a conduit to commit on
zhe_send_declares1(c) ==
    IF ~zhe_out_conduit_is_connected(c)
    THEN [at |-> [kind \in ToSet(Kinds) |-> INVALID], out |-> <<>>, done |-> TRUE, oc |-> FALSE]
    ELSE LET out == send_declare(c)
         IN  [at |-> Advanced(c, out), out |-> out, done |-> AllDone(cursor[c]), oc |-> TRUE]

Transmit(c, out) ==
    IF c = MULTICAST
    THEN /\ multi' = [p \in Peers |-> IF p \in Listening THEN multi[p] \o out ELSE multi[p]]
         /\ UNCHANGED uni
    ELSE /\ uni' = [uni EXCEPT ![c] = @ \o out]
         /\ UNCHANGED multi

\* The fresh declarations wait for the results of the previous transaction.
NeverHeld(fresh) == FALSE                                             \* mutant
Held(fresh) == fresh /\ (waiting # {} \/ status # "OK")

\* Everything has been sent, and committed if it was fresh.
Finished(r, fresh) ==
    /\ waiting' = IF fresh THEN waiting \cup established ELSE waiting
    /\ pend' = Removed(pos)
    /\ pos' = PosWithin

\* The next call goes on with the next cursor.
Postponed ==
    /\ pos' = (pos + 1) % Len(pend)
    /\ UNCHANGED <<pend, waiting>>

zhe_send_declares ==
    /\ pend # <<>>
    /\ LET c == pend[pos + 1]
           fresh == c = MULTICAST
           r == zhe_send_declares1(c)
           committing == r.done /\ fresh /\ r.oc
       IN  /\ ~Held(fresh)
           /\ cursor' = [cursor EXCEPT ![c] = r.at]
           /\ IF r.done /\ (committing => HasRoom(c, Len(r.out)))
              THEN Finished(r, fresh)
              ELSE Postponed
           /\ Transmit(c, IF committing /\ HasRoom(c, Len(r.out)) THEN Append(r.out, Commit) ELSE r.out)
    /\ UNCHANGED <<items, status, established, sessions, results, table>>

-----------------------------------------------------------------------------
(* The peers (see module PubSub). *)

Subs(decls) == {d \in decls : d[1] = "SUBSCRIPTION"}
NoRoomFor(d, decls, p) ==
    d[1] = "SUBSCRIPTION" /\ d \notin decls /\ Cardinality(Subs(decls)) = Room[p]

\* A message with the C flag: an error ends the session, and so does an error noted
\* for the transaction in progress.
receive_committed(p) ==
    /\ uni[p] # <<>>
    /\ LET m == Head(uni[p])
           d == <<m.kind, m.i>>
       IN  IF NoRoomFor(d, table[p].known, p) \/ table[p].result # "OK"
           THEN Reset(p)
           ELSE /\ uni' = [uni EXCEPT ![p] = Tail(@)]
                /\ table' = [table EXCEPT ![p].known = @ \cup {d}]
                /\ UNCHANGED <<established, sessions, multi, results>>
                /\ UNCHANGED local

receive_tentative(p) ==
    /\ multi[p] # <<>> /\ Head(multi[p]) # Commit
    /\ LET d == <<Head(multi[p]).kind, Head(multi[p]).i>>
       IN  table' = IF NoRoomFor(d, table[p].pre, p)
                    THEN [table EXCEPT ![p].result = IF @ = "OK" THEN "NOSPACE" ELSE @]
                    ELSE [table EXCEPT ![p].pre = @ \cup {d}]
    /\ multi' = [multi EXCEPT ![p] = Tail(@)]
    /\ UNCHANGED <<established, sessions, uni, results>>
    /\ UNCHANGED local

\* After a commit the subscriptions stay where they were (zhe_rsub_commit).  A
\* commit for whose result there is no room is not taken from the queue.
receive_commit(p) ==
    LET t == table[p]
        fits == Cardinality(Subs(t.pre)) + Cardinality(Subs(t.known)) <= Room[p]
        res == IF t.result # "OK" THEN t.result ELSE IF fits THEN "OK" ELSE "NOSPACE"
    IN  /\ multi[p] # <<>> /\ Head(multi[p]) = Commit
        /\ table' = [table EXCEPT ![p] =
                        IF res = "OK" THEN [t EXCEPT !.known = @ \cup t.pre, !.pre = Subs(@)]
                                      ELSE [t EXCEPT !.pre = {}, !.result = "OK"]]
        /\ multi' = [multi EXCEPT ![p] = Tail(@)]
        /\ results' = [results EXCEPT ![p] = Append(@, res)]
        /\ UNCHANGED <<established, sessions, uni>>
        /\ UNCHANGED local

-----------------------------------------------------------------------------
(* Results. *)

zhe_note_declstatus(p, s) ==
    /\ waiting' = waiting \ {p}
    /\ status' = IF p \in waiting /\ s # "OK" /\ status \in {"OK", "AGAIN"} THEN s ELSE status

\* handle_dresult
handle_dresult(p) ==
    /\ results[p] # <<>>
    /\ results' = [results EXCEPT ![p] = Tail(@)]
    /\ IF Head(results[p]) # "OK"
       THEN zhe_note_declstatus(p, Head(results[p]))
       ELSE UNCHANGED <<waiting, status>>
    /\ UNCHANGED <<items, pend, pos, cursor, established, sessions, uni, multi, table>>

\* zhe_get_declstatus, when it does not return PENDING
zhe_get_declstatus ==
    /\ waiting = {}
    /\ status' = "OK"
    /\ UNCHANGED <<items, pend, pos, cursor, waiting>>
    /\ UNCHANGED remote

-----------------------------------------------------------------------------
Next ==
    \/ \E kind \in ToSet(Kinds) : \E i \in 0 .. MAX_ITEMS[kind] - 1 : Declare(kind, i)
    \/ \E p \in Peers : accept_peer(p)
    \/ \E p \in Peers : reset_peer(p)
    \/ zhe_send_declares
    \/ \E p \in Peers : receive_committed(p)
    \/ \E p \in Peers : receive_tentative(p)
    \/ \E p \in Peers : receive_commit(p)
    \/ \E p \in Peers : handle_dresult(p)
    \/ zhe_get_declstatus

\* Housekeeping runs again and again, and the conduits are reliable.  Nobody need
\* declare anything, ask for the result, or end a session.
Fairness ==
    /\ WF_vars(zhe_send_declares)
    /\ \A p \in Peers : /\ WF_vars(receive_committed(p))
                        /\ WF_vars(receive_tentative(p))
                        /\ WF_vars(receive_commit(p))
                        /\ WF_vars(handle_dresult(p))

Spec == Init /\ [][Next]_vars /\ Fairness

-----------------------------------------------------------------------------
(* Properties. *)

Outcomes == {"OK", "NOSPACE"}

\* The assertions of zhe-pubsub: no cursor is scheduled twice, and pos is one of
\* those scheduled, or 0, however sessions end in between.
TypeOK ==
    /\ IsInjective(pend) /\ ToSet(pend) \subseteq established \cup {MULTICAST}
    /\ pos \in 0 .. Len(pend) /\ (pos = Len(pend) => pos = 0)
    /\ cursor \in [Cursors -> [ToSet(Kinds) -> 0 .. INVALID]]
    /\ waiting \subseteq established /\ status \in Outcomes
    /\ \A p \in Peers : /\ results[p] \in BoundedSeq(Outcomes, MaxSessions)
                        /\ Len(uni[p]) <= Window /\ Len(multi[p]) <= Window

Declared == {d \in {"RESOURCE", "SUBSCRIPTION"} \X (0 .. INVALID) : d[2] \in items[d[1]]}
Wanted == {<<"SUBSCRIPTION", i>> : i \in 0 .. MAX_ITEMS["SUBSCRIPTION"] - 1}

\* Peers that listen to the conduit and have room for whatever is declared, twice:
\* zhe_rsub_precommit counts what a transaction repeats of the historical ones.
Able == {p \in Members : 2 * Cardinality(Wanted) <= Room[p]}

\* Nothing is pending or on its way to p.
Settled(p) ==
    /\ p \in established
    /\ {p, MULTICAST} \cap ToSet(pend) = {}
    /\ uni[p] = <<>> /\ multi[p] = <<>>

\* A peer has everything that was declared before its session, during its opening
\* and since then, when no declaration is pending any more: between historical and
\* fresh declarations, and the cursors that are moved back, nothing falls through.
EverythingDeclared == \A p \in Able : Settled(p) => Declared \subseteq table[p].known

\* A result belongs to the last transaction: a peer is sent no commit before the
\* answer to the one before, and until it arrives the peer is waited for.
Unanswered(p) == Cardinality({k \in DOMAIN multi[p] : multi[p][k] = Commit}) + Len(results[p])
OneTransaction == \A p \in Peers : Unanswered(p) <= 1 /\ (Unanswered(p) = 1 => p \in waiting)

\* If fresh declarations are not held up for ever by results that are not
\* collected, a peer that stays gets everything: the cursors of the others and the
\* swapping of the entries do not starve it.
DeclaredEventually ==
    \A p \in Able :
        /\ <>[](p \in established)
        /\ []<>(waiting = {} /\ status = "OK")
        => <>[](Declared \subseteq table[p].known)

\* zhe_get_declstatus "returns pending until all results have been received": once
\* a peer has answered, or its session has ended, it is not waited for.
PendingUntilReceived == \A p \in Peers : p \in waiting ~> p \notin waiting
=============================================================================
