--------------------------- MODULE SessionProofs ---------------------------
(***************************************************************************)
(* A peer has one session at a node, and a node none with itself, for      *)
(* every number of nodes, table size and kind of fault, also when messages *)
(* overtake each other and nodes change their address.                     *)
(*                                                                         *)
(* The invariant that is inductive adds that no node hears itself: what is *)
(* on its way to a node comes neither from it nor from its present         *)
(* address, and no entry of its table holds that address.                  *)
(***************************************************************************)
EXTENDS Session, SequenceTheorems, WellFoundedInduction, TLAPS

Kinds == {"scout", "hello", "open", "accept", "close"}

Msg == [kind : Kinds, src : Addrs, id : Nodes, to : Nodes \cup {NoId}, keepalive : BOOLEAN]

Peer == [state : UNKNOWN .. ESTABLISHED, addr : Addrs \cup {NoAddr}, id : Nodes \cup {NoId}]

\* an entry of the table of node n, whose address is a
EntryOK(p, n, a) ==
    /\ p \in Peer
    /\ p.addr # a
    /\ p.state # UNKNOWN => p.addr \in Addrs
    /\ p.state = ESTABLISHED => p.id \in Nodes \ {n}

InSession(p, id) == p.state = ESTABLISHED /\ p.id = id

Unique(t) == \A i, j \in Slots, id \in Nodes : InSession(t[i], id) /\ InSession(t[j], id) => i = j

TableOK(t, n, a) ==
    /\ t \in [Slots -> Peer]
    /\ \A i \in Slots : EntryOK(t[i], n, a)
    /\ Unique(t)

\* a message on its way to node k, whose address is a
MsgOK(m, k, a) == m \in Msg /\ m.id # k /\ m.src # a

QueueOK(q, k, a) == q \in Seq(Msg) /\ \A x \in 1 .. Len(q) : MsgOK(q[x], k, a)

BoxesOK(boxes, ad) ==
    /\ boxes \in [Nodes -> Seq(Msg)]
    /\ \A k \in Nodes : QueueOK(boxes[k], k, ad[k])

AddrOK(ad) == ad \in [Nodes -> Addrs] /\ \A k, l \in Nodes : ad[k] = ad[l] => k = l

IInv ==
    /\ peers \in [Nodes -> [Slots -> Peer]]
    /\ \A n \in Nodes : TableOK(peers[n], n, addr[n])
    /\ AddrOK(addr)
    /\ BoxesOK(inbox, addr)
    /\ faults \in 0 .. MaxFaults

-----------------------------------------------------------------------------
(* Looking up peers. *)

\* A set of natural numbers that is not empty has a least element.
LEMMA NatHasMin ==
  ASSUME NEW S, S \subseteq Nat, S # {}
  PROVE  \E i \in S : \A j \in S : i <= j
<1> DEFINE R == {ss \in Nat \X Nat : ss[1] < ss[2]}
<1>1. IsWellFoundedOn(R, Nat)
  BY NatLessThanWellFounded DEF OpToRel
<1>2. \A p \in Nat, q \in Nat : <<p, q>> \in R <=> p < q
  OBVIOUS
<1> HIDE DEF R
<1>3. \E x \in S : \A y \in S : ~ (<<y, x>> \in R)
  BY <1>1, WFMin
<1>4. PICK x \in S : \A y \in S : ~ (<<y, x>> \in R)
  BY <1>3
<1>5. ASSUME NEW y \in S PROVE x <= y
  <2>1. x \in Nat /\ y \in Nat
    OBVIOUS
  <2>2. ~ (y < x)
    BY <1>2, <1>4, <2>1
  <2> QED
    BY <2>1, <2>2
<1> QED
  BY <1>5

\* First(S) is an element of S.
LEMMA FirstIn == ASSUME NEW S, S \subseteq Slots, S # {} PROVE First(S) \in S
<1>1. S \subseteq Nat
  BY DEF Slots
<1> QED
  BY <1>1, NatHasMin, Zenon DEF First

\* The states of an entry are different from each other.
LEMMA States ==
  /\ UNKNOWN \in UNKNOWN .. ESTABLISHED /\ OPENING_MIN \in UNKNOWN .. ESTABLISHED
  /\ ESTABLISHED \in UNKNOWN .. ESTABLISHED
  /\ UNKNOWN # ESTABLISHED /\ OPENING_MIN # ESTABLISHED /\ OPENING_MIN # UNKNOWN
  /\ \A s \in OPENING_MIN .. OPENING_MAX :
        s \in UNKNOWN .. ESTABLISHED /\ s # UNKNOWN /\ s # ESTABLISHED
  /\ \A s \in OPENING_MIN .. OPENING_MAX : s # OPENING_MAX =>
        s + 1 \in UNKNOWN .. ESTABLISHED /\ s + 1 # UNKNOWN /\ s + 1 # ESTABLISHED
BY SessionAssumption DEF UNKNOWN, OPENING_MIN, ESTABLISHED

\* zhe_input finds an entry of the table, if it finds one.
LEMMA SlotOfType ==
  ASSUME NEW t, NEW a, HasSlot(t, a)
  PROVE  SlotOf(t, a) \in Slots
<1> DEFINE S == IF Known(t, a) # {} THEN Known(t, a) ELSE Free(t)
<1>1. S \subseteq Slots /\ S # {}
  BY DEF HasSlot, Known, Free
<1> QED
  BY <1>1, FirstIn DEF SlotOf

\* The entry the handlers work on is that of the session with id, when there
\* is one, and else the one found by address.
LEMMA FindPeer ==
  ASSUME NEW t, NEW i \in Slots, NEW id \in Nodes
  PROVE  LET j == find_peeridx_by_id(t, i, id)
         IN  /\ j \in Slots
             /\ j # i => InSession(t[j], id) /\ t[i].state # ESTABLISHED
             /\ t[j].state # ESTABLISHED => j = i /\ \A k \in Slots : ~ InSession(t[k], id)
<1> DEFINE same == {j \in Slots : t[j].state = ESTABLISHED /\ t[j].id = id}
<1>1. CASE t[i].state # ESTABLISHED /\ same # {}
  <2>1. First(same) \in same
    BY <1>1, FirstIn
  <2>2. find_peeridx_by_id(t, i, id) = First(same)
    BY <1>1 DEF find_peeridx_by_id
  <2> QED
    BY <1>1, <2>1, <2>2 DEF InSession
<1>2. CASE ~ (t[i].state # ESTABLISHED /\ same # {})
  <2>1. find_peeridx_by_id(t, i, id) = i
    BY <1>2 DEF find_peeridx_by_id
  <2> QED
    BY <1>2, <2>1 DEF InSession
<1> QED
  BY <1>1, <1>2

-----------------------------------------------------------------------------
(* What the handlers do to a table. *)

\* An entry takes another address.
LEMMA NewAddr ==
  ASSUME NEW t, NEW n \in Nodes, NEW a, TableOK(t, n, a),
         NEW i \in Slots, NEW b \in Addrs, b # a
  PROVE  TableOK([t EXCEPT ![i].addr = b], n, a)
<1> DEFINE u == [t EXCEPT ![i].addr = b]
<1>1. t \in [Slots -> Peer] /\ \A k \in Slots : EntryOK(t[k], n, a)
  BY DEF TableOK
<1>2. u \in [Slots -> Peer] /\ \A k \in Slots : u[k].state = t[k].state /\ u[k].id = t[k].id
  BY <1>1 DEF Peer
<1>3. \A k \in Slots : u[k].addr = t[k].addr \/ u[k].addr = b
  BY <1>1 DEF Peer
<1>4. \A k \in Slots : EntryOK(u[k], n, a)
  BY <1>1, <1>2, <1>3 DEF EntryOK
<1>5. Unique(u)
  BY <1>2 DEF TableOK, Unique, InSession
<1> QED
  BY <1>2, <1>4, <1>5 DEF TableOK

\* An entry that is not in session changes its state, or is in session then
\* with a peer that no other entry is in session with.
LEMMA NewEntry ==
  ASSUME NEW t, NEW n \in Nodes, NEW a, TableOK(t, n, a),
         NEW i \in Slots, NEW p, EntryOK(p, n, a),
         p.state = ESTABLISHED => \A k \in Slots : ~ InSession(t[k], p.id)
  PROVE  TableOK([t EXCEPT ![i] = p], n, a)
<1> DEFINE u == [t EXCEPT ![i] = p]
<1>1. t \in [Slots -> Peer] /\ (\A k \in Slots : EntryOK(t[k], n, a)) /\ Unique(t)
  BY DEF TableOK
<1>2. u[i] = p /\ \A k \in Slots : k # i => u[k] = t[k]
  BY <1>1
<1>3. u \in [Slots -> Peer] /\ \A k \in Slots : EntryOK(u[k], n, a)
  BY <1>1, <1>2 DEF EntryOK
<1>4. ASSUME NEW k \in Slots, NEW l \in Slots, NEW id \in Nodes,
             InSession(u[k], id), InSession(u[l], id), k # l
      PROVE  FALSE
  <2>1. CASE k # i /\ l # i
    BY <1>1, <1>2, <1>4, <2>1 DEF Unique
  <2>2. CASE k = i
    BY <1>2, <1>4, <2>2 DEF InSession
  <2>3. CASE l = i
    BY <1>2, <1>4, <2>3 DEF InSession
  <2> QED
    BY <2>1, <2>2, <2>3
<1> QED
  BY <1>3, <1>4 DEF TableOK, Unique

LEMMA StateOK ==
  ASSUME NEW t, NEW n \in Nodes, NEW a, TableOK(t, n, a),
         NEW i \in Slots, NEW s \in UNKNOWN .. ESTABLISHED, s # ESTABLISHED,
         t[i].addr \in Addrs
  PROVE  TableOK([t EXCEPT ![i].state = s], n, a)
<1> DEFINE p == [t[i] EXCEPT !.state = s]
<1>1. EntryOK(t[i], n, a) /\ t[i] \in Peer
  BY DEF TableOK, EntryOK
<1>2. p \in Peer /\ p.state = s /\ p.addr = t[i].addr /\ p.id = t[i].id
  BY <1>1 DEF Peer
<1>3. EntryOK(p, n, a)
  BY <1>1, <1>2 DEF EntryOK
<1>4. [t EXCEPT ![i].state = s] = [t EXCEPT ![i] = p]
  OBVIOUS
<1> QED
  BY <1>2, <1>3, <1>4, NewEntry, Zenon

LEMMA AcceptOK ==
  ASSUME NEW t, NEW n \in Nodes, NEW a, TableOK(t, n, a),
         NEW i \in Slots, NEW id \in Nodes \ {n},
         t[i].addr \in Addrs, \A k \in Slots : ~ InSession(t[k], id)
  PROVE  TableOK(accept_peer(t, i, id), n, a)
<1> DEFINE p == [t[i] EXCEPT !.state = ESTABLISHED, !.id = id]
<1>1. EntryOK(t[i], n, a) /\ t[i] \in Peer /\ t \in [Slots -> Peer]
  BY DEF TableOK, EntryOK
<1>2. p \in Peer /\ p.state = ESTABLISHED /\ p.addr = t[i].addr /\ p.id = id
  BY <1>1, States DEF Peer
<1>3. EntryOK(p, n, a)
  BY <1>1, <1>2 DEF EntryOK
<1>4. accept_peer(t, i, id) = [t EXCEPT ![i] = p]
  BY <1>1 DEF accept_peer, Peer
<1> HIDE DEF p
<1>5. p.state = ESTABLISHED => \A k \in Slots : ~ InSession(t[k], p.id)
  BY <1>2
<1>6. TableOK([t EXCEPT ![i] = p], n, a)
  BY <1>3, <1>5, NewEntry
<1> QED
  BY <1>4, <1>6

LEMMA ResetOK ==
  ASSUME NEW t, NEW n \in Nodes, NEW a \in Addrs, TableOK(t, n, a), NEW i \in Slots
  PROVE  TableOK([t EXCEPT ![i] = reset_peer(t[i])], n, a)
<1> DEFINE p == reset_peer(t[i])
<1>1. EntryOK(t[i], n, a) /\ t[i] \in Peer
  BY DEF TableOK, EntryOK
<1>2. p \in Peer /\ p.state = UNKNOWN /\ p.addr # a
  BY <1>1, States, SessionAssumption DEF Peer, reset_peer, NewPeer, EntryOK
<1>3. EntryOK(p, n, a)
  BY <1>2, States DEF EntryOK
<1> QED
  BY <1>2, <1>3, NewEntry, States, Zenon

LEMMA FreshTable ==
  ASSUME NEW n \in Nodes, NEW a \in Addrs
  PROVE  TableOK([i \in Slots |-> NewPeer], n, a)
<1>1. NewPeer \in Peer /\ NewPeer.state = UNKNOWN /\ NewPeer.addr = NoAddr
  BY States DEF Peer, NewPeer
<1> QED
  BY <1>1, States, SessionAssumption DEF TableOK, EntryOK, Unique, InSession

\* The handlers that look for the id of a peer first give the entry they work
\* on the address of the packet.
LEMMA RehomedOK ==
  ASSUME NEW t, NEW n \in Nodes, NEW a, TableOK(t, n, a),
         NEW i \in Slots, t[i].addr \in Addrs, NEW id \in Nodes \ {n}
  PROVE  LET j == find_peeridx_by_id(t, i, id)
             u == Rehomed(t, i, id)
         IN  /\ j \in Slots
             /\ TableOK(u, n, a)
             /\ u[j].addr = t[i].addr
             /\ u[j].state # ESTABLISHED => \A k \in Slots : ~ InSession(u[k], id)
<1> DEFINE j == find_peeridx_by_id(t, i, id)
           u == Rehomed(t, i, id)
<1>1. j \in Slots /\ (t[j].state # ESTABLISHED => \A k \in Slots : ~ InSession(t[k], id))
  BY FindPeer
<1>2. t \in [Slots -> Peer] /\ t[i].addr # a
  BY DEF TableOK, EntryOK
<1>3. u = [t EXCEPT ![j].addr = t[i].addr]
  BY DEF Rehomed
<1>4. TableOK(u, n, a)
  <2>1. \A x \in Slots, b \in Addrs : b # a => TableOK([t EXCEPT ![x].addr = b], n, a)
    BY NewAddr
  <2> HIDE DEF j
  <2>2. TableOK([t EXCEPT ![j].addr = t[i].addr], n, a)
    BY <1>1, <1>2, <2>1
  <2> QED
    BY <1>3, <2>2
<1>5. \A k \in Slots : u[k].state = t[k].state /\ u[k].id = t[k].id
  BY <1>2, <1>3 DEF Peer
<1>6. u[j].addr = t[i].addr
  BY <1>1, <1>2, <1>3 DEF Peer
<1> QED
  BY <1>1, <1>4, <1>5, <1>6 DEF InSession

-----------------------------------------------------------------------------
(* What sending does to the mailboxes. *)

LEMMA PutOK ==
  ASSUME NEW k \in Nodes, NEW a, NEW q, QueueOK(q, k, a), NEW m, MsgOK(m, k, a)
  PROVE  QueueOK(Put(q, m), k, a)
<1>1. q \in Seq(Msg) /\ m \in Msg
  BY DEF QueueOK, MsgOK
<1>2. /\ Append(q, m) \in Seq(Msg) /\ Len(Append(q, m)) = Len(q) + 1 /\ Len(q) \in Nat
      /\ \A x \in 1 .. Len(q) : Append(q, m)[x] = q[x]
      /\ Append(q, m)[Len(q) + 1] = m
  BY <1>1, AppendProperties, LenProperties
<1>3. ASSUME NEW x \in 1 .. Len(Append(q, m)) PROVE MsgOK(Append(q, m)[x], k, a)
  <2>1. x \in 1 .. Len(q) \/ x = Len(q) + 1
    BY <1>2
  <2> QED
    BY <1>2, <2>1 DEF QueueOK
<1> QED
  BY <1>2, <1>3 DEF QueueOK, Put

\* The messages a node sends.
LEMMA MessageOK ==
  ASSUME AddrOK(addr), NEW n \in Nodes, NEW kind \in Kinds, NEW to \in Nodes \cup {NoId},
         NEW ka \in BOOLEAN, NEW k \in Nodes \ {n}
  PROVE  MsgOK(Message(kind, n, to, ka), k, addr[k])
BY DEF AddrOK, MsgOK, Msg, Message

LEMMA SendToOK ==
  ASSUME AddrOK(addr), NEW boxes, BoxesOK(boxes, addr), NEW n \in Nodes, NEW kind \in Kinds,
         NEW to \in Nodes \cup {NoId}, NEW ka \in BOOLEAN, NEW a, a # addr[n]
  PROVE  BoxesOK(SendTo(boxes, a, Message(kind, n, to, ka)), addr)
<1> DEFINE m == Message(kind, n, to, ka)
           u == SendTo(boxes, a, m)
<1>1. ASSUME NEW k \in Nodes PROVE QueueOK(u[k], k, addr[k])
  <2>1. QueueOK(boxes[k], k, addr[k])
    BY DEF BoxesOK
  <2>2. CASE addr[k] = a
    <3>1. MsgOK(m, k, addr[k])
      BY <2>2, MessageOK
    <3> HIDE DEF m
    <3>2. QueueOK(Put(boxes[k], m), k, addr[k])
      BY <2>1, <3>1, PutOK
    <3> QED
      BY <2>2, <3>2 DEF SendTo
  <2>3. CASE addr[k] # a
    BY <2>1, <2>3 DEF SendTo
  <2> QED
    BY <2>2, <2>3
<1>2. u = [k \in Nodes |-> u[k]]
  BY DEF SendTo
<1>3. \A k \in Nodes : u[k] \in Seq(Msg)
  BY <1>1 DEF QueueOK
<1> HIDE DEF u
<1>4. u \in [Nodes -> Seq(Msg)]
  BY <1>2, <1>3, Zenon
<1> QED
  BY <1>1, <1>4 DEF BoxesOK, u

LEMMA MulticastOK ==
  ASSUME AddrOK(addr), NEW boxes, BoxesOK(boxes, addr), NEW n \in Nodes, NEW kind \in Kinds,
         NEW to \in Nodes \cup {NoId}, NEW ka \in BOOLEAN
  PROVE  BoxesOK(Multicast(boxes, n, Message(kind, n, to, ka)), addr)
<1> DEFINE m == Message(kind, n, to, ka)
           u == Multicast(boxes, n, m)
<1>1. ASSUME NEW k \in Nodes PROVE QueueOK(u[k], k, addr[k])
  <2>1. QueueOK(boxes[k], k, addr[k])
    BY DEF BoxesOK
  <2>2. CASE k # n
    <3>1. MsgOK(m, k, addr[k])
      BY <2>2, MessageOK
    <3> HIDE DEF m
    <3>2. QueueOK(Put(boxes[k], m), k, addr[k])
      BY <2>1, <3>1, PutOK
    <3> QED
      BY <2>2, <3>2 DEF Multicast
  <2>3. CASE k = n
    BY <2>1, <2>3 DEF Multicast
  <2> QED
    BY <2>2, <2>3
<1>2. u = [k \in Nodes |-> u[k]]
  BY DEF Multicast
<1>3. \A k \in Nodes : u[k] \in Seq(Msg)
  BY <1>1 DEF QueueOK
<1> HIDE DEF u
<1>4. u \in [Nodes -> Seq(Msg)]
  BY <1>2, <1>3, Zenon
<1> QED
  BY <1>1, <1>4 DEF BoxesOK, u

\* Taking a message from a mailbox, or losing the oldest one.
LEMMA RemoveOK ==
  ASSUME NEW boxes, NEW ad, BoxesOK(boxes, ad), NEW n \in Nodes, NEW x \in 1 .. Len(boxes[n])
  PROVE  BoxesOK([boxes EXCEPT ![n] = RemoveAt(boxes[n], x)], ad)
<1> DEFINE q == boxes[n]
           r == RemoveAt(q, x)
<1>1. q \in Seq(Msg) /\ Len(q) \in Nat /\ x \in 1 .. Len(q) /\ boxes \in [Nodes -> Seq(Msg)]
  BY LenProperties DEF BoxesOK
<1> DEFINE s1 == SubSeq(q, 1, x - 1)
           s2 == SubSeq(q, x + 1, Len(q))
<1>2. /\ s1 \in Seq(Msg) /\ Len(s1) = x - 1
      /\ \A y \in 1 .. x - 1 : s1[y] = q[y]
  BY <1>1, SubSeqProperties
<1>3. /\ s2 \in Seq(Msg) /\ Len(s2) = Len(q) - x
      /\ \A y \in 1 .. Len(q) - x : s2[y] = q[y + x]
  <2>1. CASE x < Len(q)
    BY <1>1, <2>1, SubSeqProperties
  <2>2. CASE x = Len(q)
    BY <1>1, <2>2, SubSeqProperties
  <2> QED
    BY <1>1, <2>1, <2>2
<1>4. r = s1 \o s2
  BY DEF RemoveAt
<1> HIDE DEF s1, s2, r
<1>5. /\ r \in Seq(Msg) /\ Len(r) = Len(s1) + Len(s2)
      /\ \A y \in 1 .. Len(s1) + Len(s2) : r[y] = IF y <= Len(s1) THEN s1[y] ELSE s2[y - Len(s1)]
  BY <1>2, <1>3, <1>4, ConcatProperties
<1>6. \A y \in 1 .. Len(r) : \E z \in 1 .. Len(q) : r[y] = q[z]
  <2> SUFFICES ASSUME NEW y \in 1 .. Len(r) PROVE \E z \in 1 .. Len(q) : r[y] = q[z]
    OBVIOUS
  <2>1. CASE y <= x - 1
    BY <1>1, <1>2, <1>3, <1>5, <2>1
  <2>2. CASE x <= y
    <3>1. r[y] = s2[y - (x - 1)] /\ y - (x - 1) \in 1 .. Len(q) - x
      BY <1>1, <1>2, <1>3, <1>5, <2>2
    <3>2. y + 1 \in 1 .. Len(q) /\ (y - (x - 1)) + x = y + 1
      BY <1>1, <1>2, <1>3, <1>5, <2>2
    <3> QED
      BY <1>3, <3>1, <3>2
  <2> QED
    BY <1>1, <1>2, <1>3, <1>5, <2>1, <2>2
<1>7. QueueOK(r, n, ad[n])
  BY <1>5, <1>6 DEF BoxesOK, QueueOK
<1> QED
  BY <1>1, <1>5, <1>7 DEF BoxesOK, r

-----------------------------------------------------------------------------
(* The handlers. *)

\* A step that replaces the table of node n, and the mailboxes.
Replaces(n) ==
    /\ \E u : TableOK(u, n, addr[n]) /\ peers' = [peers EXCEPT ![n] = u]
    /\ BoxesOK(inbox', addr)

LEMMA HandleScoutOK ==
  ASSUME IInv, NEW n \in Nodes, NEW m, MsgOK(m, n, addr[n]), NEW i \in Slots,
         NEW t, TableOK(t, n, addr[n]), t[i].addr = m.src,
         NEW boxes, BoxesOK(boxes, addr), HandleScout(n, m, i, t, boxes)
  PROVE  Replaces(n)
<1>1. m.src \in Addrs /\ m.src # addr[n] /\ m.id \in Nodes \ {n}
  BY DEF MsgOK, Msg
<1>2. TableOK(Rehomed(t, i, m.id), n, addr[n])
  BY <1>1, RehomedOK
<1>3. BoxesOK(SendTo(boxes, m.src, Message("hello", n, NoId, FALSE)), addr)
  BY <1>1, SendToOK DEF IInv, Kinds
<1> QED
  BY <1>2, <1>3 DEF HandleScout, Replaces

LEMMA HandleHelloOK ==
  ASSUME IInv, NEW n \in Nodes, NEW m, MsgOK(m, n, addr[n]), NEW i \in Slots,
         NEW t, TableOK(t, n, addr[n]), t[i].addr = m.src,
         NEW boxes, BoxesOK(boxes, addr), HandleHello(n, m, i, t, boxes)
  PROVE  Replaces(n)
<1>1. m.src \in Addrs /\ m.src # addr[n]
  BY DEF MsgOK, Msg
<1>2. TableOK([t EXCEPT ![i].state = OPENING_MIN], n, addr[n])
  BY <1>1, StateOK, States
<1>3. BoxesOK(SendTo(boxes, m.src, Message("open", n, NoId, FALSE)), addr)
  BY <1>1, SendToOK DEF IInv, Kinds
<1> QED
  BY <1>2, <1>3 DEF HandleHello, Replaces

LEMMA HandleOpenOK ==
  ASSUME IInv, NEW n \in Nodes, NEW m, MsgOK(m, n, addr[n]), NEW i \in Slots,
         NEW t, TableOK(t, n, addr[n]), t[i].addr = m.src,
         NEW boxes, BoxesOK(boxes, addr), HandleOpen(n, m, i, t, boxes)
  PROVE  Replaces(n)
<1> DEFINE j == find_peeridx_by_id(t, i, m.id)
           t1 == Rehomed(t, i, m.id)
           t2 == IF t1[j].state # ESTABLISHED THEN accept_peer(t1, j, m.id) ELSE t1
<1>1. m.src \in Addrs /\ m.src # addr[n] /\ m.id \in Nodes \ {n}
  BY DEF MsgOK, Msg
<1>2. /\ j \in Slots /\ TableOK(t1, n, addr[n]) /\ t1[j].addr = m.src
      /\ t1[j].state # ESTABLISHED => \A k \in Slots : ~ InSession(t1[k], m.id)
  BY <1>1, RehomedOK
<1>3. /\ peers' = [peers EXCEPT ![n] = t2]
      /\ inbox' = SendTo(boxes, t2[j].addr, Message("accept", n, t2[j].id, FALSE))
  BY DEF HandleOpen
<1> HIDE DEF j, t1
<1>4. TableOK(t2, n, addr[n])
  <2>1. CASE t1[j].state # ESTABLISHED
    BY <1>1, <1>2, <2>1, AcceptOK
  <2>2. CASE t1[j].state = ESTABLISHED
    BY <1>2, <2>2
  <2> QED
    BY <2>1, <2>2
<1>5. t2[j].addr = m.src
  BY <1>2 DEF accept_peer, TableOK, Peer
<1> HIDE DEF t2
<1>6. t2[j].id \in Nodes \cup {NoId}
  BY <1>2, <1>4 DEF TableOK, Peer
<1>7. BoxesOK(SendTo(boxes, m.src, Message("accept", n, t2[j].id, FALSE)), addr)
  BY <1>1, <1>6, SendToOK DEF IInv, Kinds
<1> QED
  BY <1>3, <1>4, <1>5, <1>7 DEF Replaces

LEMMA HandleAcceptOK ==
  ASSUME IInv, NEW n \in Nodes, NEW m, MsgOK(m, n, addr[n]), NEW i \in Slots,
         NEW t, TableOK(t, n, addr[n]), t[i].addr = m.src,
         NEW boxes, BoxesOK(boxes, addr), HandleAccept(n, m, i, t, boxes)
  PROVE  Replaces(n)
<1> DEFINE j == find_peeridx_by_id(t, i, m.id)
           t1 == Rehomed(t, i, m.id)
           t2 == IF m.to # n THEN t
                 ELSE IF t1[j].state \in OPENING_MIN .. OPENING_MAX
                 THEN accept_peer(t1, j, m.id) ELSE t1
<1>1. m.src \in Addrs /\ m.src # addr[n] /\ m.id \in Nodes \ {n}
  BY DEF MsgOK, Msg
<1>2. /\ j \in Slots /\ TableOK(t1, n, addr[n]) /\ t1[j].addr = m.src
      /\ t1[j].state # ESTABLISHED => \A k \in Slots : ~ InSession(t1[k], m.id)
  BY <1>1, RehomedOK
<1>3. peers' = [peers EXCEPT ![n] = t2] /\ inbox' = boxes
  BY DEF HandleAccept
<1> HIDE DEF j, t1
<1>4. TableOK(t2, n, addr[n])
  <2>1. CASE t1[j].state \in OPENING_MIN .. OPENING_MAX
    <3>1. TableOK(accept_peer(t1, j, m.id), n, addr[n])
      BY <1>1, <1>2, <2>1, AcceptOK, States
    <3> QED
      BY <1>2, <3>1
  <2>2. CASE t1[j].state \notin OPENING_MIN .. OPENING_MAX
    BY <1>2, <2>2
  <2> QED
    BY <2>1, <2>2
<1> QED
  BY <1>3, <1>4 DEF Replaces

LEMMA HandleCloseOK ==
  ASSUME IInv, NEW n \in Nodes, NEW m, MsgOK(m, n, addr[n]), NEW i \in Slots,
         NEW t, TableOK(t, n, addr[n]), t[i].addr = m.src,
         NEW boxes, BoxesOK(boxes, addr), HandleClose(n, m, i, t, boxes)
  PROVE  Replaces(n)
<1> DEFINE j == find_peeridx_by_id(t, i, m.id)
           t1 == Rehomed(t, i, m.id)
<1>1. m.src \in Addrs /\ m.id \in Nodes \ {n}
  BY DEF MsgOK, Msg
<1>2. j \in Slots /\ TableOK(t1, n, addr[n])
  BY <1>1, RehomedOK
<1>3. inbox' = boxes
  BY DEF HandleClose
<1>4. peers' = [peers EXCEPT ![n] = IF t1[j].state = UNKNOWN THEN t1
                                    ELSE [t1 EXCEPT ![j] = reset_peer(t1[j])]]
  BY DEF HandleClose
<1> HIDE DEF j, t1
<1>5. TableOK([t1 EXCEPT ![j] = reset_peer(t1[j])], n, addr[n])
  BY <1>2, ResetOK DEF IInv, AddrOK
<1> QED
  BY <1>2, <1>3, <1>4, <1>5 DEF Replaces

\* A step that replaces the table of one node and the mailboxes preserves the
\* invariant.
LEMMA ReplacesOK ==
  ASSUME IInv, NEW n \in Nodes, Replaces(n), UNCHANGED addr, faults' \in 0 .. MaxFaults
  PROVE  IInv'
<1>1. PICK u : TableOK(u, n, addr[n]) /\ peers' = [peers EXCEPT ![n] = u]
  BY DEF Replaces
<1>2. u \in [Slots -> Peer] /\ peers \in [Nodes -> [Slots -> Peer]]
  BY <1>1 DEF TableOK, IInv
<1>3. peers' \in [Nodes -> [Slots -> Peer]]
  BY <1>1, <1>2
<1>4. ASSUME NEW k \in Nodes PROVE TableOK(peers'[k], k, addr[k])
  <2>1. CASE k = n
    BY <1>1, <1>2, <2>1
  <2>2. CASE k # n
    BY <1>1, <1>2, <2>2 DEF IInv
  <2> QED
    BY <2>1, <2>2
<1> QED
  BY <1>3, <1>4 DEF IInv, Replaces

-----------------------------------------------------------------------------
(* The actions. *)

LEMMA InitOK == Init => IInv
<1> SUFFICES ASSUME Init PROVE IInv
  OBVIOUS
<1>1. AddrOK(addr)
  BY SessionAssumption DEF Init, AddrOK, IsInjective
<1>2. \A n \in Nodes : TableOK([i \in Slots |-> NewPeer], n, addr[n])
  BY <1>1, FreshTable DEF AddrOK
<1>3. peers \in [Nodes -> [Slots -> Peer]]
  BY <1>2 DEF Init, TableOK
<1>4. BoxesOK(inbox, addr)
  BY DEF Init, BoxesOK, QueueOK
<1>5. faults \in 0 .. MaxFaults
  BY SessionAssumption DEF Init
<1> QED
  BY <1>1, <1>2, <1>3, <1>4, <1>5 DEF Init, IInv

LEMMA ReceiveOK ==
  ASSUME IInv, NEW n \in Nodes, NEW k \in 1 .. Len(inbox[n]), Receive(n, k)
  PROVE  IInv'
<1> DEFINE m == inbox[n][k]
           boxes == [inbox EXCEPT ![n] = RemoveAt(inbox[n], k)]
           i == SlotOf(peers[n], m.src)
           t == [peers[n] EXCEPT ![i].addr = m.src]
<1>1. MsgOK(m, n, addr[n])
  BY DEF IInv, BoxesOK, QueueOK
<1>2. BoxesOK(boxes, addr)
  BY RemoveOK DEF IInv
<1>3. UNCHANGED <<addr, faults>> /\ faults \in 0 .. MaxFaults
  BY DEF Receive, IInv
<1>4. TableOK(peers[n], n, addr[n])
  BY DEF IInv
<1>5. CASE ~ HasSlot(peers[n], m.src)
  <2>1. inbox' = boxes /\ UNCHANGED peers
    BY <1>5 DEF Receive
  <2>2. peers = [peers EXCEPT ![n] = peers[n]]
    BY DEF IInv
  <2>3. Replaces(n)
    BY <1>2, <1>4, <2>1, <2>2 DEF Replaces
  <2> QED
    BY <1>3, <2>3, ReplacesOK
<1>6. CASE HasSlot(peers[n], m.src)
  <2>1. i \in Slots
    BY <1>6, SlotOfType
  <2>2. \/ HandleScout(n, m, i, t, boxes) \/ HandleHello(n, m, i, t, boxes)
        \/ HandleOpen(n, m, i, t, boxes) \/ HandleAccept(n, m, i, t, boxes)
        \/ HandleClose(n, m, i, t, boxes)
    BY <1>6 DEF Receive
  <2> HIDE DEF i, m, boxes
  <2>3. TableOK(t, n, addr[n])
    BY <1>1, <1>4, <2>1, NewAddr DEF MsgOK, Msg
  <2>4. t[i].addr = m.src
    BY <1>4, <2>1 DEF TableOK, Peer
  <2> HIDE DEF t
  <2>5. Replaces(n)
    BY <1>1, <1>2, <2>1, <2>2, <2>3, <2>4,
       HandleScoutOK, HandleHelloOK, HandleOpenOK, HandleAcceptOK, HandleCloseOK
  <2> QED
    BY <1>3, <2>5, ReplacesOK
<1> QED
  BY <1>5, <1>6

LEMMA ScoutOK ==
  ASSUME IInv, NEW n \in Nodes, NEW ka \in BOOLEAN, Scout(n, ka)
  PROVE  IInv'
<1>1. BoxesOK(inbox', addr)
  BY MulticastOK DEF Scout, IInv, Kinds
<1> QED
  BY <1>1 DEF Scout, IInv

LEMMA OpenTimeoutOK ==
  ASSUME IInv, NEW n \in Nodes, NEW i \in Slots, OpenTimeout(n, i)
  PROVE  IInv'
<1>1. /\ TableOK(peers[n], n, addr[n]) /\ addr[n] \in Addrs
      /\ peers \in [Nodes -> [Slots -> Peer]]
  BY DEF IInv, AddrOK
<1>2. peers[n][i].state \in OPENING_MIN .. OPENING_MAX
  BY DEF OpenTimeout
<1>3. peers[n][i].addr \in Addrs /\ peers[n][i].addr # addr[n]
  BY <1>1, <1>2, States DEF TableOK, EntryOK
<1>4. UNCHANGED <<addr, faults>> /\ faults \in 0 .. MaxFaults /\ BoxesOK(inbox, addr) /\ AddrOK(addr)
  BY DEF OpenTimeout, IInv
<1>5. CASE peers[n][i].state = OPENING_MAX
  <2> DEFINE u == [peers[n] EXCEPT ![i] = reset_peer(peers[n][i])]
  <2>1. TableOK(u, n, addr[n])
    BY <1>1, ResetOK
  <2>2. peers' = [peers EXCEPT ![n] = u] /\ UNCHANGED inbox
    BY <1>5 DEF OpenTimeout
  <2> HIDE DEF u
  <2>3. Replaces(n)
    BY <1>4, <2>1, <2>2 DEF Replaces
  <2> QED
    BY <1>4, <2>3, ReplacesOK
<1>6. CASE peers[n][i].state # OPENING_MAX
  <2> DEFINE s == peers[n][i].state + 1
             u == [peers[n] EXCEPT ![i].state = s]
  <2>1. s \in UNKNOWN .. ESTABLISHED /\ s # ESTABLISHED
    BY <1>2, <1>6, States
  <2>2. peers' = [peers EXCEPT ![n] = u]
    BY <1>6 DEF OpenTimeout
  <2> HIDE DEF s
  <2>3. TableOK(u, n, addr[n])
    BY <1>1, <1>3, <2>1, StateOK
  <2> HIDE DEF u
  <2>4. BoxesOK(inbox', addr)
    <3>1. inbox' = SendTo(inbox, peers[n][i].addr, Message("open", n, NoId, FALSE))
      BY <1>6 DEF OpenTimeout
    <3>2. BoxesOK(SendTo(inbox, peers[n][i].addr, Message("open", n, NoId, FALSE)), addr)
      BY <1>3, <1>4, SendToOK DEF Kinds
    <3> QED
      BY <3>1, <3>2
  <2>5. Replaces(n)
    BY <2>2, <2>3, <2>4 DEF Replaces
  <2> QED
    BY <1>4, <2>5, ReplacesOK
<1> QED
  BY <1>5, <1>6

LEMMA LeaseExpiresOK ==
  ASSUME IInv, NEW n \in Nodes, NEW i \in Slots, LeaseExpires(n, i)
  PROVE  IInv'
<1>1. TableOK(peers[n], n, addr[n]) /\ addr[n] \in Addrs /\ BoxesOK(inbox, addr) /\ AddrOK(addr)
  BY DEF IInv, AddrOK
<1>2. peers[n][i].addr # addr[n]
  BY <1>1 DEF TableOK, EntryOK
<1>3. BoxesOK(inbox', addr)
  BY <1>1, <1>2, SendToOK DEF LeaseExpires, Kinds
<1> DEFINE u == [peers[n] EXCEPT ![i] = reset_peer(peers[n][i])]
<1>4. TableOK(u, n, addr[n])
  BY <1>1, ResetOK
<1>5. peers' = [peers EXCEPT ![n] = u] /\ UNCHANGED addr
  BY DEF LeaseExpires
<1> HIDE DEF u
<1>6. Replaces(n)
  BY <1>3, <1>4, <1>5 DEF Replaces
<1>7. faults' \in 0 .. MaxFaults
  BY SessionAssumption DEF LeaseExpires, Fault, IInv
<1> QED
  BY <1>5, <1>6, <1>7, ReplacesOK

LEMMA LoseOK ==
  ASSUME IInv, NEW n \in Nodes, Lose(n)
  PROVE  IInv'
<1>1. inbox[n] \in Seq(Msg) /\ inbox[n] # <<>> /\ inbox \in [Nodes -> Seq(Msg)]
  BY DEF Lose, IInv, BoxesOK
<1>2. QueueOK(Tail(inbox[n]), n, addr[n])
  <2>1. /\ Tail(inbox[n]) \in Seq(Msg) /\ Len(inbox[n]) \in Nat
        /\ Len(Tail(inbox[n])) = Len(inbox[n]) - 1
        /\ \A x \in 1 .. Len(Tail(inbox[n])) : Tail(inbox[n])[x] = inbox[n][x + 1]
    BY <1>1, HeadTailProperties, LenProperties
  <2>2. \A x \in 1 .. Len(Tail(inbox[n])) : x + 1 \in 1 .. Len(inbox[n])
    BY <2>1
  <2> QED
    BY <2>1, <2>2 DEF IInv, BoxesOK, QueueOK
<1>3. inbox' = [inbox EXCEPT ![n] = Tail(inbox[n])]
  BY DEF Lose
<1>4. BoxesOK(inbox', addr)
  BY <1>1, <1>2, <1>3 DEF IInv, BoxesOK, QueueOK
<1>5. faults' \in 0 .. MaxFaults
  BY SessionAssumption DEF Lose, Fault, IInv
<1> QED
  BY <1>4, <1>5 DEF Lose, IInv

LEMMA RestartOK ==
  ASSUME IInv, NEW n \in Nodes, Restart(n)
  PROVE  IInv'
<1> DEFINE u == [i \in Slots |-> NewPeer]
<1>1. TableOK(u, n, addr[n])
  BY FreshTable DEF IInv, AddrOK
<1>2. peers' = [peers EXCEPT ![n] = u] /\ UNCHANGED <<addr, inbox>>
  BY DEF Restart
<1> HIDE DEF u
<1>3. Replaces(n)
  BY <1>1, <1>2 DEF Replaces, IInv
<1>4. faults' \in 0 .. MaxFaults
  BY SessionAssumption DEF Restart, Fault, IInv
<1> QED
  BY <1>2, <1>3, <1>4, ReplacesOK

LEMMA MoveOK ==
  ASSUME IInv, NEW n \in Nodes, NEW a \in Addrs, Move(n, a)
  PROVE  IInv'
<1>1. /\ addr' = [addr EXCEPT ![n] = a] /\ inbox' = [inbox EXCEPT ![n] = <<>>]
      /\ UNCHANGED peers
      /\ \A k \in Nodes : a # addr[k] /\ Known(peers[k], a) = {}
  BY DEF Move
<1>2. AddrOK(addr) /\ BoxesOK(inbox, addr)
  BY DEF IInv
<1>3. AddrOK(addr')
  BY <1>1, <1>2 DEF AddrOK
<1>4. ASSUME NEW k \in Nodes PROVE TableOK(peers[k], k, addr'[k])
  <2>1. TableOK(peers[k], k, addr[k])
    BY DEF IInv
  <2>2. CASE k = n
    <3>1. addr'[k] = a /\ \A i \in Slots : peers[k][i].addr # a
      BY <1>1, <1>2, <2>2 DEF AddrOK, Known
    <3> QED
      BY <2>1, <3>1 DEF TableOK, EntryOK
  <2>3. CASE k # n
    BY <1>1, <1>2, <2>1, <2>3 DEF AddrOK
  <2> QED
    BY <2>2, <2>3
<1>5. BoxesOK(inbox', addr')
  <2>1. \A k \in Nodes : k # n => inbox'[k] = inbox[k] /\ addr'[k] = addr[k]
    BY <1>1, <1>2 DEF AddrOK, BoxesOK
  <2>2. inbox' \in [Nodes -> Seq(Msg)] /\ inbox'[n] = <<>>
    BY <1>1, <1>2 DEF BoxesOK
  <2>3. QueueOK(<<>>, n, addr'[n])
    BY DEF QueueOK
  <2> QED
    BY <1>2, <2>1, <2>2, <2>3 DEF BoxesOK
<1>6. faults' \in 0 .. MaxFaults
  BY SessionAssumption DEF Move, Fault, IInv
<1> QED
  BY <1>1, <1>3, <1>4, <1>5, <1>6 DEF IInv

-----------------------------------------------------------------------------
(* Results. *)

LEMMA NextOK == IInv /\ [Next]_vars => IInv'
<1> SUFFICES ASSUME IInv, [Next]_vars PROVE IInv'
  OBVIOUS
<1>1. CASE UNCHANGED vars
  BY <1>1 DEF vars, IInv
<1>2. CASE Next
  BY <1>2, ReceiveOK, ScoutOK, OpenTimeoutOK, LeaseExpiresOK, LoseOK, RestartOK, MoveOK DEF Next
<1> QED
  BY <1>1, <1>2

\* Nobody hears itself: the inductive invariant of the protocol, over any
\* interleaving of the handlers, timeouts and faults of zhe_input and
\* zhe_housekeeping.
THEOREM NoEcho == Spec => []IInv
BY InitOK, NextOK, PTL DEF Spec

\* Entries in use have an address and those in session an id other than the
\* node's own (peer_is_established and what handle_mopen writes).
THEOREM TypeCorrect == Spec => []TypeOK
<1>1. IInv => TypeOK
  BY DEF IInv, TypeOK, TableOK, EntryOK, Peer, AddrOK
<1> QED
  BY <1>1, NoEcho, PTL

\* handle_mopen and handle_maccept never establish a second session with a
\* peer, whatever addresses its packets come from (find_peeridx_by_id).
THEOREM OneSession == Spec => []OneSessionPerPeer
<1>1. IInv => OneSessionPerPeer
  BY DEF IInv, TableOK, EntryOK, Unique, InSession, OneSessionPerPeer
<1> QED
  BY <1>1, NoEcho, PTL
=============================================================================
