------------------------------ MODULE Session ------------------------------
(***************************************************************************)
(* Sessions between peers (MAX_PEERS > 0, SCOUT_COUNT = 0): discovery by   *)
(* SCOUT and HELLO, opening by OPEN and ACCEPT, ending by CLOSE or by the  *)
(* lease, and the table in which zhe_input looks up the source address of  *)
(* a packet.                                                               *)
(*                                                                         *)
(* The transport is a mailbox for each node.  A message equal to one that  *)
(* is still in the mailbox is not added to it again.  Lost messages,       *)
(* expired leases, restarts and changes of address are bounded by          *)
(* MaxFaults.  Malformed messages and rejected versions are not modelled.  *)
(***************************************************************************)
EXTENDS Naturals, Sequences, SequencesExt, FiniteSets

CONSTANTS
    Nodes,             \* the nodes, each is its own peer id
    MAX_PEERS,         \* entries of a node's table of peers
    OPENING_MAX,       \* PEERST_OPENING_MAX: attempts at opening a session
    Addrs,             \* addresses
    HomeAddr,          \* the address each node starts with
    NoAddr, NoId,      \* an entry of the table that was reset
    Faults,            \* the kinds of fault that may happen
    MaxFaults,         \* bound: faults in a behaviour
    Reordering,        \* messages may arrive in another order
    Timely,            \* OPEN_INTERVAL is longer than it takes to be answered
    NDEBUG             \* resetting an entry leaves its address in it

ASSUME SessionAssumption ==
    /\ MAX_PEERS \in Nat \ {0} /\ OPENING_MAX \in Nat \ {0}
    /\ HomeAddr \in [Nodes -> Addrs] /\ IsInjective(HomeAddr)
    /\ NoAddr \notin Addrs /\ NoId \notin Nodes
    /\ Faults \subseteq {"loss", "expiry", "restart", "move"}
    /\ MaxFaults \in Nat /\ {Reordering, Timely, NDEBUG} \subseteq BOOLEAN

VARIABLES
    peers,             \* the table of peers of each node
    addr,              \* the address each node sends from
    inbox,             \* the messages on their way to each node
    faults             \* number of faults so far

vars == <<peers, addr, inbox, faults>>

\* values of peer.state; 1 .. OPENING_MAX count the attempts at opening
UNKNOWN == 0
OPENING_MIN == 1
ESTABLISHED == OPENING_MAX + 1

Slots == 1 .. MAX_PEERS
NewPeer == [state |-> UNKNOWN, addr |-> NoAddr, id |-> NoId]
reset_peer(p) == IF NDEBUG THEN [NewPeer EXCEPT !.addr = p.addr] ELSE NewPeer

Message(kind, n, to, ka) ==
    [kind |-> kind, src |-> addr[n], id |-> n, to |-> to, keepalive |-> ka]

Put(q, m) == IF m \in ToSet(q) THEN q ELSE Append(q, m)

\* zhe_platform_send to an address, or to the scouting address
SendTo(boxes, a, m) == [k \in Nodes |-> IF addr[k] = a THEN Put(boxes[k], m) ELSE boxes[k]]
Multicast(boxes, n, m) == [k \in Nodes |-> IF k # n THEN Put(boxes[k], m) ELSE boxes[k]]

Init ==
    /\ peers = [n \in Nodes |-> [i \in Slots |-> NewPeer]]
    /\ addr = HomeAddr
    /\ inbox = [n \in Nodes |-> <<>>]
    /\ faults = 0

-----------------------------------------------------------------------------
(* Looking up peers. *)

First(S) == CHOOSE i \in S : \A j \in S : i <= j

\* zhe_input: the entry for a source address, or else a free one
Known(t, a) == {i \in Slots : t[i].addr = a}
Free(t) == {i \in Slots : t[i].state = UNKNOWN}
HasSlot(t, a) == Known(t, a) \cup Free(t) # {}
SlotOf(t, a) == First(IF Known(t, a) # {} THEN Known(t, a) ELSE Free(t))

ByAddressOnly(t, i, id) == i                          \* mutant

\* find_peeridx_by_id: the entry of the session with peer id
find_peeridx_by_id(t, i, id) ==
    LET same == {j \in Slots : t[j].state = ESTABLISHED /\ t[j].id = id}
    IN  IF t[i].state # ESTABLISHED /\ same # {} THEN First(same) ELSE i

\* and the table then: the address of that entry is the one used by entry i
Rehomed(t, i, id) == [t EXCEPT ![find_peeridx_by_id(t, i, id)].addr = t[i].addr]

accept_peer(t, i, id) == [t EXCEPT ![i].state = ESTABLISHED, ![i].id = id]

-----------------------------------------------------------------------------
(* The handlers: node n receives message m, i is the entry found for its   *)
(* source address, t the table, boxes the mailboxes without m.             *)

\* handle_mscout, and handle_mkeepalive for the KEEPALIVE that may follow it
HandleScout(n, m, i, t, boxes) ==
    /\ m.kind = "scout"
    /\ peers' = [peers EXCEPT ![n] = IF m.keepalive THEN Rehomed(t, i, m.id) ELSE t]
    /\ inbox' = IF t[i].state = UNKNOWN
                THEN SendTo(boxes, m.src, Message("hello", n, NoId, FALSE)) ELSE boxes

HelloWhenUnknown(s) == s = UNKNOWN                    \* mutant

\* handle_mhello answers in these states; once ESTABLISHED it is a reconnect
AnswersHello(s) == s \in {UNKNOWN, ESTABLISHED}

HandleHello(n, m, i, t, boxes) ==
    /\ m.kind = "hello"
    /\ IF AnswersHello(t[i].state)
       THEN /\ peers' = [peers EXCEPT ![n] =
                            IF t[i].state = UNKNOWN
                            THEN [t EXCEPT ![i].state = OPENING_MIN] ELSE t]
            /\ inbox' = SendTo(boxes, m.src, Message("open", n, NoId, FALSE))
       ELSE peers' = [peers EXCEPT ![n] = t] /\ inbox' = boxes

\* handle_mopen, for an acceptable OPEN
HandleOpen(n, m, i, t, boxes) ==
    LET j == find_peeridx_by_id(t, i, m.id)
        t1 == Rehomed(t, i, m.id)
        t2 == IF t1[j].state # ESTABLISHED THEN accept_peer(t1, j, m.id) ELSE t1
    IN  /\ m.kind = "open"
        /\ peers' = [peers EXCEPT ![n] = t2]
        /\ inbox' = SendTo(boxes, t2[j].addr, Message("accept", n, t2[j].id, FALSE))

\* handle_maccept
HandleAccept(n, m, i, t, boxes) ==
    LET j == find_peeridx_by_id(t, i, m.id)
        t1 == Rehomed(t, i, m.id)
    IN  /\ m.kind = "accept"
        /\ peers' = [peers EXCEPT ![n] =
                        IF m.to # n THEN t
                        ELSE IF t1[j].state \in OPENING_MIN .. OPENING_MAX
                        THEN accept_peer(t1, j, m.id) ELSE t1]
        /\ inbox' = boxes

\* handle_mclose
HandleClose(n, m, i, t, boxes) ==
    LET j == find_peeridx_by_id(t, i, m.id)
        t1 == Rehomed(t, i, m.id)
    IN  /\ m.kind = "close"
        /\ peers' = [peers EXCEPT ![n] =
                        IF t1[j].state = UNKNOWN THEN t1 ELSE [t1 EXCEPT ![j] = reset_peer(@)]]
        /\ inbox' = boxes

\* zhe_input
Receive(n, k) ==
    /\ k \in 1 .. Len(inbox[n]) /\ (k = 1 \/ Reordering)
    /\ LET m == inbox[n][k]
           boxes == [inbox EXCEPT ![n] = RemoveAt(@, k)]
           i == SlotOf(peers[n], m.src)
           t == [peers[n] EXCEPT ![i].addr = m.src]
       IN  IF ~HasSlot(peers[n], m.src) THEN inbox' = boxes /\ UNCHANGED peers
           ELSE \/ HandleScout(n, m, i, t, boxes) \/ HandleHello(n, m, i, t, boxes)
                \/ HandleOpen(n, m, i, t, boxes) \/ HandleAccept(n, m, i, t, boxes)
                \/ HandleClose(n, m, i, t, boxes)
    /\ UNCHANGED <<addr, faults>>

-----------------------------------------------------------------------------
(* zhe_housekeeping. *)

\* send_scout; zhe_platform_needs_keepalive decides whether a KEEPALIVE follows
Scout(n, ka) ==
    /\ \A k \in Nodes \ {n}, x \in BOOLEAN :
          Message("scout", n, NoId, x) \notin ToSet(inbox[k])
    /\ inbox' = Multicast(inbox, n, Message("scout", n, NoId, ka))
    /\ UNCHANGED <<peers, addr, faults>>

\* an OPEN sent for entry i, or the ACCEPT in answer to it
OnItsWay(n, i) ==
    \/ \E m \in ToSet(inbox[n]) : m.kind = "accept" /\ m.src = peers[n][i].addr
    \/ \E k \in Nodes : /\ addr[k] = peers[n][i].addr
                         /\ \E m \in ToSet(inbox[k]) : m.kind = "open" /\ m.src = addr[n]

\* tlease is more than OPEN_INTERVAL ago while opening
OpenTimeout(n, i) ==
    /\ peers[n][i].state \in OPENING_MIN .. OPENING_MAX
    /\ Timely => ~OnItsWay(n, i)
    /\ IF peers[n][i].state = OPENING_MAX
       THEN peers' = [peers EXCEPT ![n][i] = reset_peer(@)] /\ UNCHANGED inbox
       ELSE /\ peers' = [peers EXCEPT ![n][i].state = @ + 1]
            /\ inbox' = SendTo(inbox, peers[n][i].addr, Message("open", n, NoId, FALSE))
    /\ UNCHANGED <<addr, faults>>

-----------------------------------------------------------------------------
(* Faults. *)

Fault(kind) ==
    /\ kind \in Faults /\ faults < MaxFaults
    /\ faults' = faults + 1

\* zhe_housekeeping: nothing was heard from the peer for the lease
LeaseExpires(n, i) ==
    /\ Fault("expiry")
    /\ peers[n][i].state = ESTABLISHED
    /\ inbox' = SendTo(inbox, peers[n][i].addr, Message("close", n, NoId, FALSE))
    /\ peers' = [peers EXCEPT ![n][i] = reset_peer(@)]
    /\ UNCHANGED addr

Lose(n) ==
    /\ Fault("loss")
    /\ inbox[n] # <<>>
    /\ inbox' = [inbox EXCEPT ![n] = Tail(@)]
    /\ UNCHANGED <<peers, addr>>

\* the process is started again: zhe_init
Restart(n) ==
    /\ Fault("restart")
    /\ peers' = [peers EXCEPT ![n] = [i \in Slots |-> NewPeer]]
    /\ UNCHANGED <<addr, inbox>>

\* the address, one not in use before, changes (a NAT, a new network); what is
\* on its way to the old one is lost
Move(n, a) ==
    /\ Fault("move")
    /\ \A k \in Nodes : a \notin {addr[k], HomeAddr[k]} /\ Known(peers[k], a) = {}
    /\ addr' = [addr EXCEPT ![n] = a]
    /\ inbox' = [inbox EXCEPT ![n] = <<>>]
    /\ UNCHANGED peers

Next ==
    \/ \E n \in Nodes :
          \/ \E k \in 1 .. Len(inbox[n]) : Receive(n, k)
          \/ \E ka \in BOOLEAN : Scout(n, ka)
          \/ \E i \in Slots : OpenTimeout(n, i) \/ LeaseExpires(n, i)
          \/ Lose(n) \/ Restart(n)
    \/ \E n \in Nodes, a \in Addrs : Move(n, a)

Spec == Init /\ [][Next]_vars

\* The application calls zhe_housekeeping and zhe_input over and over.
FairSpec ==
    /\ Spec
    /\ \A n \in Nodes :
          /\ WF_vars(Receive(n, 1)) /\ WF_vars(\E ka \in BOOLEAN : Scout(n, ka))
          /\ \A i \in Slots : WF_vars(OpenTimeout(n, i))

-----------------------------------------------------------------------------
(* Properties. *)

Established(n, m) == \E i \in Slots : peers[n][i].state = ESTABLISHED /\ peers[n][i].id = m

\* Entries in use have an address, those in session an id; a node has no
\* session with itself.
TypeOK ==
    /\ \A n \in Nodes, i \in Slots :
          /\ peers[n][i].state \in UNKNOWN .. ESTABLISHED
          /\ peers[n][i].state # UNKNOWN => peers[n][i].addr \in Addrs
          /\ peers[n][i].state = ESTABLISHED => peers[n][i].id \in Nodes \ {n}
    /\ addr \in [Nodes -> Addrs]
    /\ faults \in 0 .. MaxFaults

\* A peer has one session at a node, whatever addresses it has sent from
\* (handle_mopen and handle_maccept look for the id before they accept).
OneSessionPerPeer ==
    \A n \in Nodes, i, j \in Slots :
        /\ peers[n][i].state = ESTABLISHED /\ peers[n][j].state = ESTABLISHED
        /\ peers[n][i].id = peers[n][j].id
        => i = j

\* zhe_input finds the session of a packet that comes from the address the
\* session has: no other entry with that address comes first.
SourceFindsSession ==
    \A n \in Nodes, i \in Slots :
        peers[n][i].state = ESTABLISHED => SlotOf(peers[n], peers[n][i].addr) = i

\* Once faults stop, any two nodes get into session with each other, and stay:
\* a session that only one of them has kept does not stop the other.
EventuallyConnected == <>[](\A n, m \in Nodes : n # m => Established(n, m))
=============================================================================
