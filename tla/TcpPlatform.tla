---------------------------- MODULE TcpPlatform ----------------------------
(***************************************************************************)
(* The transport over TCP (example/platform/platform-tcp, without SSL):    *)
(* frames in byte streams, connections that are made again, and addresses  *)
(* that name a connection by its index and a serial number.                *)
(*                                                                         *)
(* A socket takes Cap bytes in each direction, so that writes and reads    *)
(* are partial.  A write to an end that is closed fails at once, and a     *)
(* connect succeeds if it does not fail.  Sockets use TCP, not SSL.        *)
(* Of the program that uses the transport there is only what               *)
(* bears on it: it answers a SCOUT with a HELLO, sends packets to the      *)
(* addresses it received from, closes sessions, and takes each packet as a *)
(* whole.  Frames of length 0, which switch framing off, are never sent.   *)
(***************************************************************************)
EXTENDS Integers, SequencesExt, FiniteSetsExt

CONSTANTS
    Nodes, NONE,
    Listeners,           \* nodes with a server socket
    PingAddrs,           \* for each node the listeners it connects to
    MAX_CONNECTIONS,     \* for each node
    TRANSPORT_MTU,
    Cap,                 \* bytes in a socket, in each direction
    Base,                \* 128, the values of a byte without the continuation bit
    SCOUT, HELLO, DATA,  \* packets, sequences of bytes
    MaxSends,            \* bound on the packets sent in each direction of a connection
    MaxFaults            \* bound on timeouts, failures and sessions closed

ASSUME TcpAssumption ==
    /\ NONE \notin Nodes /\ Listeners \subseteq Nodes
    /\ PingAddrs \in [Nodes -> SUBSET Listeners]
    /\ \A n \in Nodes : n \notin PingAddrs[n]   \* the ends of a link are different
    /\ MAX_CONNECTIONS \in [Nodes -> Nat \ {0}]
    /\ \A pkt \in {SCOUT, HELLO, DATA} : pkt \in Seq(Nat) /\ Len(pkt) \in 1 .. TRANSPORT_MTU
    /\ {TRANSPORT_MTU, Base} \subseteq Nat /\ TRANSPORT_MTU < Base * Base /\ Cap \in Nat \ {0}
    /\ Cap > Len(SCOUT) + 1                \* the first write is never partial
    /\ {MaxSends, MaxFaults} \subseteq Nat

VARIABLES
    conns,           \* for each node its connections
    cursor,          \* for each node the connection that zhe_platform_recv starts at
    pingthrottle,    \* for each node the addresses it does not yet connect to again
    links,           \* the sockets: all connections ever made, in order
    known,           \* for each node the addresses it was given, and their links
    faults

vars == <<conns, cursor, pingthrottle, links, known, faults>>

Idx(n) == 1 .. MAX_CONNECTIONS[n]
BufSize == TRANSPORT_MTU + 2

\* sock is an index of links, in and out are what buf[pos .. lim) holds
ClosedConn(serial) ==
    [state |-> "CLOSED", serial |-> serial, sock |-> 0, datawaiting |-> FALSE,
     in |-> <<>>, out |-> <<>>, pingprogeny |-> NONE]

\* A connection between from and to: the bytes on the way to either end, the ends
\* that have not closed it, the packets sent from and received at either end.
NewLink(from, to) ==
    [from |-> from, to |-> to, open |-> {from, to}, accepted |-> FALSE,
     wire |-> [n \in {from, to} |-> <<>>],
     sent |-> [n \in {from, to} |-> <<>>], got |-> [n \in {from, to} |-> <<>>]]

\* zhe_platform_new
Init ==
    /\ conns = [n \in Nodes |-> [i \in Idx(n) |-> ClosedConn(0)]]
    /\ cursor = [n \in Nodes |-> 1]
    /\ pingthrottle = [n \in Nodes |-> {}]
    /\ links = <<>>
    /\ known = [n \in Nodes |-> {}]
    /\ faults = 0

-----------------------------------------------------------------------------
(* The end n of a link. *)

Other(link, n) == IF n = link.from THEN link.to ELSE link.from
HungUp(link, n) == Other(link, n) \notin link.open
ClosedAt(link, n) == [link EXCEPT !.open = @ \ {n}, !.wire[n] = <<>>]

\* conn_write: the socket takes the first k of the bytes
SpaceLeft(link, n) == Cap - Len(link.wire[Other(link, n)])
WrittenAt(link, n, bytes, k) == [link EXCEPT !.wire[Other(link, n)] = @ \o SubSeq(bytes, 1, k)]

\* conn_read: how many bytes there are, and room for
ReadCount(conn, link, n) == Min({Len(link.wire[n]), BufSize - Len(conn.in)})

\* read gives 0, at the end of the file and when there is no room
Eof(conn, link, n) == Len(conn.in) = BufSize \/ (link.wire[n] = <<>> /\ HungUp(link, n))

Rest(bytes, k) == SubSeq(bytes, k + 1, Len(bytes))

-----------------------------------------------------------------------------
(* Frames and states of a connection. *)

encvle14(val) == IF val < Base THEN <<val>> ELSE <<Base + (val % Base), val \div Base>>

\* the number of bytes of the length, 0 if it is incomplete, -1 if it is invalid
decvle14(src) ==
    CASE src = <<>> -> [n |-> -1, val |-> 0]
      [] Len(src) >= 1 /\ src[1] < Base -> [n |-> 1, val |-> src[1]]
      [] Len(src) = 1 /\ src[1] >= Base -> [n |-> 0, val |-> 0]
      [] Len(src) > 1 /\ src[1] >= Base /\ src[2] < Base ->
            [n |-> 2, val |-> src[2] * Base + (src[1] % Base)]
      [] OTHER -> [n |-> -1, val |-> 0]

Frame(pkt) == encvle14(Len(pkt)) \o pkt

SameSerial(conn) == [conn EXCEPT !.state = "LIVE"]                    \* mutant
make_live(conn) ==
    IF conn.state = "LIVE" THEN conn ELSE [conn EXCEPT !.state = "LIVE", !.serial = @ + 1]

make_closed(conn) == ClosedConn(conn.serial)
Throttled(conn, throttle) == IF throttle THEN {conn.pingprogeny} \ {NONE} ELSE {}

\* make_waitdata: the one that connects has to speak first, so that the other
\* becomes live; it gives up when that fails
SaysNothing(link, n) == link                                          \* mutant
SendScout(link, n) ==
    [WrittenAt(link, n, Frame(SCOUT), Len(Frame(SCOUT))) EXCEPT !.sent[n] = <<SCOUT>>]
make_waitdata(conn) == [conn EXCEPT !.state = "WAITDATA"]

-----------------------------------------------------------------------------
(* Sending: what could not be written of a packet is kept and written       *)
(* before the next one; while some of it is left, packets are dropped.      *)

\* how much is taken of what was left, and of the frame
FromOut(conn, link, n) == Min({Len(conn.out), SpaceLeft(link, n)})
FromFrame(conn, link, n, pkt) ==
    IF FromOut(conn, link, n) < Len(conn.out) THEN 0
    ELSE Min({Len(Frame(pkt)), SpaceLeft(link, n) - Len(conn.out)})

LosesLeftover(frame, k) == <<>>                                       \* mutant
Leftover(frame, k) == Rest(frame, k)

\* zhe_platform_send_conn: the connection and its link afterwards
SentConn(conn, link, n, pkt) ==
    IF HungUp(link, n) THEN IF conn.out # <<>> THEN conn ELSE make_closed(conn)
    ELSE [conn EXCEPT !.out =
             IF FromFrame(conn, link, n, pkt) = 0 THEN Rest(@, FromOut(conn, link, n))
             ELSE Leftover(Frame(pkt), FromFrame(conn, link, n, pkt))]
SentLink(conn, link, n, pkt) ==
    LET k == FromFrame(conn, link, n, pkt)
    IN  IF HungUp(link, n) THEN IF conn.out # <<>> THEN link ELSE ClosedAt(link, n)
        ELSE [WrittenAt(link, n, conn.out \o Frame(pkt), FromOut(conn, link, n) + k)
                 EXCEPT !.sent[n] = IF k = 0 THEN @ ELSE Append(@, pkt)]

Live(n) == {i \in Idx(n) : conns[n][i].state = "LIVE"}
MaySend(link, n) == Len(link.sent[n]) < MaxSends

\* zhe_platform_send, over the connections in dsts
SendOver(n, dsts, pkt) ==
    /\ \A i \in dsts : MaySend(links[conns[n][i].sock], n)
    /\ conns' = [conns EXCEPT ![n] = [i \in Idx(n) |->
                    IF i \in dsts THEN SentConn(@[i], links[@[i].sock], n, pkt) ELSE @[i]]]
    /\ links' = [l \in DOMAIN links |->
                    IF \E i \in dsts : conns[n][i].sock = l
                    THEN SentLink(conns[n][CHOOSE i \in dsts : conns[n][i].sock = l], links[l], n, pkt)
                    ELSE links[l]]
    /\ UNCHANGED <<cursor, pingthrottle, known, faults>>

Names(id, conn) == conn.state = "LIVE" /\ conn.serial = id[2]

\* to a connection; for one that is gone SENDRECV_HANGUP is returned
SendTo(n, id) == Names(id, conns[n][id[1]]) /\ SendOver(n, {id[1]}, DATA)

\* to an IP address: to all that are live
SendToAll(n) == Live(n) # {} /\ SendOver(n, Live(n), SCOUT)

-----------------------------------------------------------------------------
(* Receiving: zhe_platform_recv, zhe_input on what it gives, and            *)
(* zhe_platform_advance.                                                    *)

Ready(n, i) ==
    LET conn == conns[n][i]
        link == links[conn.sock]
    IN  /\ conn.state \in {"WAITDATA", "LIVE"}
        /\ ReadCount(conn, link, n) > 0 \/ Eof(conn, link, n) \/ conn.datawaiting

Close(n, i, throttle) ==
    /\ conns' = [conns EXCEPT ![n][i] = make_closed(@)]
    /\ links' = [links EXCEPT ![conns[n][i].sock] = ClosedAt(@, n)]
    /\ pingthrottle' = [pingthrottle EXCEPT ![n] = @ \cup Throttled(conns[n][i], throttle)]
    /\ UNCHANGED known

NothingMore(rest) == FALSE                                            \* mutant
MoreWaiting(rest) == rest # <<>>

\* A packet is given to the program, which answers a SCOUT, and then taken out of
\* the buffer (zhe_platform_advance does that if the connection is still there).
Deliver(n, i, conn, link, pkt, rest) ==
    \E taken \in {[conn EXCEPT !.in = rest, !.datawaiting = MoreWaiting(rest)]},
       got \in {[link EXCEPT !.got[n] = Append(@, pkt)]} :
          /\ IF pkt = SCOUT /\ MaySend(link, n)
             THEN /\ conns' = [conns EXCEPT ![n][i] = SentConn(taken, got, n, HELLO)]
                  /\ links' = [links EXCEPT ![conn.sock] = SentLink(taken, got, n, HELLO)]
             ELSE /\ conns' = [conns EXCEPT ![n][i] = taken]
                  /\ links' = [links EXCEPT ![conn.sock] = got]
          /\ known' = [known EXCEPT ![n] = @ \cup {<<<<i, conn.serial>>, conn.sock>>}]
          /\ UNCHANGED pingthrottle

\* handle_data, after k bytes were read into the buffer
handle_data(n, i, k) ==
    \E conn \in {make_live(conns[n][i])} :
    \E in \in {conn.in \o SubSeq(links[conn.sock].wire[n], 1, k)},
       read \in {[links[conn.sock] EXCEPT !.wire[n] = Rest(@, k)]} :
    \E len \in {decvle14(in)} :
       LET end == len.n + len.val
       IN  IF len.n < 0 THEN Close(n, i, TRUE)
           ELSE IF len.n = 0 \/ Len(in) < end
           THEN /\ conns' = [conns EXCEPT ![n][i] = [conn EXCEPT !.in = in, !.datawaiting = FALSE]]
                /\ links' = [links EXCEPT ![conn.sock] = read]
                /\ UNCHANGED <<pingthrottle, known>>
           ELSE Deliver(n, i, conn, read, SubSeq(in, len.n + 1, end), Rest(in, end))

\* Connection i is the first from the cursor on that has something to read.
RecvFrom(n, i) ==
    LET k == ReadCount(conns[n][i], links[conns[n][i].sock], n)
    IN  /\ cursor' = [cursor EXCEPT ![n] = i + 1]
        /\ IF k = 0 /\ Eof(conns[n][i], links[conns[n][i].sock], n)
           THEN Close(n, i, FALSE) ELSE handle_data(n, i, k)

Free(n) == {i \in Idx(n) : conns[n][i].state = "CLOSED"}
Backlog(n) == {l \in DOMAIN links : links[l].to = n /\ ~links[l].accepted}

\* After the last one a connection is accepted, if there is one and room for it.
Accept(n) ==
    /\ cursor' = [cursor EXCEPT ![n] = 1]
    /\ IF n \in Listeners /\ Free(n) # {} /\ Backlog(n) # {}
       THEN /\ conns' = [conns EXCEPT ![n][Min(Free(n))] =
                            make_waitdata([@ EXCEPT !.sock = Min(Backlog(n))])]
            /\ links' = [links EXCEPT ![Min(Backlog(n))].accepted = TRUE]
       ELSE UNCHANGED <<conns, links>>
    /\ UNCHANGED <<pingthrottle, known>>

zhe_platform_recv(n) ==
    LET ready == {i \in Idx(n) : i >= cursor[n] /\ Ready(n, i)}
    IN  /\ IF ready # {} THEN RecvFrom(n, Min(ready)) ELSE Accept(n)
        /\ UNCHANGED faults

\* zhe_platform_wait_prep: whether select would be called
shouldwait(n) ==
    ~\E i \in Idx(n) : conns[n][i].state \in {"WAITDATA", "LIVE"} /\ conns[n][i].datawaiting

-----------------------------------------------------------------------------
(* Housekeeping and faults. *)

Tentative(n) == {i \in Idx(n) : conns[n][i].state \in {"TCPCONNECT", "WAITDATA"}}
Connecting(n) == {i \in Idx(n) : conns[n][i].state = "TCPCONNECT"}

\* mutant: also while there is a connection
EveryPing(n, throttle) == PingAddrs[n] \ throttle
\* pingmask after the loop
PingsDue(n, throttle) ==
    PingAddrs[n] \ (throttle \cup {conns[n][i].pingprogeny : i \in Idx(n)})

\* try_connect takes the last connection that was free
Clidx(n) == Max(Free(n))
ConnectTo(conn, p, l) ==
    [conn EXCEPT !.state = "TCPCONNECT", !.sock = l, !.pingprogeny = p]

\* zhe_platform_housekeeping, when the throttling of the addresses in over ends,
\* the connections in failed are closed because they were not live in time or
\* because connect failed, and the others have connected.
Housekeeping(n, over, failed) ==
    LET throttle == pingthrottle[n] \ over
        Gone(i) == i \in failed \/ (i \in Connecting(n) /\ HungUp(links[conns[n][i].sock], n))
        closed == {i \in Tentative(n) : Gone(i)}
        connected == Connecting(n) \ closed
        At(S, l) == \E i \in S : conns[n][i].sock = l
        linksNow == [l \in DOMAIN links |-> IF At(closed, l) THEN ClosedAt(links[l], n)
                                            ELSE IF At(connected, l) THEN SendScout(links[l], n)
                                            ELSE links[l]]
        connsNow == [i \in Idx(n) |-> IF i \in closed THEN make_closed(conns[n][i])
                                      ELSE IF i \in connected THEN make_waitdata(conns[n][i])
                                      ELSE conns[n][i]]
        due == PingsDue(n, throttle)
    IN  /\ faults + Cardinality(failed) <= MaxFaults
        /\ faults' = faults + Cardinality(failed)
        /\ pingthrottle' = [pingthrottle EXCEPT ![n] =
                               throttle \cup UNION {Throttled(conns[n][i], TRUE) : i \in closed}]
        /\ IF Free(n) # {} /\ due # {}
           THEN LET p == CHOOSE x \in due : TRUE
                IN  /\ links' = Append(linksNow, NewLink(n, p))
                    /\ conns' = [conns EXCEPT ![n] =
                                    [connsNow EXCEPT ![Clidx(n)] = ConnectTo(@, p, Len(links) + 1)]]
           ELSE links' = linksNow /\ conns' = [conns EXCEPT ![n] = connsNow]
        /\ UNCHANGED <<cursor, known>>

\* zhe_platform_close_session, called by reset_peer
zhe_platform_close_session(n, id) ==
    /\ Names(id, conns[n][id[1]])
    /\ faults < MaxFaults /\ faults' = faults + 1
    /\ Close(n, id[1], FALSE)
    /\ UNCHANGED cursor

Next ==
    \/ \E n \in Nodes : zhe_platform_recv(n)
    \/ \E n \in Nodes : \E over \in SUBSET pingthrottle[n], failed \in SUBSET Tentative(n) :
          Housekeeping(n, over, failed)
    \/ \E n \in Nodes : \E k \in known[n] : SendTo(n, k[1])
    \/ \E n \in Nodes : SendToAll(n)
    \/ \E n \in Nodes : \E k \in known[n] : zhe_platform_close_session(n, k[1])

\* The program receives and calls housekeeping again and again, and in time every
\* throttling ends.
Spec ==
    /\ Init /\ [][Next]_vars
    /\ \A n \in Nodes : /\ WF_vars(zhe_platform_recv(n))
                        /\ WF_vars(Housekeeping(n, pingthrottle[n], {}))

-----------------------------------------------------------------------------
(* Properties. *)

\* The buffers hold a frame at most, a connection in use has a socket to itself.
TypeOK ==
    /\ \A n \in Nodes : \A i \in Idx(n) :
          LET conn == conns[n][i]
          IN  /\ conn.state \in {"CLOSED", "TCPCONNECT", "WAITDATA", "LIVE"}
              /\ Len(conn.in) < BufSize /\ Len(conn.out) < BufSize
              /\ conn.state # "CLOSED" =>
                    /\ n \in links[conn.sock].open
                    /\ \A j \in Idx(n) \ {i} : conns[n][j].sock # conn.sock
    /\ \A n \in Nodes : cursor[n] \in 1 .. MAX_CONNECTIONS[n] + 1
    /\ faults \in 0 .. MaxFaults

BufferOf(n, l, buf) ==
    LET at == {i \in Idx(n) : conns[n][i].sock = l}
    IN  IF at = {} THEN <<>> ELSE LET conn == conns[n][CHOOSE i \in at : TRUE]
                                  IN  IF buf = "in" THEN conn.in ELSE conn.out

\* However writes and reads are cut up, what is between the two ends of a connection
\* is the frames of the packets that were sent and not yet received: no packet
\* is split, joined, lost or repeated while the connection lasts.
FramesIntact ==
    \A l \in DOMAIN links : \A n \in links[l].open :
        LET link == links[l]
            m == Other(link, n)
            missing == Rest(link.sent[n], Len(link.got[m]))
        IN  /\ IsPrefix(link.got[m], link.sent[n])
            /\ m \in link.open =>
                  BufferOf(m, l, "in") \o link.wire[m] \o BufferOf(n, l, "out")
                     = FlattenSeq([k \in DOMAIN missing |-> Frame(missing[k])])

\* A packet sent to an address that came with an earlier packet goes out over the
\* connection of that packet or not at all, also when the index is in use again.
AddressNamesConnection ==
    \A n \in Nodes : \A k \in known[n] :
        LET conn == conns[n][k[1][1]]
        IN  conn.state = "LIVE" /\ conn.serial = k[1][2] => conn.sock = k[2]

\* There is at most one connection for an address to connect to.
OneConnectionPerPing ==
    \A n \in Nodes : \A i, j \in Idx(n) :
        /\ conns[n][i].state # "CLOSED" /\ conns[n][j].state # "CLOSED"
        /\ conns[n][i].pingprogeny = conns[n][j].pingprogeny
        /\ conns[n][i].pingprogeny # NONE
        => i = j

\* zhe_platform_wait does not block while a whole frame is in a buffer: nobody
\* would look at it before more bytes arrive.
FrameIsWaitedFor ==
    \A n \in Nodes : \A i \in Idx(n) :
        LET conn == conns[n][i]
            len == decvle14(conn.in)
        IN  len.n > 0 /\ Len(conn.in) >= len.n + len.val => ~shouldwait(n)

\* Once faults end, each address to connect to has a live connection, for good.
Reconnects ==
    <>[](\A n \in Nodes : \A p \in PingAddrs[n] :
            \E i \in Idx(n) : conns[n][i].state = "LIVE" /\ conns[n][i].pingprogeny = p)
=============================================================================
