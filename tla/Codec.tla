------------------------------- MODULE Codec -------------------------------
(***************************************************************************)
(* Messages as bytes: what zhe-pack writes, the space it reserves for it,  *)
(* and what zhe_input reads from packets and from streams (zhe-unpack and  *)
(* the first lines of the handlers in zhe.c).                              *)
(*                                                                         *)
(* A packed message has the header and the fields that a reader is to get, *)
(* its bytes, and the space reserved.  Sequence numbers are without the    *)
(* shift.  The value that an overflowing number is truncated to is left    *)
(* out: such numbers are never packed.                                     *)
(***************************************************************************)
EXTENDS Integers, SequencesExt, FiniteSetsExt

CONSTANTS
    SEQNUM_LEN,
    ZHE_MAX_RID,
    N_OUT_CONDUITS, N_IN_CONDUITS,
    multicast_locators      \* as strings, sequences of bytes

ASSUME CodecAssumption ==
    /\ SEQNUM_LEN \in 1 .. 28 /\ N_OUT_CONDUITS \in 1 .. N_IN_CONDUITS /\ N_IN_CONDUITS <= 127
    /\ ZHE_MAX_RID \in 1 .. 2 ^ 30 - 1

Msg == [SCOUT |-> 1, HELLO |-> 2, OPEN |-> 3, ACCEPT |-> 4, CLOSE |-> 5, DECLARE |-> 6,
        SDATA |-> 7, WDATA |-> 9, PING |-> 12, PONG |-> 13, SYNCH |-> 14, ACKNACK |-> 15,
        KEEPALIVE |-> 16, CONDUIT |-> 19]
Decl == [RESOURCE |-> 1, PUB |-> 2, SUB |-> 3, SELECTION |-> 4, BINDID |-> 5, COMMIT |-> 6,
         RESULT |-> 7, FRESOURCE |-> 8, FPUB |-> 9, FSUB |-> 10, FSELECTION |-> 11]
Flag == [S |-> 32, M |-> 32, P |-> 32, R |-> 64, C |-> 64, Z |-> 128, A |-> 128, U |-> 128]

Has(hdr, flag) == (hdr \div flag) % 2 = 1
If(cond, flag) == IF cond THEN flag ELSE 0

-----------------------------------------------------------------------------
(* Numbers, seven bits to a byte, and the bytes they need.                  *)

More(x) == 128 + (x % 128)              \* with the continuation bit

zhe_pack_vle16(x) ==
    CASE x <= 127 -> <<x>>
      [] x \in 128 .. 16383 -> <<More(x), x \div 128>>
      [] x > 16383 -> <<More(x), More(x \div 128), x \div 16384>>

zhe_pack_vle16req(x) == IF x <= 127 THEN 1 ELSE IF x <= 16383 THEN 2 ELSE 3

RECURSIVE zhe_pack_vle32(_)
zhe_pack_vle32(x) == IF x <= 127 THEN <<x>> ELSE <<More(x)>> \o zhe_pack_vle32(x \div 128)

RECURSIVE zhe_pack_vle32req(_)
zhe_pack_vle32req(x) == IF x <= 127 THEN 1 ELSE 1 + zhe_pack_vle32req(x \div 128)

zhe_pack_seq(x) ==
    CASE SEQNUM_LEN <= 8 -> <<x>>
      [] SEQNUM_LEN \in 9 .. 16 -> zhe_pack_vle16(x)
      [] SEQNUM_LEN > 16 -> zhe_pack_vle32(x)

zhe_pack_seqreq(x) ==
    CASE SEQNUM_LEN <= 8 -> 1
      [] SEQNUM_LEN \in 9 .. 16 -> zhe_pack_vle16req(x)
      [] SEQNUM_LEN > 16 -> zhe_pack_vle32req(x)

WORST_CASE_SEQ_SIZE == (8 * SEQNUM_LEN + 6) \div 7

\* The least significant bit of a resource id says that it is one.
zhe_pack_rid(x) == zhe_pack_vle32(2 * x)
zhe_pack_ridreq(x) == zhe_pack_vle32req(2 * x)

zhe_pack_vec(v) == zhe_pack_vle16(Len(v)) \o v
VecReq(v) == zhe_pack_vle16req(Len(v)) + Len(v)

zhe_pack_locs ==
    zhe_pack_vle16(Len(multicast_locators))
        \o FlattenSeq([k \in DOMAIN multicast_locators |-> zhe_pack_vec(multicast_locators[k])])

zhe_pack_locs_calcsize ==
    FoldLeft(LAMBDA n, loc : n + VecReq(loc),
             zhe_pack_vle16req(Len(multicast_locators)), multicast_locators)

-----------------------------------------------------------------------------
(* Messages.                                                                *)

Packed(hdr, fields, bytes, size) ==
    [hdr |-> hdr, fields |-> fields, bytes |-> <<hdr>> \o bytes, size |-> size]

\* properties: the number of properties, and each with a vector
auth == <<2, 3>>
Authdata == <<12, auth>>
Seqlen(seqnumlen) == IF seqnumlen = 14 THEN <<>> ELSE <<<<4, <<seqnumlen>>>>>>
PackProps(props) ==
    <<Len(props)>> \o FlattenSeq([k \in DOMAIN props |-> <<props[k][1]>> \o zhe_pack_vec(props[k][2])])

zhe_pack_mscout(mask) == Packed(Msg.SCOUT, <<mask>>, <<mask>>, 2)

zhe_pack_mhello(mask) ==
    Packed(Msg.HELLO, <<mask, multicast_locators>>, <<mask>> \o zhe_pack_locs,
           3 + zhe_pack_locs_calcsize)

zhe_pack_mopen(seqnumlen, version, ownid, ld100) ==
    LET props == Seqlen(seqnumlen) \o <<Authdata>>
    IN  Packed(Flag.P + Msg.OPEN, <<version, ownid, ld100, multicast_locators, props>>,
               <<version>> \o zhe_pack_vec(ownid) \o zhe_pack_vle32(ld100)
                   \o zhe_pack_locs \o PackProps(props),
               2 + VecReq(ownid) + zhe_pack_vle32req(ld100) + zhe_pack_locs_calcsize
                   + If(seqnumlen # 14, 3) + (1 + VecReq(auth)) + 1)

zhe_pack_maccept(ownid, peerid, ld100) ==
    Packed(Flag.P + Msg.ACCEPT, <<peerid, ownid, ld100, <<Authdata>>>>,
           zhe_pack_vec(peerid) \o zhe_pack_vec(ownid) \o zhe_pack_vle32(ld100)
               \o PackProps(<<Authdata>>),
           1 + VecReq(ownid) + VecReq(peerid) + zhe_pack_vle32req(ld100) + (1 + VecReq(auth)) + 1)

zhe_pack_mclose(reason, ownid) ==
    Packed(Msg.CLOSE, <<ownid, reason>>, zhe_pack_vec(ownid) \o <<reason>>, 2 + VecReq(ownid))

zhe_pack_msynch(sflag, seqbase, cnt) ==
    Packed(Flag.R + sflag + If(cnt > 0, Flag.U) + Msg.SYNCH, <<seqbase + cnt, cnt>>,
           zhe_pack_seq(seqbase + cnt) \o (IF cnt > 0 THEN zhe_pack_seq(cnt) ELSE <<>>),
           1 + zhe_pack_seqreq(seqbase + cnt) + zhe_pack_seqreq(cnt))

\* The reader takes the NACK of message seq itself for granted.
SameMask(mask) == mask                                                \* mutant
MaskSent(mask) == mask \div 2
zhe_pack_macknack(seq, mask) ==
    Packed(If(mask # 0, Flag.M) + Msg.ACKNACK, <<seq, mask>>,
           zhe_pack_seq(seq) \o (IF mask # 0 THEN zhe_pack_vle32(MaskSent(mask)) ELSE <<>>),
           1 + zhe_pack_seqreq(seq) + If(mask # 0, zhe_pack_vle32req(mask)))

zhe_pack_mping(hash) == Packed(Msg.PING, <<hash>>, zhe_pack_vle16(hash), 1 + zhe_pack_vle16req(hash))
zhe_pack_mpong(hash) == Packed(Msg.PONG, <<hash>>, zhe_pack_vle16(hash), 1 + zhe_pack_vle16req(hash))
zhe_pack_mkeepalive(ownid) == Packed(Msg.KEEPALIVE, <<ownid>>, zhe_pack_vec(ownid), 1 + VecReq(ownid))

zhe_oc_pack_msdata(relflag, seq, rid, payload) ==
    Packed(Msg.SDATA + If(relflag, Flag.R), <<seq, rid, payload>>,
           zhe_pack_seq(seq) \o zhe_pack_rid(rid) \o zhe_pack_vec(payload),
           1 + WORST_CASE_SEQ_SIZE + zhe_pack_ridreq(rid) + VecReq(payload))

zhe_oc_pack_mwdata(relflag, seq, uri, payload) ==
    Packed(Msg.WDATA + If(relflag, Flag.R), <<seq, uri, payload>>,
           zhe_pack_seq(seq) \o zhe_pack_vec(uri) \o zhe_pack_vec(payload),
           1 + WORST_CASE_SEQ_SIZE + VecReq(uri) + VecReq(payload))

-----------------------------------------------------------------------------
(* Declarations.  All but resources are given the space of the worst case.  *)

WC_RID_SIZE == IF ZHE_MAX_RID <= 127 THEN 1 ELSE IF ZHE_MAX_RID <= 16383 THEN 2
               ELSE IF ZHE_MAX_RID <= 2097151 THEN 3 ELSE IF ZHE_MAX_RID <= 268435455 THEN 4 ELSE 5
WC_DRESULT_SIZE == 3 + WC_RID_SIZE
WC_DCOMMIT_SIZE == 2
WC_DPUB_SIZE == 1 + WC_RID_SIZE
WC_DSUB_SIZE == 2 + WC_RID_SIZE

zhe_pack_dresource(rid, uri) ==
    Packed(Decl.RESOURCE, <<rid, uri>>, zhe_pack_rid(rid) \o zhe_pack_vec(uri),
           1 + zhe_pack_ridreq(rid) + VecReq(uri))
zhe_pack_dpub(rid) == Packed(Decl.PUB, <<rid>>, zhe_pack_rid(rid), WC_DPUB_SIZE)
zhe_pack_dsub(rid) == Packed(Decl.SUB, <<rid, 1>>, zhe_pack_rid(rid) \o <<1>>, WC_DSUB_SIZE)
zhe_pack_dcommit(commitid) == Packed(Decl.COMMIT, <<commitid>>, <<commitid>>, WC_DCOMMIT_SIZE)
zhe_pack_dresult(commitid, status, rid) ==
    LET more == IF status # 0 THEN <<rid>> ELSE <<>>
    IN  Packed(Decl.RESULT, <<commitid, status>> \o more,
               <<commitid, status>> \o (IF status # 0 THEN zhe_pack_rid(rid) ELSE <<>>),
               WC_DRESULT_SIZE)

zhe_oc_pack_mdeclare(committed, seq, decls) ==
    Packed(Msg.DECLARE + If(committed, Flag.C),
           <<seq, Len(decls)>> \o [k \in DOMAIN decls |-> <<decls[k].hdr, decls[k].fields>>],
           zhe_pack_seq(seq) \o zhe_pack_vle16(Len(decls))
               \o FlattenSeq([k \in DOMAIN decls |-> decls[k].bytes]),
           1 + WORST_CASE_SEQ_SIZE + zhe_pack_vle16req(Len(decls))
               + FoldLeft(LAMBDA n, d : n + d.size, 0, decls))

-----------------------------------------------------------------------------
(* Conduits: the marker before a message that is not for conduit 0.         *)

zhe_pack_mconduit_reqsize(cid) == If(cid > 0, 1) + If(cid > 4, 1)
zhe_pack_mconduit(cid) ==
    CASE cid > 4 -> <<Msg.CONDUIT, cid>>
      [] cid \in 1 .. 4 -> <<Msg.CONDUIT + Flag.Z + (cid - 1) * 32>>
      [] cid = 0 -> <<>>

zhe_pack_reserve_mconduit(cid, msg) ==
    [msg EXCEPT !.bytes = zhe_pack_mconduit(cid) \o @, !.size = zhe_pack_mconduit_reqsize(cid) + @]
-----------------------------------------------------------------------------
(* Reading.  A result has the value read and the bytes that are left.       *)

OK(val, rest) == [res |-> "OK", val |-> val, rest |-> rest]
Failed(res, rest) == [res |-> res, val |-> <<>>, rest |-> rest]
From(data, n) == SubSeq(data, n + 1, Len(data))

\* Up to the first byte without the continuation bit.  It overflows when it is
\* longer than a number of this width can be, or its last byte has bits to spare.
zhe_unpack_vle(width, data) ==
    LET ends == {k \in DOMAIN data : data[k] <= 127}
        n == Min(ends)
        longest == (width + 6) \div 7
        value == FoldRight(LAMBDA b, v : v * 128 + (b % 128), SubSeq(data, 1, n), 0)
    IN  IF ends = {} THEN Failed("SHORT", data)
        ELSE IF n < longest \/ (n = longest /\ data[n] < 2 ^ (width - 7 * (longest - 1)))
        THEN OK(value, From(data, n))
        ELSE Failed("OVERFLOW", From(data, n))

SeqWidth == IF SEQNUM_LEN <= 8 THEN 8 ELSE IF SEQNUM_LEN <= 16 THEN 16 ELSE 32
zhe_unpack_seq(data) ==
    LET r == zhe_unpack_vle(SeqWidth, data)
    IN  IF r.res = "OK" /\ SEQNUM_LEN # SeqWidth /\ r.val >= 2 ^ SEQNUM_LEN
        THEN Failed("OVERFLOW", r.rest) ELSE r

ZHE_RID_SIZE == IF ZHE_MAX_RID <= 127 THEN 8 ELSE IF ZHE_MAX_RID <= 32767 THEN 16 ELSE 32
zhe_unpack_rid(data) ==
    LET r == zhe_unpack_vle(ZHE_RID_SIZE, data)
    IN  IF r.res = "OK" THEN OK(r.val \div 2, r.rest) ELSE r

zhe_unpack_vecref(data) ==
    LET r == zhe_unpack_vle(16, data)
    IN  IF r.res # "OK" THEN r
        ELSE IF Len(r.rest) < r.val THEN Failed("SHORT", r.rest)
        ELSE OK(SubSeq(r.rest, 1, r.val), From(r.rest, r.val))

Lenient(r) == IF r.res = "OVERFLOW" THEN OK(0, r.rest) ELSE r

\* One field after the other, of the given types, as long as they are complete
RECURSIVE Unpack(_, _)
UnpackOne(type, data) ==
    CASE type = "byte" -> IF data = <<>> THEN Failed("SHORT", data) ELSE OK(data[1], Tail(data))
      [] type = "vle16" -> zhe_unpack_vle(16, data)
      [] type = "vle32" -> zhe_unpack_vle(32, data)
      [] type = "mask" -> Lenient(zhe_unpack_vle(32, data))
      [] type = "propid" -> Lenient(zhe_unpack_vle(8, data))
      [] type = "seq" -> zhe_unpack_seq(data)
      [] type = "rid" -> zhe_unpack_rid(data)
      [] type = "vec" -> zhe_unpack_vecref(data)
      [] type = "prop" -> Unpack(<<"propid", "vec">>, data)
      [] type \in {"locs", "props"} ->
            LET n == zhe_unpack_vle(16, data)
            IN  IF n.res # "OK" THEN n
                ELSE Unpack([k \in 1 .. n.val |-> IF type = "locs" THEN "vec" ELSE "prop"], n.rest)
Unpack(types, data) ==
    IF types = <<>> THEN OK(<<>>, data)
    ELSE LET first == UnpackOne(Head(types), data)
             others == Unpack(Tail(types), first.rest)
         IN  IF first.res # "OK" THEN first
             ELSE [others EXCEPT !.val = <<first.val>> \o @]

\* Fields that are there when the header says so
When(hdr, flag, types) == IF Has(hdr, flag) THEN types ELSE <<>>

-----------------------------------------------------------------------------
(* What the handlers read after the header.                                 *)

handle_mscout(hdr) == <<"vle32">> \o When(hdr, Flag.P, <<"props">>)
handle_mhello(hdr) == <<"vle32", "locs">> \o When(hdr, Flag.P, <<"props">>)
handle_mopen(hdr) == <<"byte", "vec", "vle32", "locs">> \o When(hdr, Flag.P, <<"props">>)
handle_maccept(hdr) == <<"vec", "vec", "vle32">> \o When(hdr, Flag.P, <<"props">>)
handle_mclose == <<"vec", "byte">>
handle_msdata(hdr) == <<"seq", "rid">> \o When(hdr, Flag.A, <<"rid">>) \o <<"vec">>
handle_mwdata == <<"seq", "vec", "vec">>
handle_mping == <<"vle16">>
handle_mpong == <<"vle16">>
handle_msynch(hdr) == <<"seq">> \o When(hdr, Flag.U, <<"seq">>)
handle_macknack(hdr) == <<"seq">> \o When(hdr, Flag.M, <<"mask">>)
handle_mkeepalive == <<"vec">>
handle_mdeclare == <<"seq", "vle16">>

Fields(hdr) ==
    LET kind == hdr % 32
    IN  CASE kind = Msg.SCOUT -> handle_mscout(hdr)
          [] kind = Msg.HELLO -> handle_mhello(hdr)
          [] kind = Msg.OPEN -> handle_mopen(hdr)
          [] kind = Msg.ACCEPT -> handle_maccept(hdr)
          [] kind = Msg.CLOSE -> handle_mclose
          [] kind = Msg.DECLARE -> handle_mdeclare
          [] kind = Msg.SDATA -> handle_msdata(hdr)
          [] kind = Msg.WDATA -> handle_mwdata
          [] kind = Msg.PING -> handle_mping
          [] kind = Msg.PONG -> handle_mpong
          [] kind = Msg.SYNCH -> handle_msynch(hdr)
          [] kind = Msg.ACKNACK -> handle_macknack(hdr)
          [] kind = Msg.KEEPALIVE -> handle_mkeepalive

\* The fields of a declaration, and those that depend on the values of the first
handle_df == <<"rid">>
DeclFields(kind) ==
    CASE kind = Decl.RESOURCE -> <<"rid", "vec">>
      [] kind = Decl.PUB -> <<"rid">>
      [] kind = Decl.SUB -> <<"rid", "byte">>
      [] kind = Decl.SELECTION -> <<"rid", "vec">>
      [] kind = Decl.BINDID -> <<"rid", "rid">>
      [] kind = Decl.COMMIT -> <<"byte">>
      [] kind = Decl.RESULT -> <<"byte", "byte">>
      [] OTHER -> handle_df
DeclRest(hdr, vals) ==
    LET kind == hdr % 16
        periodic == kind = Decl.SUB /\ vals[2] \in {3, 4}
    IN  (IF kind = Decl.RESULT /\ vals[2] # 0 THEN <<"rid">> ELSE <<>>)
            \o (IF periodic THEN <<"vle32", "vle32", "vle32">> ELSE <<>>)
            \o (IF kind \in 1 .. 4 THEN When(hdr, Flag.P, <<"props">>) ELSE <<>>)

UnpackDecl(hdr, data) ==
    LET kind == hdr % 16
        first == Unpack(DeclFields(kind), data)
        rest == Unpack(DeclRest(hdr, first.val), first.rest)
    IN  IF kind \notin 1 .. 11 THEN Failed("OVERFLOW", data)
        ELSE IF first.res # "OK" THEN first
        ELSE IF kind = Decl.SUB /\ first.val[2] \notin 1 .. 5 THEN Failed("OVERFLOW", first.rest)
        ELSE [rest EXCEPT !.val = <<hdr, first.val \o @>>]

RECURSIVE UnpackDecls(_, _)
UnpackDecls(n, data) ==
    IF n = 0 THEN OK(<<>>, data)
    ELSE IF data = <<>> THEN Failed("SHORT", data)
    ELSE LET first == UnpackDecl(data[1], Tail(data))
             others == UnpackDecls(n - 1, first.rest)
         IN  IF first.res # "OK" THEN first
             ELSE [others EXCEPT !.val = <<first.val>> \o @]

\* A message as the handler goes on with it: the bit of an ACKNACK's mask for the
\* message itself is put back, and a field that is not there is 0.
Message(cid, hdr, vals) ==
    LET kind == hdr % 32
    IN  <<cid, hdr, CASE kind = Msg.ACKNACK -> <<vals[1], IF Has(hdr, Flag.M) THEN vals[2] * 2 + 1 ELSE 0>>
                      [] kind = Msg.SYNCH -> <<vals[1], IF Has(hdr, Flag.U) THEN vals[2] ELSE 0>>
                      [] OTHER -> vals>>

\* The conduit that the messages after the marker are for
handle_mconduit(hdr, data) ==
    LET r == zhe_unpack_vle(8, data)
    IN  IF Has(hdr, Flag.Z) THEN OK(1 + ((hdr \div 32) % 4), data)
        ELSE IF r.res = "OK" /\ r.val >= N_IN_CONDUITS THEN Failed("OVERFLOW", r.rest)
        ELSE r

Kinds == {Msg[k] : k \in DOMAIN Msg}

\* A message from the rest of a packet: the messages read, none or one, the conduit
UnpackMessage(cid, hdr, data) ==
    LET kind == hdr % 32
        vals == Unpack(Fields(hdr), data)
        decls == UnpackDecls(vals.val[2], vals.rest)
        conduit == handle_mconduit(hdr, data)
        With(r, cid1, msgs) == [res |-> r.res, cid |-> cid1, msgs |-> msgs, rest |-> r.rest]
        invalid == kind \notin Kinds \/ (kind = Msg.ACKNACK /\ cid >= N_OUT_CONDUITS)
    IN  CASE invalid -> With(Failed("OVERFLOW", data), cid, <<>>)
          [] kind = Msg.CONDUIT -> With(conduit, conduit.val, <<>>)
          [] kind \in {Msg.PING, Msg.PONG} /\ vals.res = "OVERFLOW" -> With(Lenient(vals), cid, <<>>)
          [] kind = Msg.DECLARE /\ vals.res = "OK" ->
                With(decls, cid, <<Message(cid, hdr, vals.val \o decls.val)>>)
          [] OTHER -> With(vals, cid, IF vals.res = "OK" THEN <<Message(cid, hdr, vals.val)>> ELSE <<>>)

\* handle_packet: the conduit stays the same until the next marker, and what was
\* not read to its end is left
RECURSIVE handle_packet(_, _)
handle_packet(cid, data) ==
    LET first == UnpackMessage(cid, data[1], Tail(data))
        others == handle_packet(first.cid, first.rest)
    IN  IF first.res # "OK" THEN [res |-> first.res, msgs |-> <<>>, rest |-> data]
        ELSE IF first.rest = <<>> THEN [res |-> "OK", msgs |-> first.msgs, rest |-> <<>>]
        ELSE [others EXCEPT !.msgs = first.msgs \o @]

\* zhe_input on a stream: what was left comes again with what follows it
RECURSIVE zhe_input(_, _)
zhe_input(left, chunks) ==
    IF chunks = <<>> THEN [res |-> "OK", msgs |-> <<>>, rest |-> left]
    ELSE LET now == handle_packet(0, left \o Head(chunks))
             later == zhe_input(now.rest, Tail(chunks))
         IN  IF now.res \notin {"OK", "SHORT"} THEN now
             ELSE [later EXCEPT !.msgs = now.msgs \o @]

-----------------------------------------------------------------------------
(* What is written is read again.                                           *)

As(cid, msg) == <<cid, msg.hdr, msg.fields>>
Bytes(cid, msg) == zhe_pack_reserve_mconduit(cid, msg).bytes

\* No message takes more than was reserved for it.
FitsReservation(cid, msg) ==
    Len(Bytes(cid, msg)) <= zhe_pack_reserve_mconduit(cid, msg).size

\* Two messages in one packet, on conduits c and d; the second is not for conduit 0
\* after a marker, because the marker would then be taken to be for both.
ReadsPacket(c, m, d, n) ==
    handle_packet(0, Bytes(c, m) \o Bytes(d, n)) =
        [res |-> "OK", msgs |-> <<As(c, m), As(d, n)>>, rest |-> <<>>]

\* Two messages on a stream, wherever it is cut.
ReadsStream(m, n) ==
    LET bytes == m.bytes \o n.bytes
    IN  \A k \in 1 .. Len(bytes) - 1 :
            zhe_input(<<>>, <<SubSeq(bytes, 1, k), From(bytes, k)>>) =
                [res |-> "OK", msgs |-> <<As(0, m), As(0, n)>>, rest |-> <<>>]

CodecCorrect(messages, followers, cids) ==
    /\ \A m \in messages, c \in cids : FitsReservation(c, m)
    /\ \A m \in messages, n \in followers, c, d \in cids :
          c = 0 \/ d # 0 => ReadsPacket(c, m, d, n)
    /\ \A m \in messages, n \in followers : ReadsStream(m, n)
=============================================================================
