--------------------------- MODULE MCTcpPlatform ---------------------------
(* A node that connects to another.  Lengths of 2 take two bytes.          *)
EXTENDS TcpPlatform, Codec, TLC

CONSTANTS c, s

OneWay == (c :> {s}) @@ (s :> {})
Two == (c :> 2) @@ (s :> 2)
Scout == <<0>>
Hello == <<1>>
Data == <<1, 0>>

-----------------------------------------------------------------------------
(* The messages that the bytes of packets are.                              *)

Locators == <<<<104, 50>>, <<>>>>
Ids == {<<1>>, <<200, 0, 7>>}
Seqs == {0, 127, 128, 16383}
Rids == {1, 63, 64, 8192, ZHE_MAX_RID}
Payload(n) == [k \in 1 .. n |-> (k * 37) % 256]

Messages ==
    {zhe_pack_mscout(5), zhe_pack_mhello(4), zhe_pack_mclose(255, <<1>>)}
    \cup {zhe_pack_mopen(n, 1, id, ld) : n \in {14, 20}, id \in Ids, ld \in {0, 128, 2097152}}
    \cup {zhe_pack_maccept(id, <<9>>, 16384) : id \in Ids}
    \cup {zhe_pack_msynch(Flag.S, n, k) : n \in {0, 127}, k \in {0, 1, 128}}
    \cup {zhe_pack_macknack(n, mask) : n \in Seqs, mask \in {0, 1, 255, 65537}}
    \cup {zhe_pack_mping(h) : h \in Seqs} \cup {zhe_pack_mpong(h) : h \in {16384, 65535}}
    \cup {zhe_pack_mkeepalive(id) : id \in Ids}
    \cup {zhe_oc_pack_msdata(TRUE, n, r, Payload(0)) : n \in Seqs, r \in Rids}
    \cup {zhe_oc_pack_msdata(FALSE, 1, 1, Payload(n)) : n \in {1, 127, 128}}
    \cup {zhe_oc_pack_mwdata(TRUE, n, <<47, 97>>, Payload(2)) : n \in Seqs}
    \cup {zhe_oc_pack_mdeclare(b, 128, <<d>>) :
             b \in BOOLEAN,
             d \in {zhe_pack_dresource(r, <<47, 97>>) : r \in Rids}
                   \cup {zhe_pack_dpub(r) : r \in Rids} \cup {zhe_pack_dsub(r) : r \in Rids}
                   \cup {zhe_pack_dcommit(1)}
                   \cup {zhe_pack_dresult(1, st, r) : st \in {0, 2}, r \in Rids}}
    \cup {zhe_oc_pack_mdeclare(FALSE, 0, <<zhe_pack_dsub(1), zhe_pack_dcommit(0)>>)}

Followers == {zhe_pack_mscout(5), zhe_oc_pack_msdata(TRUE, 128, 64, Payload(1))}

\* What is packed is read again, from a packet and from a stream cut anywhere, and
\* fits the space that was reserved: the sizes of numbers near the powers of 128,
\* the worst cases, and the bit left out of masks agree between writer and reader.
\* (A constant formula, put as an action property.)
MessagesReadAsPacked == CodecCorrect(Messages, Followers, {0, 1, 4, 5})
WireFormat == [][MessagesReadAsPacked]_vars
=============================================================================
