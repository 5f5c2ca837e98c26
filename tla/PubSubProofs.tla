---------------------------- MODULE PubSubProofs ----------------------------
(***************************************************************************)
(* Publications, subscriptions and the transactions of peers, for any      *)
(* number of peers, resources, publications and subscriptions, and any     *)
(* messages.                                                               *)
(***************************************************************************)
EXTENDS PubSub, FiniteSetTheorems, SequenceTheorems, TLAPS

\* the resources declared by peers
PeersDeclare ==
    {d \in UNION {ToSet(m.decls) : m \in UNION {Messages[p] : p \in Peers}} : d.kind = "DRESOURCE"}
AllResources == Resources \cup {<<d.rid, d.uri>> : d \in PeersDeclare}

\* what is proved of the store, for all of these resources
USP == INSTANCE UriStoreProofs
        WITH UNIT <- 2, URISPACE <- 8 * (MAX_RESOURCES + 1), MAX_BLOCKS <- 1, MAX_BYTES <- 1,
             Nobody <- NONE, UriLen <- [u \in Uris |-> 1], Resources <- AllResources,
             store <- node.store, failed <- [p \in Peers |-> node.precommit[p].result # "OK"]

LEMMA AllResourcesAre == AllResources \subseteq (Nat \ {0}) \X Uris
<1>1. ASSUME NEW d \in PeersDeclare PROVE d.rid \in Nat \ {0} /\ d.uri \in Uris
  <2>1. PICK p \in Peers : \E m \in Messages[p] : d \in ToSet(m.decls) /\ d.kind = "DRESOURCE"
    BY DEF PeersDeclare
  <2> QED
    BY <2>1, PubSubAssumption
<1> QED
  BY <1>1, PubSubAssumption DEF AllResources

LEMMA SA == USP!StoreAssumption
<1>1. /\ Peers \subseteq Nat /\ SELF \notin Peers /\ NONE \notin Peers \cup {SELF}
      /\ MAX_RESOURCES \in Nat \ {0} /\ NONE \notin 1 .. MAX_RESOURCES
  BY PubSubAssumption
<1>2. [u \in Uris |-> 1] \in [Uris -> 1 .. (8 * (MAX_RESOURCES + 1)) - 1]
  BY <1>1
<1> QED
  BY <1>1, <1>2, AllResourcesAre DEF USP!StoreAssumption

LEMMA BA == USP!BufferAssumption
BY PubSubAssumption DEF USP!BufferAssumption

-----------------------------------------------------------------------------
(* The store of PubSub is the one that UriStoreProofs is about. *)

LEMMA SameInit == US!zhe_uristore_init = USP!zhe_uristore_init
BY DEF US!zhe_uristore_init, USP!zhe_uristore_init, US!zhe_icgcb_init, USP!zhe_icgcb_init,
       US!FreeEntry, USP!FreeEntry, US!Entries, USP!Entries, US!Sentinel, USP!Sentinel,
       US!Header, USP!Header, US!Blank, USP!Blank, US!Contents, USP!Contents

LEMMA SameLookup == ASSUME NEW s, NEW rid PROVE US!lookup_rid(s, rid) = USP!lookup_rid(s, rid)
BY DEF US!lookup_rid, USP!lookup_rid, US!ToSet, USP!ToSet

LEMMA SameUri == ASSUME NEW s, NEW i PROVE US!UriOf(s, i) = USP!UriOf(s, i)
BY DEF US!UriOf, USP!UriOf

LEMMA SameDrop ==
  ASSUME NEW s, NEW p, NEW i
  PROVE  US!zhe_uristore_drop_idx(s, p, i) = USP!zhe_uristore_drop_idx(s, p, i)
BY DEF US!zhe_uristore_drop_idx, USP!zhe_uristore_drop_idx, US!CommittedWithout, USP!CommittedWithout,
       US!Cardinality, USP!Cardinality, US!FreeEntry, USP!FreeEntry, US!FreeBlock, USP!FreeBlock,
       US!zhe_icgcb_free, USP!zhe_icgcb_free, US!RemoveAt, USP!RemoveAt, US!IndexOf, USP!IndexOf,
       US!FreeSize, USP!FreeSize, US!alignup, USP!alignup, US!Units, USP!Units,
       US!Sentinel, USP!Sentinel, US!Header, USP!Header, US!Blank, USP!Blank,
       US!Contents, USP!Contents, US!FirstAfterFree, USP!FirstAfterFree

LEMMA SameDropAll ==
  ASSUME NEW s, NEW p, NEW X
  PROVE  US!DropAll(s, p, X) = USP!DropAll(s, p, X)
BY SameDrop DEF US!DropAll, USP!DropAll

LEMMA SameReset ==
  ASSUME NEW s, NEW p
  PROVE  US!zhe_uristore_reset_peer(s, p) = USP!zhe_uristore_reset_peer(s, p)
BY SameDropAll DEF US!zhe_uristore_reset_peer, USP!zhe_uristore_reset_peer, US!ToSet, USP!ToSet

LEMMA SameAbort ==
  ASSUME NEW s, NEW p
  PROVE  US!zhe_uristore_abort_tentative(s, p) = USP!zhe_uristore_abort_tentative(s, p)
BY SameDropAll DEF US!zhe_uristore_abort_tentative, USP!zhe_uristore_abort_tentative, US!ToSet, USP!ToSet

LEMMA SameCommit ==
  ASSUME NEW s, NEW p
  PROVE  US!zhe_uristore_commit_tentative(s, p) = USP!zhe_uristore_commit_tentative(s, p)
BY DEF US!zhe_uristore_commit_tentative, USP!zhe_uristore_commit_tentative, US!Entries, USP!Entries

LEMMA SameDup ==
  ASSUME NEW s, NEW p, NEW i, NEW tentative
  PROVE  US!zhe_uristore_store_dup(s, i, p, tentative) = USP!zhe_uristore_store_dup(s, i, p, tentative)
BY DEF US!zhe_uristore_store_dup, USP!zhe_uristore_store_dup, US!Result, USP!Result,
       US!zhe_uristore_record_tentative, USP!zhe_uristore_record_tentative,
       US!RecordWinner, USP!RecordWinner

LEMMA SameNew ==
  ASSUME NEW s, NEW p, NEW rid, NEW uri, NEW tentative
  PROVE  US!zhe_uristore_store_new(s, p, rid, uri, tentative)
            = USP!zhe_uristore_store_new(s, p, rid, uri, tentative)
BY DEF US!zhe_uristore_store_new, USP!zhe_uristore_store_new, US!Result, USP!Result,
       US!AllocResult, USP!AllocResult, US!BlockSize, USP!BlockSize, US!alignup, USP!alignup,
       US!Units, USP!Units, US!zhe_icgcb_alloc, USP!zhe_icgcb_alloc, US!Sentinel, USP!Sentinel,
       US!Header, USP!Header, US!Contents, USP!Contents, US!InsertByRid, USP!InsertByRid,
       US!InsertAt, USP!InsertAt, US!Min, USP!Min

LEMMA SameStore ==
  ASSUME NEW s, NEW p, NEW rid, NEW uri, NEW tentative
  PROVE  US!zhe_uristore_store(s, p, rid, uri, tentative) = USP!zhe_uristore_store(s, p, rid, uri, tentative)
<1>1. US!lookup_rid(s, rid) = USP!lookup_rid(s, rid)
  BY SameLookup
<1> PICK L : L = US!lookup_rid(s, rid)
  OBVIOUS
<1> DEFINE mismatch == \E j \in L : US!UriOf(s, j) # uri
           i == CHOOSE j \in L : TRUE
<1>2. mismatch <=> \E j \in L : USP!UriOf(s, j) # uri
  BY SameUri
<1>3. US!zhe_uristore_store(s, p, rid, uri, tentative)
        = IF mismatch THEN US!Result(s, "USR_MISMATCH", NONE)
          ELSE IF L # {} THEN US!zhe_uristore_store_dup(s, i, p, tentative)
          ELSE IF s.free = <<>> THEN US!Result(s, "USR_NOSPACE", NONE)
          ELSE US!zhe_uristore_store_new(s, p, rid, uri, tentative)
  BY DEF US!zhe_uristore_store
<1>4. USP!zhe_uristore_store(s, p, rid, uri, tentative)
        = IF \E j \in L : USP!UriOf(s, j) # uri THEN USP!Result(s, "USR_MISMATCH", NONE)
          ELSE IF L # {} THEN USP!zhe_uristore_store_dup(s, i, p, tentative)
          ELSE IF s.free = <<>> THEN USP!Result(s, "USR_NOSPACE", NONE)
          ELSE USP!zhe_uristore_store_new(s, p, rid, uri, tentative)
  BY <1>1 DEF USP!zhe_uristore_store
<1> HIDE DEF mismatch, i
<1> QED
  BY <1>2, <1>3, <1>4, SameDup, SameNew DEF US!Result, USP!Result

-----------------------------------------------------------------------------
(* The store as the proofs below see it: entries with a number and a name. *)

Indexes == 1 .. MAX_RESOURCES
Used(s) == {i \in Indexes : s.ress[i].rid # 0}

\* a store that is well formed, and one in which every resource is the node's own
Sound(s) == USP!StoreOK(s)
Own(s) == USP!StoreOK(s) /\ USP!AllBySelf(s) /\ USP!BlocksOK(s)

SameNames(s, t) ==
    \A i \in Indexes : t.ress[i].rid = s.ress[i].rid /\ US!UriOf(t, i) = US!UriOf(s, i)

StillOwn(s, t) == Own(t) /\ SameNames(s, t)

\* t is s with one more resource, in entry i
Named(s, t, i, rid, uri) ==
    /\ Own(t)
    /\ s.ress[i].rid = 0 /\ t.ress[i].rid = rid /\ US!UriOf(t, i) = uri
    /\ \A j \in Indexes : j # i => t.ress[j].rid = s.ress[j].rid
    /\ \A j \in Used(s) : US!UriOf(t, j) = US!UriOf(s, j)

LEMMA OwnIsSound == ASSUME NEW s, Own(s) PROVE Sound(s)
BY DEF Own, Sound

LEMMA ResourceRids ==
  ASSUME NEW rid, NEW uri, <<rid, uri>> \in AllResources
  PROVE  rid \in USP!Rids /\ uri \in Uris /\ rid \in Nat \ {0}
<1>1. <<rid, uri>>[1] = rid /\ <<rid, uri>>[2] = uri
  OBVIOUS
<1> QED
  BY <1>1, AllResourcesAre DEF USP!Rids

LEMMA PeersAre == ASSUME NEW p \in Peers PROVE p # NONE /\ p # SELF /\ SELF # NONE
BY PubSubAssumption

\* "used" are the entries with a number, each with a number of its own
LEMMA SoundIs ==
  ASSUME NEW s, Sound(s)
  PROVE  /\ ToSet(s.used) = Used(s)
         /\ \A i \in Indexes : s.ress[i].rid \in Nat
         /\ \A i, j \in Used(s) : s.ress[i].rid = s.ress[j].rid => i = j
         /\ \A rid : US!lookup_rid(s, rid) = {i \in Used(s) : s.ress[i].rid = rid}
<1>1. /\ s.used \in Seq(Indexes)
      /\ \A j, k \in 1 .. Len(s.used) : j < k => s.ress[s.used[j]].rid < s.ress[s.used[k]].rid
      /\ \A i \in Indexes : (\E k \in 1 .. Len(s.used) : s.used[k] = i) <=> s.ress[i].rid # 0
  BY DEF Sound, USP!StoreOK, USP!OrderOK, USP!Entries, Indexes
<1>2. ASSUME NEW i \in Indexes PROVE s.ress[i].rid \in Nat
  <2>1. s.ress[i].rid \in USP!Rids \cup {0}
    BY DEF Sound, USP!StoreOK, USP!Entries, Indexes, USP!RowOK, USP!ResRecords
  <2>2. \A r \in USP!Rids : r \in Nat
    BY AllResourcesAre DEF USP!Rids
  <2> PICK rid : rid = s.ress[i].rid
    OBVIOUS
  <2>3. rid \in USP!Rids \/ rid = 0
    BY <2>1
  <2> QED
    BY <2>2, <2>3
<1>3. DOMAIN s.used = 1 .. Len(s.used) /\ Len(s.used) \in Nat
  BY <1>1
<1>4. ToSet(s.used) = Used(s)
  <2>1. \A k \in 1 .. Len(s.used) : s.used[k] \in Indexes
    BY <1>1
  <2> QED
    BY <1>1, <1>3, <2>1 DEF ToSet, Used
<1>5. ASSUME NEW i \in Used(s), NEW j \in Used(s), s.ress[i].rid = s.ress[j].rid
      PROVE  i = j
  <2>1. PICK k \in 1 .. Len(s.used), l \in 1 .. Len(s.used) : s.used[k] = i /\ s.used[l] = j
    BY <1>1 DEF Used
  <2>2. s.ress[i].rid \in Nat
    BY <1>2 DEF Used
  <2>3. (k < l => s.ress[i].rid < s.ress[j].rid) /\ (l < k => s.ress[j].rid < s.ress[i].rid)
    BY <1>1, <2>1
  <2>31. ~ (k < l) /\ ~ (l < k)
    <3> PICK rid : rid = s.ress[i].rid
      OBVIOUS
    <3>1. rid \in Nat /\ (k < l => rid < rid) /\ (l < k => rid < rid)
      BY <1>5, <2>2, <2>3
    <3> QED
      BY <3>1
  <2>4. k = l
    BY <1>3, <2>31
  <2> QED
    BY <2>1, <2>4
<1>6. ASSUME NEW rid PROVE US!lookup_rid(s, rid) = {i \in Used(s) : s.ress[i].rid = rid}
  <2>1. US!ToSet(s.used) = ToSet(s.used)
    BY DEF US!ToSet, ToSet
  <2> QED
    BY <1>4, <2>1 DEF US!lookup_rid
<1> QED
  BY <1>2, <1>4, <1>5, <1>6

LEMMA OwnIs ==
  ASSUME NEW s, Own(s), NEW i \in Used(s)
  PROVE  s.ress[i].committed /\ US!UriOf(s, i) \in Uris
<1>1. i \in USP!Entries /\ s.ress[i].rid # 0
  BY DEF Used, Indexes, USP!Entries
<1>2. s.ress[i].committed
  BY <1>1, USP!BySelfIs, SA, BA DEF Own
<1>3. USP!UriOf(s, i) \in Uris
  BY <1>1, USP!TakenUris, SA, BA DEF Own
<1> QED
  BY <1>2, <1>3, SameUri

\* the name of a number is that of its entry
LEMMA NamesIs ==
  ASSUME NEW s, Own(s)
  PROVE  \A rid : /\ geturi_for_rid(s, rid) = {US!UriOf(s, i) : i \in {j \in Used(s) : s.ress[j].rid = rid}}
                  /\ CommittedEntry(s, rid) = {j \in Used(s) : s.ress[j].rid = rid}
<1> SUFFICES ASSUME NEW rid
             PROVE  /\ geturi_for_rid(s, rid) = {US!UriOf(s, i) : i \in {j \in Used(s) : s.ress[j].rid = rid}}
                    /\ CommittedEntry(s, rid) = {j \in Used(s) : s.ress[j].rid = rid}
  OBVIOUS
<1>1. US!lookup_rid(s, rid) = {j \in Used(s) : s.ress[j].rid = rid}
  BY OwnIsSound, SoundIs
<1>2. CommittedEntry(s, rid) = {j \in Used(s) : s.ress[j].rid = rid}
  BY <1>1, OwnIs DEF CommittedEntry
<1> QED
  BY <1>2 DEF geturi_for_rid

LEMMA StillOwnIs ==
  ASSUME NEW s, NEW t, Own(s), USP!Alike(s, t)
  PROVE  StillOwn(s, t)
<1>1. USP!StoreOK(t) /\ USP!AllBySelf(t) /\ USP!SameUse(s, t)
  BY DEF USP!Alike
<1>2. USP!BlocksOK(s)
  BY DEF Own
<1>3. USP!BlocksOK(t)
  BY <1>1, <1>2, USP!SameBlocks, SA, BA
<1>4. t.b = s.b /\ t.where = s.where /\ \A i \in Indexes : t.ress[i].rid = s.ress[i].rid
  BY <1>1 DEF USP!SameUse, USP!Entries, Indexes
<1>5. SameNames(s, t)
  BY <1>4 DEF SameNames, US!UriOf
<1> QED
  BY <1>1, <1>3, <1>5 DEF StillOwn, Own

LEMMA StillOwnTwice ==
  ASSUME NEW s, NEW t, NEW u, StillOwn(s, t), StillOwn(t, u) PROVE StillOwn(s, u)
BY DEF StillOwn, SameNames

\* what does not depend on more than numbers and names
LEMMA NamesStay ==
  ASSUME NEW s, NEW t, Own(s), StillOwn(s, t)
  PROVE  /\ Used(t) = Used(s)
         /\ \A rid : geturi_for_rid(t, rid) = geturi_for_rid(s, rid)
         /\ \A rid : US!lookup_rid(t, rid) = US!lookup_rid(s, rid)
<1>1. Own(t) /\ \A i \in Indexes : t.ress[i].rid = s.ress[i].rid /\ US!UriOf(t, i) = US!UriOf(s, i)
  BY DEF StillOwn, SameNames
<1>2. Used(t) = Used(s) /\ Used(s) \subseteq Indexes
  BY <1>1 DEF Used
<1>3. ASSUME NEW rid
      PROVE  geturi_for_rid(t, rid) = geturi_for_rid(s, rid) /\ US!lookup_rid(t, rid) = US!lookup_rid(s, rid)
  <2> PICK E : E = {j \in Used(s) : s.ress[j].rid = rid}
    OBVIOUS
  <2>1. E = {j \in Used(t) : t.ress[j].rid = rid} /\ E \subseteq Indexes
    BY <1>1, <1>2
  <2>2. US!lookup_rid(t, rid) = E /\ US!lookup_rid(s, rid) = E
    BY <1>1, <2>1, OwnIsSound, SoundIs
  <2>3. geturi_for_rid(t, rid) = {US!UriOf(t, i) : i \in E} /\ geturi_for_rid(s, rid) = {US!UriOf(s, i) : i \in E}
    BY <1>1, <2>1, NamesIs
  <2> QED
    BY <1>1, <2>1, <2>2, <2>3
<1> QED
  BY <1>2, <1>3

-----------------------------------------------------------------------------
(* What the operations of the store do. *)

LEMMA SoundOps ==
  ASSUME NEW s, Sound(s), NEW p \in Peers
  PROVE  /\ Sound(US!zhe_uristore_reset_peer(s, p))
         /\ Sound(US!zhe_uristore_abort_tentative(s, p))
         /\ Sound(US!zhe_uristore_commit_tentative(s, p))
<1>1. USP!StoreOK(s) /\ p # NONE
  BY PeersAre DEF Sound
<1>2. USP!StoreOK(USP!zhe_uristore_reset_peer(s, p))
  <2>1. USP!ResetDone(s, USP!zhe_uristore_reset_peer(s, p), p)
    BY <1>1, USP!ResetIs, SA, BA
  <2> QED
    BY <2>1 DEF USP!ResetDone
<1>3. USP!StoreOK(USP!zhe_uristore_abort_tentative(s, p))
  <2>1. USP!Kept(s, USP!zhe_uristore_abort_tentative(s, p))
    BY <1>1, USP!AbortIs, SA, BA
  <2> QED
    BY <2>1 DEF USP!Kept
<1>4. USP!StoreOK(USP!zhe_uristore_commit_tentative(s, p))
  <2>1. USP!Kept(s, USP!zhe_uristore_commit_tentative(s, p))
    BY <1>1, USP!CommitIs, SA, BA
  <2> QED
    BY <2>1 DEF USP!Kept
<1> QED
  BY <1>2, <1>3, <1>4, SameReset, SameAbort, SameCommit DEF Sound

LEMMA OwnOps ==
  ASSUME NEW s, Own(s), NEW p \in Peers
  PROVE  /\ StillOwn(s, US!zhe_uristore_reset_peer(s, p))
         /\ StillOwn(s, US!zhe_uristore_abort_tentative(s, p))
         /\ StillOwn(s, US!zhe_uristore_commit_tentative(s, p))
<1>1. USP!StoreOK(s) /\ USP!AllBySelf(s)
  BY DEF Own
<1>2. USP!Alike(s, USP!zhe_uristore_reset_peer(s, p)) /\ USP!Alike(s, USP!zhe_uristore_abort_tentative(s, p))
  BY <1>1, USP!DropsAlike, SA, BA
<1>3. USP!Alike(s, USP!zhe_uristore_commit_tentative(s, p))
  BY <1>1, USP!CommitAlike, SA, BA
<1> QED
  BY <1>2, <1>3, StillOwnIs, SameReset, SameAbort, SameCommit

\* the results of zhe_uristore_store
StoreResult(r) ==
    /\ r.res \in {"USR_OK", "USR_DUPLICATE", "USR_MISMATCH", "USR_NOSPACE", "USR_AGAIN"}
    /\ r.loser \in Peers \cup {NONE}

LEMMA SoundStore ==
  ASSUME NEW s, Sound(s), NEW p \in Peers \cup {SELF}, NEW rid, NEW uri, <<rid, uri>> \in AllResources,
         NEW tentative \in BOOLEAN, tentative => p \in Peers,
         NEW r, r = US!zhe_uristore_store(s, p, rid, uri, tentative)
  PROVE  Sound(r.s) /\ StoreResult(r)
<1>1. USP!StoreOK(s) /\ rid \in USP!Rids /\ uri \in Uris
  BY ResourceRids DEF Sound
<1>2. r = USP!zhe_uristore_store(s, p, rid, uri, tentative)
  BY SameStore
<1>3. USP!Kept(s, r.s)
  BY <1>1, <1>2, USP!StoreIs, SA, BA
<1>4. r.res \in USP!StoreResults /\ r.loser \in Peers \cup {NONE}
  BY <1>1, <1>2, USP!StoreResultIs, SA, BA
<1> QED
  BY <1>3, <1>4 DEF USP!Kept, Sound, StoreResult, USP!StoreResults

LEMMA OwnStoreKnown ==
  ASSUME NEW s, Own(s), NEW p \in Peers \cup {SELF}, NEW rid, NEW uri, <<rid, uri>> \in AllResources,
         NEW tentative \in BOOLEAN, tentative => p \in Peers,
         US!lookup_rid(s, rid) # {},
         NEW r, r = US!zhe_uristore_store(s, p, rid, uri, tentative)
  PROVE  StillOwn(s, r.s) /\ (r.res = "USR_OK" => tentative)
<1>1. USP!StoreOK(s) /\ USP!AllBySelf(s) /\ rid \in USP!Rids /\ uri \in Uris
  BY ResourceRids DEF Own
<1>2. r = USP!zhe_uristore_store(s, p, rid, uri, tentative)
  BY SameStore
<1>3. USP!lookup_rid(s, rid) # {}
  BY SameLookup
<1>4. USP!Alike(s, r.s) /\ (r.res = "USR_OK" => tentative)
  BY <1>1, <1>2, <1>3, USP!StoreKnown, SA, BA
<1> QED
  BY <1>4, StillOwnIs

\* r is the result of storing a resource with a free number
Fresh(s, r, rid, uri) ==
    IF r.res = "USR_OK" THEN \E i \in Indexes : Named(s, r.s, i, rid, uri) ELSE r.s = s

LEMMA OwnStoreFresh ==
  ASSUME NEW s, Own(s), NEW rid, NEW uri, <<rid, uri>> \in AllResources,
         US!lookup_rid(s, rid) = {},
         NEW r, r = US!zhe_uristore_store(s, SELF, rid, uri, FALSE)
  PROVE  Fresh(s, r, rid, uri)
<1>1. /\ USP!StoreOK(s) /\ USP!AllBySelf(s) /\ USP!BlocksOK(s) /\ rid \in USP!Rids /\ uri \in Uris
  BY ResourceRids DEF Own
<1>2. r = USP!zhe_uristore_store(s, SELF, rid, uri, FALSE)
  BY SameStore
<1>3. USP!lookup_rid(s, rid) = {}
  BY SameLookup
<1>4. IF r.res = "USR_OK" THEN \E i \in USP!Entries : USP!OneMore(s, r.s, i, rid, uri) ELSE r.s = s
  BY <1>1, <1>2, <1>3, USP!StoreFresh, SA, BA
<1>5. ASSUME NEW t, NEW i \in USP!Entries, USP!OneMore(s, t, i, rid, uri)
      PROVE  i \in Indexes /\ Named(s, t, i, rid, uri)
  <2>1. /\ s.ress[i].rid = 0 /\ t.ress[i].rid = rid
        /\ \A j \in Indexes : j # i => t.ress[j] = s.ress[j]
        /\ USP!UriOf(t, i) = uri /\ \A j \in Used(s) : USP!UriOf(t, j) = USP!UriOf(s, j)
        /\ USP!StoreOK(t) /\ USP!AllBySelf(t) /\ USP!BlocksOK(t)
    BY <1>5 DEF USP!OneMore, USP!Others, USP!Taken, USP!Entries, Used, Indexes
  <2>2. US!UriOf(t, i) = uri /\ \A j \in Used(s) : US!UriOf(t, j) = US!UriOf(s, j)
    BY <2>1, SameUri
  <2>3. i \in Indexes
    BY DEF USP!Entries, Indexes
  <2> QED
    BY <2>1, <2>2, <2>3 DEF Named, Own
<1> QED
  BY <1>4, <1>5 DEF Fresh

LEMMA OwnInit == Init => Own(node.store) /\ Used(node.store) = {}
<1> SUFFICES ASSUME Init PROVE Own(node.store) /\ Used(node.store) = {}
  OBVIOUS
<1>1. node.store = US!zhe_uristore_init
      /\ node.precommit = [p \in Peers |-> NoDecls]
  BY DEF Init
<1>2. node.store = USP!zhe_uristore_init
  BY <1>1, SameInit
<1>3. [p \in Peers |-> node.precommit[p].result # "OK"] = [p \in Peers |-> FALSE]
  <2>1. \A p \in Peers : node.precommit[p].result = "OK"
    BY <1>1 DEF NoDecls
  <2>2. \A p \in Peers : (node.precommit[p].result # "OK") = FALSE
    BY <2>1
  <2> QED
    BY <2>2, Zenon
<1>4. USP!Init
  BY <1>2, <1>3 DEF USP!Init
<1>5. USP!StoreOK(node.store) /\ USP!BlocksOK(node.store)
  BY <1>4, USP!InitOK, SA, BA DEF USP!StoreInv
<1>6. \A i \in Indexes : node.store.ress[i].rid = 0
  BY <1>2 DEF USP!zhe_uristore_init, USP!Entries, Indexes, USP!FreeEntry
<1>7. USP!AllBySelf(node.store)
  BY <1>6 DEF USP!AllBySelf, USP!Entries, Indexes
<1> QED
  BY <1>5, <1>6, <1>7 DEF Own, Used

-----------------------------------------------------------------------------
(* Tables of subscriptions. *)

\* a set of numbers that a table of a peer has room for
Fit(S) ==
    /\ S \subseteq 0 .. MAX_RID - 1
    /\ IsFiniteSet(S) /\ Cardinality(S) <= MAX_SUBSCRIPTIONS_PER_PEER

LEMMA LimitIs == /\ MAX_SUBSCRIPTIONS_PER_PEER \in Nat /\ MAX_SUBSCRIPTIONS_PER_PEER >= 1
                 /\ MAX_RID \in Nat
BY PubSubAssumption

LEMMA EmptyFits == Fit({})
BY FS_EmptySet, LimitIs DEF Fit

LEMMA CardinalityNat == ASSUME NEW S, IsFiniteSet(S) PROVE Cardinality(S) \in Nat
BY FS_CardinalityType

\* the members of S below r: the place of r in the order
Below(S, r) == {q \in S : q < r}

LEMMA BelowLess ==
  ASSUME NEW S, S \subseteq Nat, IsFiniteSet(S), NEW q \in S, NEW r \in S, q < r
  PROVE  Cardinality(Below(S, q)) < Cardinality(Below(S, r))
<1>1. Below(S, q) \subseteq Below(S, r) /\ q \notin Below(S, q) /\ q \in Below(S, r)
      /\ Below(S, r) \subseteq S
  <2>1. q \in Nat /\ r \in Nat /\ \A x \in S : x \in Nat
    OBVIOUS
  <2>2. \A x \in S : x < q => x < r
    BY <2>1
  <2>3. ~ (q < q)
    BY <2>1
  <2> QED
    BY <2>2, <2>3 DEF Below
<1>2. IsFiniteSet(Below(S, r))
  BY <1>1, FS_Subset
<1>3. /\ IsFiniteSet(Below(S, q))
      /\ Cardinality(Below(S, q)) <= Cardinality(Below(S, r))
      /\ (Cardinality(Below(S, r)) = Cardinality(Below(S, q)) => Below(S, r) = Below(S, q))
  BY <1>1, <1>2, FS_Subset
<1>4. Cardinality(Below(S, q)) \in Nat /\ Cardinality(Below(S, r)) \in Nat
  BY <1>2, <1>3, CardinalityNat
<1> QED
  BY <1>1, <1>3, <1>4

\* no more than n members have fewer than n before them
LEMMA FirstOnes ==
  ASSUME NEW S, S \subseteq Nat, IsFiniteSet(S), NEW n \in Nat
  PROVE  Cardinality({r \in S : Cardinality(Below(S, r)) < n}) <= n
<1> DEFINE F == {r \in S : Cardinality(Below(S, r)) < n}
           place == [r \in F |-> Cardinality(Below(S, r))]
<1>1. \A r \in S : Cardinality(Below(S, r)) \in Nat
  <2> SUFFICES ASSUME NEW r \in S PROVE Cardinality(Below(S, r)) \in Nat
    OBVIOUS
  <2>1. Below(S, r) \subseteq S
    BY DEF Below
  <2>2. IsFiniteSet(Below(S, r))
    BY <2>1, FS_Subset
  <2> QED
    BY <2>2, CardinalityNat
<1>2. place \in [F -> 0 .. n - 1]
  <2>1. ASSUME NEW r \in F PROVE Cardinality(Below(S, r)) \in 0 .. n - 1
    <3>1. Cardinality(Below(S, r)) \in Nat /\ Cardinality(Below(S, r)) < n
      BY <1>1
    <3> QED
      BY <3>1
  <2> HIDE DEF F
  <2> QED
    BY <2>1
<1>3. \A q, r \in F : place[q] = place[r] => q = r
  <2> SUFFICES ASSUME NEW q \in F, NEW r \in F, place[q] = place[r] PROVE q = r
    OBVIOUS
  <2>1. Cardinality(Below(S, q)) = Cardinality(Below(S, r)) /\ Cardinality(Below(S, q)) \in Nat
        /\ q \in S /\ r \in S
    BY <1>1
  <2>2. q \in Nat /\ r \in Nat
    BY <2>1
  <2>3. q < r => Cardinality(Below(S, q)) < Cardinality(Below(S, r))
    BY <2>1, BelowLess
  <2>4. r < q => Cardinality(Below(S, r)) < Cardinality(Below(S, q))
    BY <2>1, BelowLess
  <2>5. ~ (q < r) /\ ~ (r < q)
    <3> PICK c : c = Cardinality(Below(S, q))
      OBVIOUS
    <3>1. c \in Nat /\ (q < r => c < c) /\ (r < q => c < c)
      BY <2>1, <2>3, <2>4
    <3> QED
      BY <3>1
  <2> QED
    BY <2>2, <2>5
<1> HIDE DEF place
<1>4. place \in Injection(F, 0 .. n - 1)
  BY <1>2, <1>3 DEF Injection, IsInjective
<1>5. IsFiniteSet(0 .. n - 1) /\ Cardinality(0 .. n - 1) = n
  <2>1. 0 \in Int /\ n - 1 \in Int
    OBVIOUS
  <2>2. IsFiniteSet(0 .. n - 1) /\ Cardinality(0 .. n - 1) = IF 0 > n - 1 THEN 0 ELSE (n - 1) - 0 + 1
    BY <2>1, FS_Interval
  <2> QED
    BY <2>2
<1> HIDE DEF F
<1>6. Cardinality(F) <= Cardinality(0 .. n - 1)
  BY <1>4, <1>5, FS_Injection
<1>7. Cardinality(F) <= n
  BY <1>5, <1>6
<1> QED
  BY <1>7 DEF F

\* What gets into a table leaves it within its limit, and all gets in if all fits.
LEMMA FirstFitIs ==
  ASSUME NEW S, Fit(S), NEW T, Fit(T)
  PROVE  /\ FirstFit(S, T) \subseteq T \ S
         /\ Fit(S \cup FirstFit(S, T))
         /\ Cardinality(T) <= MAX_SUBSCRIPTIONS_PER_PEER - Cardinality(S) => FirstFit(S, T) = T \ S
<1> DEFINE new == T \ S
           room == MAX_SUBSCRIPTIONS_PER_PEER - Cardinality(S)
           F == FirstFit(S, T)
<1>1. new \subseteq Nat /\ IsFiniteSet(new) /\ IsFiniteSet(T) /\ Cardinality(new) <= Cardinality(T)
  BY FS_Subset, LimitIs DEF Fit
<1>2. Cardinality(S) \in Nat /\ Cardinality(new) \in Nat /\ Cardinality(T) \in Nat /\ room \in Nat
  BY <1>1, CardinalityNat, LimitIs DEF Fit
<1>3. F = {r \in new : Cardinality(Below(new, r)) < room}
  BY DEF FirstFit, Below
<1> HIDE DEF F
<1>4. F \subseteq T \ S /\ F \subseteq 0 .. MAX_RID - 1
  BY <1>3 DEF Fit
<1>5. Cardinality(F) <= room
  <2> HIDE DEF new, room
  <2> QED
    BY <1>1, <1>2, <1>3, FirstOnes
<1>6. Fit(S \cup F)
  <2>1. IsFiniteSet(F) /\ IsFiniteSet(S)
    BY <1>1, <1>4, FS_Subset DEF Fit
  <2>2. Cardinality(F) \in Nat /\ Cardinality(S \cap F) \in Nat
    BY <2>1, CardinalityNat, FS_Intersection
  <2>3. IsFiniteSet(S \cup F) /\ Cardinality(S \cup F) = Cardinality(S) + Cardinality(F) - Cardinality(S \cap F)
    BY <2>1, FS_Union
  <2>4. Cardinality(S \cup F) <= MAX_SUBSCRIPTIONS_PER_PEER
    BY <1>2, <1>5, <2>2, <2>3, LimitIs
  <2> QED
    BY <1>4, <2>3, <2>4 DEF Fit
<1>7. ASSUME Cardinality(T) <= room PROVE F = new
  <2> SUFFICES ASSUME NEW r \in new PROVE Cardinality(Below(new, r)) < room
    BY <1>3
  <2>1. Below(new, r) \subseteq new \ {r}
    BY <1>1 DEF Below
  <2>2. IsFiniteSet(new \ {r}) /\ Cardinality(new \ {r}) = Cardinality(new) - 1
    BY <1>1, FS_RemoveElement
  <2>3. IsFiniteSet(Below(new, r)) /\ Cardinality(Below(new, r)) <= Cardinality(new \ {r})
    BY <2>1, <2>2, FS_Subset
  <2>4. Cardinality(Below(new, r)) \in Nat
    BY <2>3, CardinalityNat
  <2> HIDE DEF new, room
  <2> QED
    BY <1>1, <1>2, <1>7, <2>2, <2>3, <2>4
<1> QED
  BY <1>4, <1>6, <1>7 DEF F

\* one more, when the table is not full
LEMMA OneFits ==
  ASSUME NEW S, Fit(S), NEW r \in 0 .. MAX_RID - 1, r \in S \/ ~ Full(S)
  PROVE  Fit(S \cup {r})
<1>1. IsFiniteSet(S) /\ Cardinality(S) \in Nat /\ Cardinality(S) <= MAX_SUBSCRIPTIONS_PER_PEER
  BY CardinalityNat DEF Fit
<1>2. IsFiniteSet(S \cup {r}) /\ Cardinality(S \cup {r}) = IF r \in S THEN Cardinality(S) ELSE Cardinality(S) + 1
  BY <1>1, FS_AddElement
<1> QED
  BY <1>1, <1>2, LimitIs DEF Fit, Full

-----------------------------------------------------------------------------
(* Counting the subscriptions that match a publication. *)

Pairs(s, rsubs, rid) == UNION {{p} \X Matching(s, rid, rsubs[p]) : p \in Peers}

LEMMA PairsAre ==
  ASSUME NEW s, NEW rsubs, NEW rid
  PROVE  \A x : x \in Pairs(s, rsubs, rid)
                  <=> \E p \in Peers : \E r \in rsubs[p] : x = <<p, r>> /\ pub_sub_match(s, rid, r)
<1>1. ASSUME NEW x, x \in Pairs(s, rsubs, rid)
      PROVE  \E p \in Peers : \E r \in rsubs[p] : x = <<p, r>> /\ pub_sub_match(s, rid, r)
  <2>1. PICK p \in Peers : x \in {p} \X Matching(s, rid, rsubs[p])
    BY <1>1 DEF Pairs
  <2>2. PICK r \in Matching(s, rid, rsubs[p]) : x = <<p, r>>
    BY <2>1
  <2> QED
    BY <2>2 DEF Matching
<1>2. ASSUME NEW p \in Peers, NEW r \in rsubs[p], pub_sub_match(s, rid, r)
      PROVE  <<p, r>> \in Pairs(s, rsubs, rid)
  <2>1. r \in Matching(s, rid, rsubs[p])
    BY <1>2 DEF Matching
  <2>2. <<p, r>> \in {p} \X Matching(s, rid, rsubs[p])
    BY <2>1
  <2> QED
    BY <2>2 DEF Pairs
<1> QED
  BY <1>1, <1>2

\* numbers that can match: this one alone, or those with a name
Candidates(s, rid) ==
    IF geturi_for_rid(s, rid) = {} THEN {rid} ELSE {s.ress[i].rid : i \in Used(s)}

LEMMA CandidatesFew ==
  ASSUME NEW s, Own(s), NEW rid
  PROVE  /\ IsFiniteSet(Candidates(s, rid)) /\ Cardinality(Candidates(s, rid)) <= MAX_RESOURCES
         /\ \A r : pub_sub_match(s, rid, r) => r \in Candidates(s, rid)
<1>0. MAX_RESOURCES \in Nat /\ MAX_RESOURCES >= 1
  BY PubSubAssumption
<1>1. IsFiniteSet(Used(s)) /\ Cardinality(Used(s)) <= MAX_RESOURCES
  <2>1. IsFiniteSet(Indexes) /\ Cardinality(Indexes) = MAX_RESOURCES
    <3>1. 1 \in Int /\ MAX_RESOURCES \in Int
      BY <1>0
    <3>2. IsFiniteSet(1 .. MAX_RESOURCES)
          /\ Cardinality(1 .. MAX_RESOURCES) = IF 1 > MAX_RESOURCES THEN 0 ELSE MAX_RESOURCES - 1 + 1
      BY <3>1, FS_Interval
    <3> QED
      BY <1>0, <3>2 DEF Indexes
  <2>2. Used(s) \subseteq Indexes
    BY DEF Used
  <2>3. IsFiniteSet(Used(s)) /\ Cardinality(Used(s)) <= Cardinality(Indexes)
    BY <2>1, <2>2, FS_Subset
  <2> QED
    BY <2>1, <2>3
<1>2. ASSUME NEW r, geturi_for_rid(s, r) # {} PROVE r \in {s.ress[i].rid : i \in Used(s)}
  <2>1. geturi_for_rid(s, r) = {US!UriOf(s, i) : i \in {j \in Used(s) : s.ress[j].rid = r}}
    BY NamesIs
  <2> QED
    BY <1>2, <2>1
<1>3. CASE geturi_for_rid(s, rid) = {}
  <2>1. Candidates(s, rid) = {rid}
    BY <1>3 DEF Candidates
  <2>2. IsFiniteSet({rid}) /\ Cardinality({rid}) = 1
    BY FS_Singleton
  <2>3. \A r : pub_sub_match(s, rid, r) => r = rid
    BY <1>3 DEF pub_sub_match, UrisMatch
  <2> QED
    BY <1>0, <2>1, <2>2, <2>3
<1>4. CASE geturi_for_rid(s, rid) # {}
  <2> PICK C : C = {s.ress[i].rid : i \in Used(s)}
    OBVIOUS
  <2>1. Candidates(s, rid) = C
    BY <1>4 DEF Candidates
  <2> DEFINE f == [i \in Used(s) |-> s.ress[i].rid]
  <2>2. f \in [Used(s) -> C] /\ \A r \in C : \E i \in Used(s) : f[i] = r
    OBVIOUS
  <2> HIDE DEF f
  <2>3. f \in Surjection(Used(s), C)
    BY <2>2 DEF Surjection
  <2>4. IsFiniteSet(C) /\ Cardinality(C) <= Cardinality(Used(s))
    BY <1>1, <2>3, FS_Surjection
  <2>5. Cardinality(C) \in Nat /\ Cardinality(Used(s)) \in Nat
    BY <1>1, <2>4, CardinalityNat
  <2>6. \A r : pub_sub_match(s, rid, r) => r \in C
    <3> SUFFICES ASSUME NEW r, pub_sub_match(s, rid, r) PROVE r \in C
      OBVIOUS
    <3>1. geturi_for_rid(s, r) # {}
      BY <1>4 DEF pub_sub_match, UrisMatch
    <3> QED
      BY <1>2, <3>1
  <2> QED
    BY <1>0, <1>1, <2>1, <2>4, <2>5, <2>6
<1> QED
  BY <1>3, <1>4

\* the count of a publication does not overflow
LEMMA PairsFew ==
  ASSUME NEW s, Own(s), NEW rsubs, NEW rid
  PROVE  IsFiniteSet(Pairs(s, rsubs, rid)) /\ Cardinality(Pairs(s, rsubs, rid)) \in Nat
         /\ Cardinality(Pairs(s, rsubs, rid)) < CountSpace
<1> PICK C : C = Candidates(s, rid)
  OBVIOUS
<1>0. /\ IsFiniteSet(Peers) /\ MAX_RESOURCES \in Nat
      /\ CountSpace \in Nat /\ MAX_RESOURCES * Cardinality(Peers) < CountSpace
  BY PubSubAssumption
<1>1. IsFiniteSet(C) /\ Cardinality(C) <= MAX_RESOURCES /\ \A r : pub_sub_match(s, rid, r) => r \in C
  BY CandidatesFew
<1>2. Pairs(s, rsubs, rid) \subseteq Peers \X C
  BY <1>1, PairsAre
<1>3. IsFiniteSet(Peers \X C) /\ Cardinality(Peers \X C) = Cardinality(Peers) * Cardinality(C)
  BY <1>0, <1>1, FS_Product
<1>4. IsFiniteSet(Pairs(s, rsubs, rid)) /\ Cardinality(Pairs(s, rsubs, rid)) <= Cardinality(Peers \X C)
  BY <1>2, <1>3, FS_Subset
<1>5. Cardinality(Peers) \in Nat /\ Cardinality(C) \in Nat /\ Cardinality(Pairs(s, rsubs, rid)) \in Nat
  BY <1>0, <1>1, <1>4, CardinalityNat
<1>6. Cardinality(Peers) * Cardinality(C) <= MAX_RESOURCES * Cardinality(Peers)
  <2> PICK a, b : a = Cardinality(Peers) /\ b = Cardinality(C)
    OBVIOUS
  <2>1. a \in Nat /\ b \in Nat /\ b <= MAX_RESOURCES
    BY <1>1, <1>5
  <2>2. a * b <= MAX_RESOURCES * a
    BY <1>0, <2>1
  <2> QED
    BY <2>2
<1>7. Cardinality(Pairs(s, rsubs, rid)) < CountSpace
  <2> PICK c, d, e : c = Cardinality(Pairs(s, rsubs, rid)) /\ d = Cardinality(Peers) * Cardinality(C)
                     /\ e = MAX_RESOURCES * Cardinality(Peers)
    OBVIOUS
  <2>1. c \in Nat /\ d \in Nat /\ e \in Nat /\ CountSpace \in Nat
    BY <1>0, <1>5
  <2>2. c <= d /\ d <= e /\ e < CountSpace
    BY <1>0, <1>3, <1>4, <1>6
  <2>3. c < CountSpace
    BY <2>1, <2>2
  <2> QED
    BY <2>3
<1> QED
  BY <1>4, <1>5, <1>7

\* a peer that has none of the subscriptions in new gets them
LEMMA PairsMore ==
  ASSUME NEW s, Own(s), NEW rsubs, NEW p \in Peers, NEW new, new \cap rsubs[p] = {},
         NEW rsubs2, rsubs2[p] = rsubs[p] \cup new, \A q \in Peers : q # p => rsubs2[q] = rsubs[q],
         NEW rid
  PROVE  /\ Cardinality(Pairs(s, rsubs2, rid))
              = Cardinality(Pairs(s, rsubs, rid)) + Cardinality(Matching(s, rid, new))
         /\ Cardinality(Matching(s, rid, new)) \in Nat
<1> PICK N : N = Matching(s, rid, new)
  OBVIOUS
<1> PICK P : P = Pairs(s, rsubs, rid)
  OBVIOUS
<1> PICK P2 : P2 = Pairs(s, rsubs2, rid)
  OBVIOUS
<1>1. IsFiniteSet(P) /\ IsFiniteSet(P2) /\ Cardinality(P) \in Nat
  BY PairsFew
<1>2. \A x : x \in P <=> \E q \in Peers : \E r \in rsubs[q] : x = <<q, r>> /\ pub_sub_match(s, rid, r)
  BY PairsAre
<1>3. \A x : x \in P2 <=> \E q \in Peers : \E r \in rsubs2[q] : x = <<q, r>> /\ pub_sub_match(s, rid, r)
  BY PairsAre
<1>4. N = {r \in new : pub_sub_match(s, rid, r)}
  BY DEF Matching
<1>5. P2 = P \cup ({p} \X N)
  <2>1. ASSUME NEW x \in P2 PROVE x \in P \cup ({p} \X N)
    <3>0. PICK q \in Peers : \E r \in rsubs2[q] : x = <<q, r>> /\ pub_sub_match(s, rid, r)
      BY <1>3
    <3>1. PICK r \in rsubs2[q] : x = <<q, r>> /\ pub_sub_match(s, rid, r)
      BY <3>0
    <3>2. r \in rsubs[q] \/ (q = p /\ r \in new)
      BY <3>1
    <3> QED
      BY <1>2, <1>4, <3>1, <3>2
  <2>2. ASSUME NEW x \in P PROVE x \in P2
    <3>0. PICK q \in Peers : \E r \in rsubs[q] : x = <<q, r>> /\ pub_sub_match(s, rid, r)
      BY <1>2
    <3>1. PICK r \in rsubs[q] : x = <<q, r>> /\ pub_sub_match(s, rid, r)
      BY <3>0
    <3>2. r \in rsubs2[q]
      BY <3>1
    <3> QED
      BY <1>3, <3>1, <3>2
  <2>3. ASSUME NEW r \in N PROVE <<p, r>> \in P2
    BY <1>3, <1>4
  <2> QED
    BY <2>1, <2>2, <2>3
<1>6. P \cap ({p} \X N) = {}
  BY <1>2, <1>4
<1>7. IsFiniteSet({p} \X N)
  BY <1>1, <1>5, FS_Subset
<1>8. IsFiniteSet(N)
  <2> DEFINE f == [r \in N |-> <<p, r>>]
  <2>1. f \in Injection(N, {p} \X N)
    BY DEF Injection, IsInjective
  <2> HIDE DEF f
  <2> QED
    BY <1>7, <2>1, FS_Injection
<1>9. Cardinality({p} \X N) = Cardinality(N) /\ Cardinality(N) \in Nat
  <2>1. IsFiniteSet({p}) /\ Cardinality({p}) = 1
    BY FS_Singleton
  <2>2. Cardinality({p} \X N) = Cardinality({p}) * Cardinality(N)
    BY <1>8, <2>1, FS_Product
  <2>3. Cardinality(N) \in Nat
    BY <1>8, CardinalityNat
  <2> QED
    BY <2>1, <2>2, <2>3
<1>10. Cardinality(P2) = Cardinality(P) + Cardinality(N)
  <2>1. Cardinality(P \cup ({p} \X N))
          = Cardinality(P) + Cardinality({p} \X N) - Cardinality(P \cap ({p} \X N))
    BY <1>1, <1>7, FS_Union
  <2>2. Cardinality(P \cap ({p} \X N)) = 0
    BY <1>6, FS_EmptySet
  <2> QED
    BY <1>1, <1>5, <1>9, <2>1, <2>2
<1> QED
  BY <1>9, <1>10

-----------------------------------------------------------------------------
(* What declarations change: the invariant of node, and how it is kept.     *)

\* a function with domain S
Map(f, S) == f = [x \in S |-> f[x]]

Counts(c) == Map(c, Pubs) /\ \A i \in Pubs : c[i] \in 0 .. CountSpace - 1

Transaction(t) == t = [rsubs |-> t.rsubs, result |-> t.result] /\ Fit(t.rsubs)

\* well-formed tables, whatever the messages of the peers
Tables(n) ==
    /\ n = [store |-> n.store, residx2sub |-> n.residx2sub, count |-> n.count,
            rsubs |-> n.rsubs, precommit |-> n.precommit, curpkt |-> n.curpkt]
    /\ Sound(n.store)
    /\ Map(n.residx2sub, Indexes)
    /\ Counts(n.count)
    /\ Map(n.rsubs, Peers)
    /\ \A p \in Peers : Fit(n.rsubs[p])
    /\ Map(n.precommit, Peers)
    /\ \A p \in Peers : Transaction(n.precommit[p])
    /\ Transaction(n.curpkt)

\* Every resource is the node's own before a peer refers to it.
Orderly == Settled /\ \A d \in PeersDeclare : \E r \in Resources : r[1] = d.rid

PubsFit == pubs \in Seq(OwnRids) /\ Len(pubs) <= MAX_PUBLICATIONS

Exact(n) == \A i \in DOMAIN pubs : n.count[i] = Cardinality(Pairs(n.store, n.rsubs, pubs[i]))

\* exact counts, and the resources are the node's own and still those of node
Good(n) ==
    /\ Orderly /\ PubsFit
    /\ Own(node.store) /\ StillOwn(node.store, n.store) /\ Own(n.store)
    /\ Exact(n)

\* a step of a handler: the tables stay well formed, and if the counts were
\* exact they still are and no name has changed
Leads(n, m) ==
    /\ Tables(m)
    /\ Good(n) => Good(m) /\ StillOwn(n.store, m.store) /\ m.residx2sub = n.residx2sub

LEMMA LeadsTwice == ASSUME NEW n, NEW m, NEW o, Leads(n, m), Leads(m, o) PROVE Leads(n, o)
BY StillOwnTwice DEF Leads

LEMMA StillItself == ASSUME NEW s, Own(s) PROVE StillOwn(s, s)
BY DEF StillOwn, SameNames

LEMMA LeadsHere == ASSUME NEW n, Tables(n) PROVE Leads(n, n)
BY StillItself DEF Leads, Good

\* only transactions change
LEMMA OnlyTransactions ==
  ASSUME NEW n, Tables(n), NEW pre, NEW cur, NEW m,
         Map(pre, Peers), \A p \in Peers : Transaction(pre[p]), Transaction(cur),
         m = [store |-> n.store, residx2sub |-> n.residx2sub, count |-> n.count,
              rsubs |-> n.rsubs, precommit |-> pre, curpkt |-> cur]
  PROVE  Leads(n, m)
<1>1. /\ m.store = n.store /\ m.residx2sub = n.residx2sub /\ m.count = n.count
      /\ m.rsubs = n.rsubs /\ m.precommit = pre /\ m.curpkt = cur
  OBVIOUS
<1>2. Tables(m)
  BY <1>1 DEF Tables
<1>3. Good(n) => Good(m) /\ StillOwn(n.store, m.store)
  BY <1>1, StillItself DEF Good, Exact
<1> QED
  BY <1>1, <1>2, <1>3 DEF Leads

\* only the store changes
LEMMA OnlyStore ==
  ASSUME NEW n, Tables(n), NEW t, Sound(t), Good(n) => StillOwn(n.store, t),
         NEW m, m = [n EXCEPT !.store = t]
  PROVE  Leads(n, m)
<1>1. m = [store |-> t, residx2sub |-> n.residx2sub, count |-> n.count,
           rsubs |-> n.rsubs, precommit |-> n.precommit, curpkt |-> n.curpkt]
  BY DEF Tables
<1>2. /\ m.store = t /\ m.residx2sub = n.residx2sub /\ m.count = n.count
      /\ m.rsubs = n.rsubs /\ m.precommit = n.precommit /\ m.curpkt = n.curpkt
  BY <1>1
<1>3. Tables(m)
  BY <1>1, <1>2 DEF Tables
<1>4. ASSUME Good(n) PROVE Good(m) /\ StillOwn(n.store, m.store)
  <2>1. Own(n.store) /\ StillOwn(n.store, t)
    BY <1>4 DEF Good
  <2>2. \A rid : geturi_for_rid(t, rid) = geturi_for_rid(n.store, rid)
    BY <2>1, NamesStay
  <2>3. \A rid : Pairs(t, n.rsubs, rid) = Pairs(n.store, n.rsubs, rid)
    BY <2>2 DEF Pairs, Matching, pub_sub_match
  <2> QED
    BY <1>2, <1>4, <2>1, <2>3, StillOwnTwice DEF Good, Exact, StillOwn
<1> QED
  BY <1>2, <1>3, <1>4 DEF Leads

LEMMA Unwrapped == ASSUME NEW x \in Nat, x < CountSpace PROVE x % CountSpace = x
<1>1. CountSpace \in Nat
  BY PubSubAssumption
<1> QED
  BY <1>1

\* a count stays within its width, whatever is added or taken away
LEMMA CountSpaceIs == CountSpace \in Nat /\ CountSpace > 0
<1>1. IsFiniteSet(Peers) /\ MAX_RESOURCES \in Nat /\ CountSpace \in Nat
      /\ MAX_RESOURCES * Cardinality(Peers) < CountSpace
  BY PubSubAssumption
<1>2. Cardinality(Peers) \in Nat
  BY <1>1, CardinalityNat
<1> PICK e : e = MAX_RESOURCES * Cardinality(Peers)
  OBVIOUS
<1>3. e \in Nat /\ e < CountSpace
  BY <1>1, <1>2
<1> QED
  BY <1>1, <1>3

LEMMA Wrapped == ASSUME NEW x \in Int PROVE x % CountSpace \in 0 .. CountSpace - 1
BY CountSpaceIs

LEMMA MatchingFinite ==
  ASSUME NEW s, NEW rid, NEW S, IsFiniteSet(S), NEW R, R \subseteq S
  PROVE  Cardinality(Matching(s, rid, R)) \in Nat
<1>1. Matching(s, rid, R) \subseteq S
  BY DEF Matching
<1>2. IsFiniteSet(Matching(s, rid, R))
  BY <1>1, FS_Subset
<1> QED
  BY <1>2, CardinalityNat

\* rsubs and count change, in step with each other
LEMMA Counted ==
  ASSUME NEW n, Tables(n), NEW rs, NEW c, NEW pre, NEW cur,
         Map(rs, Peers), \A p \in Peers : Fit(rs[p]), Counts(c),
         Map(pre, Peers), \A p \in Peers : Transaction(pre[p]), Transaction(cur),
         Good(n) => \A i \in DOMAIN pubs : c[i] = Cardinality(Pairs(n.store, rs, pubs[i])),
         NEW m, m = [store |-> n.store, residx2sub |-> n.residx2sub, count |-> c,
                     rsubs |-> rs, precommit |-> pre, curpkt |-> cur]
  PROVE  Leads(n, m)
<1>1. /\ m.store = n.store /\ m.residx2sub = n.residx2sub /\ m.count = c
      /\ m.rsubs = rs /\ m.precommit = pre /\ m.curpkt = cur
  OBVIOUS
<1>2. Tables(m)
  BY <1>1 DEF Tables
<1>3. Good(n) => Good(m) /\ StillOwn(n.store, m.store)
  BY <1>1, StillItself DEF Good, Exact
<1> QED
  BY <1>1, <1>2, <1>3 DEF Leads

LEMMA LenPubs == PubsFit => DOMAIN pubs = 1 .. Len(pubs) /\ Len(pubs) \in Nat /\ DOMAIN pubs \subseteq Pubs
BY PubSubAssumption DEF PubsFit, Pubs

\* m is n with rids added to the table of p
Added(n, p, rids, m) ==
    /\ m = [store |-> n.store, residx2sub |-> n.residx2sub, count |-> m.count,
            rsubs |-> m.rsubs, precommit |-> n.precommit, curpkt |-> n.curpkt]
    /\ Map(m.count, Pubs)
    /\ \A i \in Pubs : i \in DOMAIN pubs =>
           m.count[i] = (n.count[i] + Cardinality(Matching(n.store, pubs[i], rids \ n.rsubs[p])))
                           % CountSpace
    /\ \A i \in Pubs : i \notin DOMAIN pubs => m.count[i] = n.count[i]
    /\ Map(m.rsubs, Peers)
    /\ m.rsubs[p] = n.rsubs[p] \cup rids
    /\ \A q \in Peers : q # p => m.rsubs[q] = n.rsubs[q]

LEMMA AddRsubsIs ==
  ASSUME NEW n, Tables(n), NEW p \in Peers, NEW rids
  PROVE  Added(n, p, rids, AddRsubs(n, p, rids))
<1> PICK m : m = AddRsubs(n, p, rids)
  OBVIOUS
<1> PICK rs : rs = [n.rsubs EXCEPT ![p] = @ \cup rids]
  OBVIOUS
<1>a. PICK k : k = [n EXCEPT !.rsubs[p] = @ \cup rids]
  OBVIOUS
<1>1. k = [store |-> n.store, residx2sub |-> n.residx2sub, count |-> n.count,
           rsubs |-> rs, precommit |-> n.precommit, curpkt |-> n.curpkt]
  BY <1>a DEF Tables
<1> PICK R : R = rids \ n.rsubs[p]
  OBVIOUS
<1>2. m = CountUp(k, R)
  BY <1>a DEF AddRsubs
<1>3. CountUp(k, R)
        = [k EXCEPT !.count = [i \in Pubs |->
              IF i \in DOMAIN pubs
              THEN (k.count[i] + Cardinality(Matching(k.store, pubs[i], R))) % CountSpace
              ELSE k.count[i]]]
  BY DEF CountUp
<1>4. k.count = n.count /\ k.store = n.store
  BY <1>1
<1>b. PICK c : c = [i \in Pubs |->
          IF i \in DOMAIN pubs
          THEN (n.count[i] + Cardinality(Matching(n.store, pubs[i], R))) % CountSpace
          ELSE n.count[i]]
  OBVIOUS
<1>5. m = [k EXCEPT !.count = c]
  BY <1>2, <1>3, <1>4, <1>b
<1>6. m = [store |-> n.store, residx2sub |-> n.residx2sub, count |-> c,
           rsubs |-> rs, precommit |-> n.precommit, curpkt |-> n.curpkt]
  BY <1>1, <1>5
<1>7. m.count = c /\ m.rsubs = rs
  BY <1>6
<1>8. Map(c, Pubs)
  BY <1>b DEF Map
<1>9. \A i \in Pubs : i \in DOMAIN pubs =>
         c[i] = (n.count[i] + Cardinality(Matching(n.store, pubs[i], R))) % CountSpace
  BY <1>b
<1>91. \A i \in Pubs : i \notin DOMAIN pubs => c[i] = n.count[i]
  BY <1>b
<1>10. /\ Map(rs, Peers) /\ rs[p] = n.rsubs[p] \cup rids
       /\ \A q \in Peers : q # p => rs[q] = n.rsubs[q]
  BY DEF Tables, Map
<1> QED
  BY <1>6, <1>7, <1>8, <1>9, <1>91, <1>10 DEF Added

LEMMA AddRsubsLeads ==
  ASSUME NEW n, Tables(n), NEW p \in Peers, NEW rids, Fit(n.rsubs[p] \cup rids)
  PROVE  Leads(n, AddRsubs(n, p, rids))
<1> DEFINE R == rids \ n.rsubs[p]
<1> PICK m : m = AddRsubs(n, p, rids)
  OBVIOUS
<1>0. Added(n, p, rids, m)
  BY AddRsubsIs
<1> PICK rs : rs = m.rsubs
  OBVIOUS
<1> PICK c : c = m.count
  OBVIOUS
<1>1. m = [store |-> n.store, residx2sub |-> n.residx2sub, count |-> c,
           rsubs |-> rs, precommit |-> n.precommit, curpkt |-> n.curpkt]
  BY <1>0 DEF Added
<1>2. /\ Map(rs, Peers) /\ rs[p] = n.rsubs[p] \cup rids
      /\ \A q \in Peers : q # p => rs[q] = n.rsubs[q]
  BY <1>0 DEF Added
<1>21. rs[p] = n.rsubs[p] \cup R
  BY <1>2
<1>22. /\ Map(c, Pubs)
       /\ \A i \in Pubs : i \in DOMAIN pubs =>
              c[i] = (n.count[i] + Cardinality(Matching(n.store, pubs[i], R))) % CountSpace
  BY <1>0 DEF Added
<1>23. \A i \in Pubs : i \notin DOMAIN pubs => c[i] = n.count[i]
  BY <1>0 DEF Added
<1>3. \A q \in Peers : Fit(rs[q])
  BY <1>2 DEF Tables
<1>4. Counts(c)
  <2> SUFFICES ASSUME NEW i \in Pubs PROVE c[i] \in 0 .. CountSpace - 1
    BY <1>22 DEF Counts
  <2>1. n.count[i] \in 0 .. CountSpace - 1
    BY DEF Tables, Counts
  <2>2. Cardinality(Matching(n.store, pubs[i], R)) \in Nat
    <3>1. R \subseteq n.rsubs[p] \cup rids /\ IsFiniteSet(n.rsubs[p] \cup rids)
      BY DEF Fit
    <3> QED
      BY <3>1, MatchingFinite
  <2> PICK x, y : x = n.count[i] /\ y = Cardinality(Matching(n.store, pubs[i], R))
    OBVIOUS
  <2>3. x + y \in Int
    BY <2>1, <2>2
  <2>4. c[i] = IF i \in DOMAIN pubs THEN (x + y) % CountSpace ELSE x
    BY <1>22, <1>23
  <2> QED
    BY <2>1, <2>3, <2>4, Wrapped
<1>5. ASSUME Good(n), NEW i \in DOMAIN pubs
      PROVE  c[i] = Cardinality(Pairs(n.store, rs, pubs[i]))
  <2>1. i \in Pubs
    BY <1>5, LenPubs DEF Good
  <2>2. n.count[i] = Cardinality(Pairs(n.store, n.rsubs, pubs[i])) /\ Own(n.store)
    BY <1>5 DEF Good, Exact
  <2> PICK x : x = Cardinality(Pairs(n.store, rs, pubs[i]))
    OBVIOUS
  <2>3. x = n.count[i] + Cardinality(Matching(n.store, pubs[i], R))
    <3>1. R \cap n.rsubs[p] = {}
      OBVIOUS
    <3> QED
      BY <1>2, <1>21, <2>2, <3>1, PairsMore
  <2>4. x \in Nat /\ x < CountSpace
    BY <2>2, PairsFew
  <2>5. c[i] = x % CountSpace
    BY <1>22, <1>5, <2>1, <2>3
  <2> QED
    BY <2>4, <2>5, Unwrapped
<1>6. /\ Map(n.precommit, Peers)
      /\ \A q \in Peers : Transaction(n.precommit[q])
      /\ Transaction(n.curpkt)
  BY DEF Tables
<1> QED
  BY <1>1, <1>2, <1>3, <1>4, <1>5, <1>6, Counted

\* the tables of a peer are cleared, and counted down
LEMMA ResetLeads ==
  ASSUME NEW n, Tables(n), NEW p \in Peers
  PROVE  Leads(n, zhe_reset_peer_rsubs(n, p))
<1> DEFINE R == n.rsubs[p]
<1>a. PICK c : c = [i \in Pubs |->
          IF i \in DOMAIN pubs
          THEN (n.count[i] - Cardinality(Matching(n.store, pubs[i], R))) % CountSpace
          ELSE n.count[i]]
  OBVIOUS
<1>b. PICK rs : rs = [n.rsubs EXCEPT ![p] = {}]
  OBVIOUS
<1>c. PICK pre : pre = [n.precommit EXCEPT ![p] = NoDecls]
  OBVIOUS
<1> PICK m : m = zhe_reset_peer_rsubs(n, p)
  OBVIOUS
<1>0. n = [store |-> n.store, residx2sub |-> n.residx2sub, count |-> n.count,
           rsubs |-> n.rsubs, precommit |-> n.precommit, curpkt |-> n.curpkt]
  BY DEF Tables
<1>1. m = [store |-> n.store, residx2sub |-> n.residx2sub, count |-> c,
           rsubs |-> rs, precommit |-> pre, curpkt |-> NoDecls]
  <2>1. CountDown(n, R) = [n EXCEPT !.count = c]
    BY <1>a DEF CountDown
  <2>a. PICK k : k = CountDown(n, R)
    OBVIOUS
  <2>2. k = [store |-> n.store, residx2sub |-> n.residx2sub, count |-> c,
             rsubs |-> n.rsubs, precommit |-> n.precommit, curpkt |-> n.curpkt]
    BY <1>0, <2>1, <2>a
  <2>3. m = [k EXCEPT !.rsubs[p] = {}, !.precommit[p] = NoDecls, !.curpkt = NoDecls]
    BY <2>a DEF zhe_reset_peer_rsubs
  <2> QED
    BY <2>2, <2>3, <1>b, <1>c
<1>2. /\ Map(rs, Peers) /\ rs[p] = {}
      /\ \A q \in Peers : q # p => rs[q] = n.rsubs[q]
  BY <1>b DEF Tables, Map
<1>3. \A q \in Peers : Fit(rs[q])
  BY <1>2, EmptyFits DEF Tables
<1>4. Counts(c)
  <2>1. Map(c, Pubs)
    BY <1>a DEF Map
  <2> SUFFICES ASSUME NEW i \in Pubs PROVE c[i] \in 0 .. CountSpace - 1
    BY <2>1 DEF Counts
  <2>2. n.count[i] \in 0 .. CountSpace - 1 /\ IsFiniteSet(R)
    BY DEF Tables, Counts, Fit
  <2>3. Cardinality(Matching(n.store, pubs[i], R)) \in Nat
    BY <2>2, MatchingFinite
  <2> PICK x, y : x = n.count[i] /\ y = Cardinality(Matching(n.store, pubs[i], R))
    OBVIOUS
  <2>4. c[i] = IF i \in DOMAIN pubs THEN (x - y) % CountSpace ELSE x
    BY <1>a
  <2>5. x - y \in Int
    BY <2>2, <2>3
  <2> QED
    BY <2>2, <2>4, <2>5, Wrapped
<1>5. ASSUME Good(n), NEW i \in DOMAIN pubs
      PROVE  c[i] = Cardinality(Pairs(n.store, rs, pubs[i]))
  <2>1. i \in Pubs
    BY <1>5, LenPubs DEF Good
  <2>2. n.count[i] = Cardinality(Pairs(n.store, n.rsubs, pubs[i])) /\ Own(n.store)
    BY <1>5 DEF Good, Exact
  <2> PICK x : x = Cardinality(Pairs(n.store, rs, pubs[i]))
    OBVIOUS
  <2> PICK y : y = Cardinality(Matching(n.store, pubs[i], R))
    OBVIOUS
  <2>3. n.count[i] = x + y /\ y \in Nat
    <3>1. R \cap rs[p] = {} /\ n.rsubs[p] = rs[p] \cup R
      BY <1>2
    <3>2. \A q \in Peers : q # p => n.rsubs[q] = rs[q]
      BY <1>2
    <3> QED
      BY <2>2, <3>1, <3>2, PairsMore
  <2>4. x \in Nat /\ x < CountSpace
    BY <2>2, PairsFew
  <2>5. c[i] = (n.count[i] - y) % CountSpace
    BY <1>a, <1>5, <2>1
  <2>6. n.count[i] - y = x
    <3> PICK z : z = n.count[i]
      OBVIOUS
    <3>1. z - y = x
      BY <2>3, <2>4
    <3> QED
      BY <3>1
  <2> QED
    BY <2>4, <2>5, <2>6, Unwrapped
<1>6. Transaction(NoDecls)
  BY EmptyFits DEF Transaction, NoDecls
<1>7. /\ Map(pre, Peers)
      /\ \A q \in Peers : Transaction(pre[q])
  BY <1>c, <1>6 DEF Tables, Map
<1> QED
  BY <1>1, <1>2, <1>3, <1>4, <1>5, <1>6, <1>7, Counted

LEMMA ClosedLeads ==
  ASSUME NEW n, Tables(n), NEW p \in Peers
  PROVE  Leads(n, Closed(n, p))
<1>a. PICK k : k = zhe_reset_peer_rsubs(n, p)
  OBVIOUS
<1>1. Leads(n, k) /\ Tables(k) /\ Sound(k.store)
  BY <1>a, ResetLeads DEF Leads, Tables
<1>2. Sound(US!zhe_uristore_reset_peer(k.store, p))
  BY <1>1, SoundOps
<1>3. Good(k) => StillOwn(k.store, US!zhe_uristore_reset_peer(k.store, p))
  BY OwnOps DEF Good
<1>4. Closed(n, p) = [k EXCEPT !.store = US!zhe_uristore_reset_peer(k.store, p)]
  BY <1>a DEF Closed
<1>5. Leads(k, Closed(n, p))
  BY <1>1, <1>2, <1>3, <1>4, OnlyStore
<1> QED
  BY <1>1, <1>5, LeadsTwice

-----------------------------------------------------------------------------
(* Transactions. *)

LEMMA EmptyTransaction == Transaction(NoDecls)
BY EmptyFits DEF Transaction, NoDecls

LEMMA NotedTransaction ==
  ASSUME NEW t, Transaction(t), NEW status
  PROVE  Transaction(NotedIn(t, status)) /\ NotedIn(t, status).rsubs = t.rsubs
<1>1. CASE t.result \in {"OK", "AGAIN"}
  <2>1. NotedIn(t, status) = [t EXCEPT !.result = status]
    BY <1>1 DEF NotedIn
  <2>2. NotedIn(t, status) = [rsubs |-> t.rsubs, result |-> status]
    BY <2>1 DEF Transaction
  <2> QED
    BY <2>2 DEF Transaction
<1>2. CASE t.result \notin {"OK", "AGAIN"}
  BY <1>2 DEF NotedIn
<1> QED
  BY <1>1, <1>2

\* the transaction of the packet becomes t
LEMMA CurpktLeads ==
  ASSUME NEW n, Tables(n), NEW t, Transaction(t), NEW m, m = [n EXCEPT !.curpkt = t]
  PROVE  Leads(n, m)
<1>1. m = [store |-> n.store, residx2sub |-> n.residx2sub, count |-> n.count,
           rsubs |-> n.rsubs, precommit |-> n.precommit, curpkt |-> t]
  BY DEF Tables
<1>2. Map(n.precommit, Peers) /\ \A p \in Peers : Transaction(n.precommit[p])
  BY DEF Tables
<1> QED
  BY <1>1, <1>2, OnlyTransactions

\* the transaction of p becomes t
LEMMA PrecommitLeads ==
  ASSUME NEW n, Tables(n), NEW p \in Peers, NEW t, Transaction(t),
         NEW m, m = [n EXCEPT !.precommit[p] = t]
  PROVE  Leads(n, m)
<1>a. PICK pre : pre = [n.precommit EXCEPT ![p] = t]
  OBVIOUS
<1>1. m = [store |-> n.store, residx2sub |-> n.residx2sub, count |-> n.count,
           rsubs |-> n.rsubs, precommit |-> pre, curpkt |-> n.curpkt]
  BY <1>a DEF Tables
<1>2. Map(pre, Peers) /\ \A q \in Peers : Transaction(pre[q])
  BY <1>a DEF Tables, Map
<1>3. Transaction(n.curpkt)
  BY DEF Tables
<1> QED
  BY <1>1, <1>2, <1>3, OnlyTransactions

LEMMA NoteCurpktLeads ==
  ASSUME NEW n, Tables(n), NEW status
  PROVE  Leads(n, zhe_decl_note_error_curpkt(n, status))
<1>1. Transaction(NotedIn(n.curpkt, status))
  BY NotedTransaction DEF Tables
<1> QED
  BY <1>1, CurpktLeads DEF zhe_decl_note_error_curpkt

LEMMA NoteSomepeerLeads ==
  ASSUME NEW n, Tables(n), NEW p \in Peers, NEW status
  PROVE  Leads(n, zhe_decl_note_error_somepeer(n, p, status))
<1>1. Transaction(NotedIn(n.precommit[p], status))
  BY NotedTransaction DEF Tables
<1> QED
  BY <1>1, PrecommitLeads DEF zhe_decl_note_error_somepeer

LEMMA AbortLeads ==
  ASSUME NEW n, Tables(n)
  PROVE  Leads(n, zhe_rsub_precommit_curpkt_abort(n))
BY EmptyTransaction, CurpktLeads DEF zhe_rsub_precommit_curpkt_abort

LEMMA DoneLeads ==
  ASSUME NEW n, Tables(n), NEW p \in Peers
  PROVE  Leads(n, zhe_rsub_precommit_curpkt_done(n, p))
<1> DEFINE rsubs == n.precommit[p].rsubs
           fit == FirstFit(rsubs, n.curpkt.rsubs)
           result(k) == k.curpkt.result
<1>a. PICK all : all = [n EXCEPT !.precommit[p].rsubs = rsubs \cup fit]
  OBVIOUS
<1>b. PICK noted : noted = IF n.curpkt.rsubs \subseteq rsubs \cup fit THEN all
                           ELSE zhe_decl_note_error_curpkt(all, "NOSPACE")
  OBVIOUS
<1>c. PICK last : last = IF noted.curpkt.result = "OK" THEN noted
                         ELSE zhe_decl_note_error_somepeer(noted, p, noted.curpkt.result)
  OBVIOUS
<1>1. Transaction(n.precommit[p]) /\ Transaction(n.curpkt) /\ p \in DOMAIN n.precommit
  BY DEF Tables, Map
<1>2. Fit(rsubs \cup fit)
  BY <1>1, FirstFitIs DEF Transaction
<1>d. PICK t : t = [rsubs |-> rsubs \cup fit, result |-> n.precommit[p].result]
  OBVIOUS
<1>3. Transaction(t)
  BY <1>2, <1>d DEF Transaction
<1>4. all = [n EXCEPT !.precommit[p] = t]
  <2>1. [n.precommit[p] EXCEPT !.rsubs = rsubs \cup fit] = t
    <3> PICK old : old = n.precommit[p]
      OBVIOUS
    <3> PICK S : S = rsubs \cup fit
      OBVIOUS
    <3>1. old = [rsubs |-> old.rsubs, result |-> old.result]
      BY <1>1 DEF Transaction
    <3>2. [old EXCEPT !.rsubs = S] = [rsubs |-> S, result |-> old.result]
      BY <3>1
    <3> QED
      BY <3>2, <1>d
  <2>2. all = [n EXCEPT !.precommit[p] = [n.precommit[p] EXCEPT !.rsubs = rsubs \cup fit]]
    BY <1>a
  <2> QED
    BY <2>1, <2>2
<1>5. Leads(n, all)
  BY <1>3, <1>4, PrecommitLeads
<1>6. Leads(n, noted)
  BY <1>b, <1>5, NoteCurpktLeads, LeadsTwice DEF Leads
<1>7. Leads(n, last)
  BY <1>c, <1>6, NoteSomepeerLeads, LeadsTwice DEF Leads
<1>8. zhe_rsub_precommit_curpkt_done(n, p) = zhe_rsub_precommit_curpkt_abort(last)
  BY <1>a, <1>b, <1>c DEF zhe_rsub_precommit_curpkt_done
<1> QED
  BY <1>7, <1>8, AbortLeads, LeadsTwice DEF Leads

LEMMA PrecommittedLeads ==
  ASSUME NEW n, Tables(n), NEW p \in Peers
  PROVE  Leads(n, zhe_rsub_precommit(n, p))
BY LeadsHere, EmptyTransaction, PrecommitLeads DEF zhe_rsub_precommit

LEMMA RsubCommitLeads ==
  ASSUME NEW n, Tables(n), NEW p \in Peers
  PROVE  Leads(n, zhe_rsub_commit(n, p))
<1>1. Fit(n.rsubs[p]) /\ Fit(n.precommit[p].rsubs)
  BY DEF Tables, Transaction
<1>2. Fit(n.rsubs[p] \cup FirstFit(n.rsubs[p], n.precommit[p].rsubs))
  BY <1>1, FirstFitIs
<1> PICK k : k = AddRsubs(n, p, FirstFit(n.rsubs[p], n.precommit[p].rsubs))
  OBVIOUS
<1>3. Leads(n, k)
  BY <1>2, AddRsubsLeads
<1>4. zhe_rsub_commit(n, p) = zhe_rsub_precommit_curpkt_abort(k)
  BY DEF zhe_rsub_commit
<1> QED
  BY <1>3, <1>4, AbortLeads, LeadsTwice DEF Leads

\* the store and the lists change
LEMMA ListsChange ==
  ASSUME NEW n, Tables(n), NEW t, Sound(t), NEW lists, Map(lists, Indexes),
         Good(n) => StillOwn(n.store, t) /\ lists = n.residx2sub,
         NEW m, m = [n EXCEPT !.store = t, !.residx2sub = lists]
  PROVE  Leads(n, m)
<1>1. m = [store |-> t, residx2sub |-> lists, count |-> n.count,
           rsubs |-> n.rsubs, precommit |-> n.precommit, curpkt |-> n.curpkt]
  BY DEF Tables
<1>2. Tables(m)
  BY <1>1 DEF Tables
<1>3. ASSUME Good(n) PROVE Good(m) /\ StillOwn(n.store, m.store) /\ m.residx2sub = n.residx2sub
  <2>1. m = [n EXCEPT !.store = t]
    BY <1>1, <1>3 DEF Tables
  <2> QED
    BY <1>3, <2>1, OnlyStore DEF Leads
<1> QED
  BY <1>2, <1>3 DEF Leads

LEMMA CommitTentativeLeads ==
  ASSUME NEW n, Tables(n), NEW p \in Peers
  PROVE  Leads(n, CommitTentative(n, p))
<1> DEFINE fresh == {i \in ToSet(n.store.used) : /\ n.store.ress[i].tentative = p
                                                /\ ~n.store.ress[i].committed}
           rid(i) == n.store.ress[i].rid
           Updated(i) == zhe_update_subs_for_resource_decl(
                    [n EXCEPT !.store = CommittedUpto(@, p, rid(i))], rid(i)).residx2sub[i]
<1> PICK t : t = US!zhe_uristore_commit_tentative(n.store, p)
  OBVIOUS
<1>a. PICK lists : lists = [i \in DOMAIN n.residx2sub |->
                              IF i \in fresh THEN Updated(i) ELSE n.residx2sub[i]]
  OBVIOUS
<1>1. CommitTentative(n, p) = [n EXCEPT !.store = t, !.residx2sub = lists]
  BY <1>a DEF CommitTentative
<1>2. Sound(n.store) /\ Map(n.residx2sub, Indexes)
  BY DEF Tables
<1>3. Sound(t)
  BY <1>2, SoundOps
<1>4. DOMAIN n.residx2sub = Indexes
  BY <1>2 DEF Map
<1>5. Map(lists, Indexes)
  <2> HIDE DEF fresh, Updated
  <2> QED
    BY <1>a, <1>4 DEF Map
<1>6. ASSUME Good(n) PROVE StillOwn(n.store, t) /\ lists = n.residx2sub
  <2>1. Own(n.store)
    BY <1>6 DEF Good
  <2>2. fresh = {}
    BY <1>2, <2>1, OwnIs, SoundIs
  <2> HIDE DEF fresh, Updated
  <2>3. lists = n.residx2sub
    BY <1>2, <1>a, <1>4, <2>2 DEF Map
  <2> QED
    BY <2>1, <2>3, OwnOps
<1> QED
  BY <1>1, <1>3, <1>5, <1>6, ListsChange

-----------------------------------------------------------------------------
(* Declarations. *)

LEMMA StepIs == ASSUME NEW n, NEW mode PROVE Step(n, mode).n = n /\ Step(n, mode).mode = mode
BY DEF Step

LEMMA DresourceLeads ==
  ASSUME NEW n, Tables(n), NEW p \in Peers, NEW d, <<d.rid, d.uri>> \in AllResources,
         NEW tentative \in BOOLEAN,
         Good(n) => US!lookup_rid(n.store, d.rid) # {}
  PROVE  Leads(n, handle_dresource(n, p, d, tentative).n)
<1> PICK h : h = handle_dresource(n, p, d, tentative)
  OBVIOUS
<1>0. Sound(n.store)
  BY DEF Tables
<1>a. PICK r : r = IF d.uri \in ValidUris
                   THEN US!zhe_uristore_store(n.store, p, d.rid, d.uri, tentative)
                   ELSE [s |-> n.store, res |-> "USR_INVALID", loser |-> NONE]
  OBVIOUS
<1>1. /\ Sound(r.s) /\ r.loser \in Peers \cup {NONE}
      /\ r.res \in {"USR_OK", "USR_DUPLICATE", "USR_MISMATCH", "USR_NOSPACE", "USR_AGAIN", "USR_INVALID"}
      /\ Good(n) => StillOwn(n.store, r.s) /\ (r.res = "USR_OK" => tentative)
  <2>1. CASE d.uri \in ValidUris
    <3>1. r = US!zhe_uristore_store(n.store, p, d.rid, d.uri, tentative)
      BY <1>a, <2>1
    <3>2. Sound(r.s) /\ StoreResult(r)
      BY <1>0, <3>1, SoundStore
    <3>3. Good(n) => StillOwn(n.store, r.s) /\ (r.res = "USR_OK" => tentative)
      BY <3>1, OwnStoreKnown DEF Good
    <3> QED
      BY <3>2, <3>3 DEF StoreResult
  <2>2. CASE d.uri \notin ValidUris
    BY <1>0, <1>a, <2>2, StillItself DEF Good
  <2> QED
    BY <2>1, <2>2
<1>b. PICK stored : stored = [n EXCEPT !.store = r.s]
  OBVIOUS
<1>2. Leads(n, stored) /\ Tables(stored)
  BY <1>1, <1>b, OnlyStore DEF Leads
<1>c. PICK later : later = zhe_update_subs_for_resource_decl(stored, d.rid)
  OBVIOUS
<1>3. \/ h.n = n \/ h.n = stored
      \/ \E e : h.n = zhe_decl_note_error_curpkt(n, e)
      \/ h.n = zhe_decl_note_error_curpkt(stored, "AGAIN")
      \/ \E q \in Peers : h.n = zhe_decl_note_error_somepeer(stored, q, "AGAIN")
      \/ h.n = later /\ r.res = "USR_OK" /\ ~ tentative
  <2> PICK conflict, nospace, invalid, again :
             /\ conflict = zhe_decl_note_error_curpkt(n, "CONFLICT")
             /\ nospace = zhe_decl_note_error_curpkt(n, "NOSPACE")
             /\ invalid = zhe_decl_note_error_curpkt(n, "INVALID")
             /\ again = zhe_decl_note_error_curpkt(stored, "AGAIN")
    OBVIOUS
  <2> PICK somepeer : somepeer = zhe_decl_note_error_somepeer(stored, r.loser, "AGAIN")
    OBVIOUS
  <2> DEFINE anonymous == zhe_rid_in_use_anonymously(n.store, d.rid)
             I(k) == Step(k, "DIM_INTERPRET")
             A(k) == Step(k, "DIM_ABORT")
  <2>a. h = IF anonymous THEN I(conflict)
        ELSE CASE r.res = "USR_OK" /\ ~tentative -> I(later)
               [] r.res = "USR_OK" /\ tentative /\ r.loser = p -> A(again)
               [] r.res = "USR_OK" /\ tentative /\ r.loser \in Peers \ {p} -> I(somepeer)
               [] r.res = "USR_OK" /\ tentative /\ r.loser = NONE -> I(stored)
               [] r.res = "USR_DUPLICATE" -> I(stored)
               [] r.res = "USR_AGAIN" -> A(n)
               [] r.res = "USR_NOSPACE" -> I(nospace)
               [] r.res = "USR_MISMATCH" -> I(conflict)
               [] r.res = "USR_INVALID" -> I(invalid)
    BY <1>a, <1>b, <1>c DEF handle_dresource
  <2>0. \A k : I(k).n = k /\ A(k).n = k
    BY StepIs
  <2> HIDE DEF I, A, anonymous
  <2>1. CASE anonymous
    <3>1. h = I(conflict)
      BY <2>a, <2>1
    <3> QED
      BY <2>0, <3>1
  <2>2. CASE ~ anonymous /\ r.res # "USR_OK"
    <3>1. h \in {I(stored), A(n), I(nospace), I(conflict), I(invalid)}
      BY <1>1, <2>a, <2>2
    <3> QED
      BY <2>0, <3>1
  <2>3. CASE ~ anonymous /\ r.res = "USR_OK" /\ ~ tentative
    <3>1. h = I(later)
      BY <2>a, <2>3
    <3> QED
      BY <2>0, <2>3, <3>1
  <2>4. CASE ~ anonymous /\ r.res = "USR_OK" /\ tentative
    <3>1. CASE r.loser = p
      <4>1. h = A(again)
        BY <2>a, <2>4, <3>1, PeersAre
      <4> QED
        BY <2>0, <4>1
    <3>2. CASE r.loser \in Peers \ {p}
      <4>1. h = I(somepeer)
        BY <2>a, <2>4, <3>2, PeersAre
      <4> QED
        BY <2>0, <3>2, <4>1
    <3>3. CASE r.loser = NONE
      <4>1. h = I(stored)
        BY <2>a, <2>4, <3>3, PeersAre
      <4> QED
        BY <2>0, <4>1
    <3> QED
      BY <1>1, <3>1, <3>2, <3>3
  <2> QED
    BY <2>1, <2>2, <2>3, <2>4
<1>4. ASSUME h.n = later, r.res = "USR_OK", ~ tentative PROVE Leads(n, later)
  <2>1. ~ Good(n)
    BY <1>1, <1>4
  <2>2. Tables(later)
    <3> DEFINE idx == CHOOSE i \in US!lookup_rid(stored.store, d.rid) : TRUE
    <3>1. \E l : later = [stored EXCEPT !.residx2sub[idx] = l]
      BY <1>c DEF zhe_update_subs_for_resource_decl
    <3>2. PICK l : later = [stored EXCEPT !.residx2sub[idx] = l]
      BY <3>1
    <3> HIDE DEF idx
    <3>a. PICK lists : lists = [stored.residx2sub EXCEPT ![idx] = l]
      OBVIOUS
    <3>3. Map(lists, Indexes)
      BY <1>2, <3>a DEF Tables, Map
    <3>4. later = [store |-> stored.store, residx2sub |-> lists, count |-> stored.count,
                   rsubs |-> stored.rsubs, precommit |-> stored.precommit, curpkt |-> stored.curpkt]
      BY <1>2, <3>2, <3>a DEF Tables
    <3> QED
      BY <1>2, <3>3, <3>4 DEF Tables
  <2> QED
    BY <2>1, <2>2 DEF Leads
<1>5. \A e : Leads(n, zhe_decl_note_error_curpkt(n, e))
  BY NoteCurpktLeads
<1>6. Leads(n, zhe_decl_note_error_curpkt(stored, "AGAIN"))
  BY <1>2, NoteCurpktLeads, LeadsTwice
<1>7. \A q \in Peers : Leads(n, zhe_decl_note_error_somepeer(stored, q, "AGAIN"))
  BY <1>2, NoteSomepeerLeads, LeadsTwice
<1>8. Leads(n, n)
  BY LeadsHere
<1>9. Leads(n, h.n)
  BY <1>2, <1>3, <1>4, <1>5, <1>6, <1>7, <1>8
<1> QED
  BY <1>9

LEMMA DsubLeads ==
  ASSUME NEW n, Tables(n), NEW p \in Peers, NEW d, d.rid \in Nat, NEW tentative \in BOOLEAN
  PROVE  Leads(n, handle_dsub(n, p, d, tentative).n)
<1>1. /\ Leads(n, zhe_decl_note_error_curpkt(n, SubError(d.rid, d.mode)))
      /\ Leads(n, zhe_decl_note_error_curpkt(n, "NOSPACE"))
  BY NoteCurpktLeads
<1>0. SubError(d.rid, d.mode) = "OK" => d.rid \in 0 .. MAX_RID - 1
  BY LimitIs DEF SubError
<1>2. ASSUME d.rid \in n.rsubs[p] \/ ~ Full(n.rsubs[p]), d.rid \in 0 .. MAX_RID - 1
      PROVE  Leads(n, AddRsubs(n, p, {d.rid}))
  <2>1. Fit(n.rsubs[p])
    BY DEF Tables
  <2> QED
    BY <1>2, <2>1, OneFits, AddRsubsLeads
<1>3. ASSUME d.rid \in n.curpkt.rsubs \/ ~ Full(n.curpkt.rsubs), d.rid \in 0 .. MAX_RID - 1
      PROVE  Leads(n, [n EXCEPT !.curpkt.rsubs = @ \cup {d.rid}])
  <2> PICK S : S = n.curpkt.rsubs \cup {d.rid}
    OBVIOUS
  <2>1. Fit(n.curpkt.rsubs) /\ n.curpkt = [rsubs |-> n.curpkt.rsubs, result |-> n.curpkt.result]
    BY DEF Tables, Transaction
  <2>2. Fit(S)
    BY <1>3, <2>1, OneFits
  <2>a. PICK t : t = [rsubs |-> S, result |-> n.curpkt.result]
    OBVIOUS
  <2>3. Transaction(t)
    BY <2>a, <2>2 DEF Transaction
  <2>4. [n.curpkt EXCEPT !.rsubs = S] = t
    <3> PICK old : old = n.curpkt
      OBVIOUS
    <3>1. [old EXCEPT !.rsubs = S] = [rsubs |-> S, result |-> old.result]
      BY <2>1
    <3> QED
      BY <3>1, <2>a
  <2>5. [n EXCEPT !.curpkt.rsubs = S] = [n EXCEPT !.curpkt = [n.curpkt EXCEPT !.rsubs = S]]
    OBVIOUS
  <2>6. [n EXCEPT !.curpkt.rsubs = S] = [n EXCEPT !.curpkt = t]
    BY <2>4, <2>5
  <2>7. Leads(n, [n EXCEPT !.curpkt = t])
    BY <2>3, CurpktLeads
  <2> QED
    BY <2>6, <2>7
<1>4. Leads(n, rsub_register_committed(n, p, d.rid, d.mode))
  BY <1>0, <1>1, <1>2 DEF rsub_register_committed
<1>5. Leads(n, rsub_register_tentative(n, d.rid, d.mode))
  BY <1>0, <1>1, <1>3 DEF rsub_register_tentative
<1> QED
  BY <1>4, <1>5, StepIs DEF handle_dsub

LEMMA DcommitLeads ==
  ASSUME NEW n, Tables(n), NEW p \in Peers, NEW room
  PROVE  Leads(n, handle_dcommit(n, p, room).n)
<1> PICK done : done = zhe_rsub_precommit_curpkt_done(n, p)
  OBVIOUS
<1>1. Leads(n, done) /\ Tables(done)
  BY DoneLeads DEF Leads
<1>2. Leads(n, CommitTentative(zhe_rsub_commit(done, p), p))
  <2> PICK k : k = zhe_rsub_commit(done, p)
    OBVIOUS
  <2>1. Leads(n, k) /\ Tables(k)
    BY <1>1, RsubCommitLeads, LeadsTwice DEF Leads
  <2>2. Leads(k, CommitTentative(k, p))
    BY <2>1, CommitTentativeLeads
  <2> QED
    BY <2>1, <2>2, LeadsTwice
<1>3. Leads(n, [zhe_rsub_precommit(done, p) EXCEPT !.store = US!zhe_uristore_abort_tentative(@, p)])
  <2> PICK k : k = zhe_rsub_precommit(done, p)
    OBVIOUS
  <2>1. Leads(n, k) /\ Tables(k) /\ Sound(k.store)
    BY <1>1, PrecommittedLeads, LeadsTwice DEF Leads, Tables
  <2> PICK t : t = US!zhe_uristore_abort_tentative(k.store, p)
    OBVIOUS
  <2>2. Sound(t) /\ (Good(k) => StillOwn(k.store, t))
    BY <2>1, SoundOps, OwnOps DEF Good
  <2>3. Leads(k, [k EXCEPT !.store = t])
    BY <2>1, <2>2, OnlyStore
  <2>4. [k EXCEPT !.store = US!zhe_uristore_abort_tentative(@, p)] = [k EXCEPT !.store = t]
    OBVIOUS
  <2> QED
    BY <2>1, <2>3, <2>4, LeadsTwice
<1>4. Leads(n, n)
  BY LeadsHere
<1>5. handle_dcommit(n, p, room)
        = IF ~room THEN Step(n, "DIM_ABORT")
          ELSE IF PrecommitResult(done, p) = "OK"
          THEN Step(CommitTentative(zhe_rsub_commit(done, p), p), "DIM_INTERPRET")
          ELSE Step([zhe_rsub_precommit(done, p)
                        EXCEPT !.store = US!zhe_uristore_abort_tentative(@, p)], "DIM_INTERPRET")
  BY DEF handle_dcommit
<1> QED
  BY <1>2, <1>3, <1>4, <1>5, StepIs

LEMMA DeclLeads ==
  ASSUME NEW n, Tables(n), NEW p \in Peers, NEW d, d.rid \in Nat, NEW tentative \in BOOLEAN, NEW room,
         d.kind = "DRESOURCE" => <<d.rid, d.uri>> \in AllResources,
         d.kind = "DRESOURCE" /\ Good(n) => US!lookup_rid(n.store, d.rid) # {}
  PROVE  Leads(n, HandleDecl(n, p, d, tentative, room).n)
<1> PICK h : h = HandleDecl(n, p, d, tentative, room)
  OBVIOUS
<1>a. h = CASE d.kind = "DRESOURCE" -> handle_dresource(n, p, d, tentative)
            [] d.kind = "DSUB" -> handle_dsub(n, p, d, tentative)
            [] d.kind = "DSELECTION" -> handle_unsupported(n)
            [] d.kind = "DCOMMIT" -> handle_dcommit(n, p, room)
            [] OTHER -> Step(n, "DIM_INTERPRET")
  BY DEF HandleDecl
<1>1. CASE d.kind = "DRESOURCE"
  <2>1. h = handle_dresource(n, p, d, tentative)
    BY <1>a, <1>1
  <2> QED
    BY <1>1, <2>1, DresourceLeads
<1>2. CASE d.kind = "DSUB"
  <2>1. h = handle_dsub(n, p, d, tentative)
    BY <1>a, <1>2
  <2> QED
    BY <2>1, DsubLeads
<1>3. CASE d.kind = "DSELECTION"
  <2>1. h = handle_unsupported(n)
    BY <1>a, <1>3
  <2>2. h.n = zhe_decl_note_error_curpkt(n, "UNSUPPORTED")
    BY <2>1, StepIs DEF handle_unsupported
  <2> QED
    BY <2>2, NoteCurpktLeads
<1>4. CASE d.kind = "DCOMMIT"
  <2>1. h = handle_dcommit(n, p, room)
    BY <1>a, <1>4
  <2> QED
    BY <2>1, DcommitLeads
<1>5. CASE d.kind \notin {"DRESOURCE", "DSUB", "DSELECTION", "DCOMMIT"}
  <2>1. h = Step(n, "DIM_INTERPRET")
    BY <1>a, <1>5
  <2>2. h.n = n
    BY <2>1, StepIs
  <2> QED
    BY <2>2, LeadsHere
<1> QED
  BY <1>1, <1>2, <1>3, <1>4, <1>5

\* one declaration of a message, unless an earlier one was aborted
Round(p, msg, room, s, k) ==
    IF s.mode = "DIM_ABORT" THEN s ELSE HandleDecl(s.n, p, msg.decls[k], ~msg.C, room)

Rounds(n, p, msg, room, g, N) ==
    /\ Map(g, 0 .. N)
    /\ g[0] = Step(n, "DIM_INTERPRET")
    /\ \A k \in 1 .. N : g[k] = Round(p, msg, room, g[k - 1], k)

LEMMA RoundsExist ==
  ASSUME NEW n, NEW p, NEW msg, NEW room, NEW N \in Nat
  PROVE  \E g : Rounds(n, p, msg, room, g, N)
<1> DEFINE S == {k \in 0 .. N : \E g : Rounds(n, p, msg, room, g, k)}
<1>1. 0 \in S
  <2>1. Rounds(n, p, msg, room, [k \in 0 .. 0 |-> Step(n, "DIM_INTERPRET")], 0)
    BY DEF Rounds, Map
  <2> QED
    BY <2>1
<1>2. ASSUME NEW l \in 1 .. N, l - 1 \in S PROVE l \in S
  <2>1. PICK g : Rounds(n, p, msg, room, g, l - 1)
    BY <1>2
  <2> DEFINE h == [k \in 0 .. l |-> IF k = l THEN Round(p, msg, room, g[l - 1], l) ELSE g[k]]
  <2>2. Map(h, 0 .. l) /\ h[0] = Step(n, "DIM_INTERPRET")
    BY <2>1 DEF Rounds, Map
  <2>3. ASSUME NEW k \in 1 .. l PROVE h[k] = Round(p, msg, room, h[k - 1], k)
    <3>1. k - 1 \in 0 .. l /\ k - 1 # l
      OBVIOUS
    <3>2. h[k - 1] = g[k - 1]
      BY <3>1
    <3>3. CASE k = l
      BY <3>2, <3>3
    <3>4. CASE k # l
      <4>1. k \in 1 .. l - 1
        BY <3>4
      <4>2. h[k] = g[k]
        BY <3>4
      <4>3. g[k] = Round(p, msg, room, g[k - 1], k)
        BY <2>1, <4>1 DEF Rounds
      <4> QED
        BY <3>2, <4>2, <4>3
    <3> QED
      BY <3>3, <3>4
  <2> HIDE DEF h
  <2>4. Rounds(n, p, msg, room, h, l)
    BY <2>2, <2>3 DEF Rounds
  <2> QED
    BY <2>4
<1>3. \A k \in 0 .. N : k \in S
  <2> HIDE DEF S
  <2>1. S \subseteq 0 .. N
    BY DEF S
  <2> QED
    BY <1>1, <1>2, <2>1, USP!NatInSet, SA, BA
<1> QED
  BY <1>3

\* the declarations of a message are interpreted in rounds
LEMMA InterpretedIs ==
  ASSUME NEW n, NEW p, NEW msg, NEW room, Len(msg.decls) \in Nat
  PROVE  \E g : Rounds(n, p, msg, room, g, Len(msg.decls))
                /\ Interpreted(n, p, msg, room) = g[Len(msg.decls)]
<1> PICK N \in Nat : N = Len(msg.decls)
  OBVIOUS
<1> DEFINE Body(f) == [k \in 0 .. Len(msg.decls) |->
                         IF k = 0 THEN Step(n, "DIM_INTERPRET")
                         ELSE IF f[k-1].mode = "DIM_ABORT" THEN f[k-1]
                         ELSE HandleDecl(f[k-1].n, p, msg.decls[k], ~msg.C, room)]
           run == CHOOSE f : f = Body(f)
<1>1. Interpreted(n, p, msg, room) = run[Len(msg.decls)]
  BY DEF Interpreted
<1>2. PICK g : Rounds(n, p, msg, room, g, N)
  BY RoundsExist
<1>3. \A k \in 0 .. N : k = 0 \/ k \in 1 .. N
  OBVIOUS
<1>4. g = Body(g)
  <2>1. \A k \in 0 .. N : g[k] = Body(g)[k]
    BY <1>2, <1>3 DEF Rounds, Round
  <2> QED
    BY <1>2, <2>1 DEF Rounds, Map
<1>5. run = Body(run)
  BY <1>4
<1> HIDE DEF run
<1>6. Rounds(n, p, msg, room, run, N)
  <2>1. 0 \in 0 .. N /\ \A k \in 1 .. N : k \in 0 .. N /\ k # 0
    OBVIOUS
  <2>2. Map(run, 0 .. N) /\ run[0] = Step(n, "DIM_INTERPRET")
    BY <1>5, <2>1 DEF Map
  <2>3. \A k \in 1 .. N : run[k] = Round(p, msg, room, run[k - 1], k)
    BY <1>5, <2>1 DEF Round
  <2> QED
    BY <2>2, <2>3 DEF Rounds
<1> QED
  BY <1>1, <1>6

\* the declarations of the messages
LEMMA DeclsAre ==
  ASSUME NEW p \in Peers, NEW msg \in Messages[p]
  PROVE  /\ msg.C \in BOOLEAN /\ Len(msg.decls) \in Nat /\ DOMAIN msg.decls = 1 .. Len(msg.decls)
         /\ \A k \in 1 .. Len(msg.decls) :
               /\ msg.decls[k].rid \in Nat
               /\ msg.decls[k].kind = "DRESOURCE" =>
                     /\ <<msg.decls[k].rid, msg.decls[k].uri>> \in AllResources
                     /\ Orderly => \E r \in Resources : r[1] = msg.decls[k].rid
<1>1. msg.C \in BOOLEAN /\ msg.decls \in Seq(ToSet(msg.decls))
      /\ \A d \in ToSet(msg.decls) : d.rid \in Nat
  BY PubSubAssumption
<1>2. Len(msg.decls) \in Nat /\ DOMAIN msg.decls = 1 .. Len(msg.decls)
  BY <1>1
<1>3. ASSUME NEW k \in 1 .. Len(msg.decls)
      PROVE  /\ msg.decls[k].rid \in Nat
             /\ msg.decls[k].kind = "DRESOURCE" =>
                   /\ <<msg.decls[k].rid, msg.decls[k].uri>> \in AllResources
                   /\ Orderly => \E r \in Resources : r[1] = msg.decls[k].rid
  <2> PICK d : d = msg.decls[k]
    OBVIOUS
  <2>1. d \in ToSet(msg.decls)
    BY <1>1, <1>2
  <2>2. d.kind = "DRESOURCE" => d \in PeersDeclare
    BY <2>1 DEF PeersDeclare
  <2> QED
    BY <1>1, <2>1, <2>2 DEF AllResources, Orderly
<1> QED
  BY <1>1, <1>2, <1>3

\* What a message that its peer may send does to the tables before it is
\* completed or aborted.
LEMMA InterpretedLeads ==
  ASSUME Tables(node), NEW p \in Peers, NEW msg \in Messages[p], NEW room,
         \A i \in DOMAIN msg.decls : MayUse(msg.decls[i].rid)
  PROVE  Leads(node, Interpreted(node, p, msg, room).n)
<1> PICK N \in Nat : N = Len(msg.decls)
  BY DeclsAre
<1>1. PICK g : Rounds(node, p, msg, room, g, N) /\ Interpreted(node, p, msg, room) = g[N]
  BY InterpretedIs
<1> DEFINE S == {k \in 0 .. N : Leads(node, g[k].n)}
<1>2. 0 \in S
  BY <1>1, LeadsHere, StepIs DEF Rounds
<1>3. ASSUME NEW k \in 1 .. N, k - 1 \in S PROVE k \in S
  <2>a. PICK n : n = g[k - 1].n
    OBVIOUS
  <2>1. Leads(node, n) /\ Tables(n)
    BY <1>3, <2>a DEF Leads
  <2>2. g[k] = Round(p, msg, room, g[k - 1], k)
    BY <1>1 DEF Rounds
  <2>b. PICK d : d = msg.decls[k]
    OBVIOUS
  <2>3. /\ d.rid \in Nat
        /\ d.kind = "DRESOURCE" =>
              /\ <<d.rid, d.uri>> \in AllResources
              /\ Orderly => \E r \in Resources : r[1] = d.rid
    BY <2>b, DeclsAre
  <2>4. ASSUME d.kind = "DRESOURCE", Good(n) PROVE US!lookup_rid(n.store, d.rid) # {}
    <3>1. Orderly
      BY <2>4 DEF Good
    <3>2. geturi_for_rid(node.store, d.rid) # {}
      <4>1. k \in DOMAIN msg.decls
        BY DeclsAre
      <4>2. MayUse(d.rid)
        BY <4>1, <2>b
      <4> QED
        BY <4>2, <2>3, <2>4, <3>1 DEF MayUse, Orderly
    <3>3. US!lookup_rid(node.store, d.rid) # {}
      BY <3>2 DEF geturi_for_rid, CommittedEntry
    <3> QED
      BY <2>4, <3>3, NamesStay DEF Good
  <2>5. Leads(n, HandleDecl(n, p, d, ~msg.C, room).n)
    <3>1. (~msg.C) \in BOOLEAN
      BY DeclsAre
    <3> QED
      BY <2>1, <2>3, <2>4, <3>1, DeclLeads
  <2>6. g[k].n \in {n, HandleDecl(n, p, d, ~msg.C, room).n}
    BY <2>2, <2>a, <2>b DEF Round
  <2>7. Leads(node, HandleDecl(n, p, d, ~msg.C, room).n)
    BY <2>1, <2>5, LeadsTwice
  <2> QED
    BY <2>1, <2>6, <2>7
<1>4. N \in S
  <2> HIDE DEF S
  <2>1. S \subseteq 0 .. N
    BY DEF S
  <2>2. N \in 0 .. N
    OBVIOUS
  <2> QED
    BY <1>2, <1>3, <2>1, <2>2, USP!NatInSet, SA, BA
<1> QED
  BY <1>1, <1>4

-----------------------------------------------------------------------------
(* Messages. *)

LEMMA NothingLeft ==
  ASSUME NEW n, Tables(n), NEW p \in Peers
  PROVE  /\ zhe_rsub_precommit_curpkt_abort(n).curpkt = NoDecls
         /\ zhe_rsub_precommit_curpkt_done(n, p).curpkt = NoDecls
         /\ Closed(n, p).curpkt = NoDecls
<1>1. ASSUME NEW k, Tables(k) PROVE zhe_rsub_precommit_curpkt_abort(k).curpkt = NoDecls
  BY <1>1 DEF zhe_rsub_precommit_curpkt_abort, Tables
<1>2. zhe_rsub_precommit_curpkt_done(n, p).curpkt = NoDecls
  <2> DEFINE rsubs == n.precommit[p].rsubs
             fit == FirstFit(rsubs, n.curpkt.rsubs)
  <2>a. PICK all : all = [n EXCEPT !.precommit[p].rsubs = rsubs \cup fit]
    OBVIOUS
  <2>b. PICK noted : noted = IF n.curpkt.rsubs \subseteq rsubs \cup fit THEN all
                             ELSE zhe_decl_note_error_curpkt(all, "NOSPACE")
    OBVIOUS
  <2>c. PICK last : last = IF noted.curpkt.result = "OK" THEN noted
                           ELSE zhe_decl_note_error_somepeer(noted, p, noted.curpkt.result)
    OBVIOUS
  <2>1. "curpkt" \in DOMAIN n
    BY DEF Tables
  <2>2. DOMAIN all = DOMAIN n
    BY <2>a
  <2>3. DOMAIN noted = DOMAIN n
    BY <2>b, <2>2 DEF zhe_decl_note_error_curpkt
  <2>4. DOMAIN last = DOMAIN n
    BY <2>c, <2>3 DEF zhe_decl_note_error_somepeer
  <2>5. zhe_rsub_precommit_curpkt_done(n, p) = zhe_rsub_precommit_curpkt_abort(last)
    BY <2>a, <2>b, <2>c DEF zhe_rsub_precommit_curpkt_done
  <2> QED
    BY <2>1, <2>4, <2>5 DEF zhe_rsub_precommit_curpkt_abort
<1>3. Closed(n, p).curpkt = NoDecls
  <2>a. PICK k : k = CountDown(n, n.rsubs[p])
    OBVIOUS
  <2>b. PICK l : l = [k EXCEPT !.rsubs[p] = {}, !.precommit[p] = NoDecls, !.curpkt = NoDecls]
    OBVIOUS
  <2>1. "curpkt" \in DOMAIN n
    BY DEF Tables
  <2>2. DOMAIN k = DOMAIN n
    BY <2>a DEF CountDown
  <2>3. l.curpkt = NoDecls
    BY <2>1, <2>2, <2>b
  <2>4. Closed(n, p) = [l EXCEPT !.store = US!zhe_uristore_reset_peer(@, p)]
    BY <2>a, <2>b DEF Closed, zhe_reset_peer_rsubs
  <2> QED
    BY <2>3, <2>4
<1> QED
  BY <1>1, <1>2, <1>3

\* m is what the step leaves of the tables
Left(m) == node' = m /\ Leads(node, m) /\ m.curpkt = NoDecls /\ pubs' = pubs /\ subs' = subs

LEMMA MdeclareLeads ==
  ASSUME Tables(node), NEW p \in Peers, NEW msg \in Messages[p], NEW room, handle_mdeclare(p, msg, room)
  PROVE  \E m : Left(m)
<1>a. PICK s : s = Interpreted(node, p, msg, room)
  OBVIOUS
<1>b. PICK done : done = zhe_rsub_precommit_curpkt_done(s.n, p)
  OBVIOUS
<1>c. PICK m : m = node'
  OBVIOUS
<1>1. /\ \A i \in DOMAIN msg.decls : MayUse(msg.decls[i].rid)
      /\ m = IF s.mode = "DIM_ABORT"
             THEN zhe_rsub_precommit_curpkt_abort(
                      [s.n EXCEPT !.store = US!zhe_uristore_abort_tentative(@, p)])
             ELSE IF msg.C /\ done.precommit[p].result # "OK" THEN Closed(done, p)
             ELSE done
      /\ pubs' = pubs /\ subs' = subs
  BY <1>a, <1>b, <1>c DEF handle_mdeclare
<1>2. Leads(node, s.n) /\ Tables(s.n) /\ Sound(s.n.store)
  BY <1>1, <1>a, InterpretedLeads DEF Leads, Tables
<1>3. Leads(node, m) /\ m.curpkt = NoDecls
  <2>1. CASE s.mode = "DIM_ABORT"
    <3> PICK t : t = US!zhe_uristore_abort_tentative(s.n.store, p)
      OBVIOUS
    <3>a. PICK k : k = [s.n EXCEPT !.store = t]
      OBVIOUS
    <3>1. Sound(t) /\ (Good(s.n) => StillOwn(s.n.store, t))
      BY <1>2, SoundOps, OwnOps DEF Good
    <3>2. Leads(s.n, k) /\ Tables(k)
      BY <1>2, <3>1, <3>a, OnlyStore DEF Leads
    <3>3. m = zhe_rsub_precommit_curpkt_abort(k)
      BY <1>1, <2>1, <3>a
    <3> QED
      BY <1>2, <3>2, <3>3, AbortLeads, LeadsTwice, NothingLeft
  <2>2. Leads(node, done) /\ Tables(done) /\ done.curpkt = NoDecls
    BY <1>2, <1>b, DoneLeads, LeadsTwice, NothingLeft DEF Leads
  <2>3. CASE s.mode # "DIM_ABORT" /\ m = Closed(done, p)
    BY <2>2, <2>3, ClosedLeads, LeadsTwice, NothingLeft
  <2>4. CASE s.mode # "DIM_ABORT" /\ m = done
    BY <2>2, <2>4
  <2> QED
    BY <1>1, <2>1, <2>3, <2>4
<1>4. Left(m)
  BY <1>1, <1>3, <1>c DEF Left
<1> QED
  BY <1>4

LEMMA ResetPeerLeads ==
  ASSUME Tables(node), NEW p \in Peers, reset_peer(p)
  PROVE  \E m : Left(m)
<1>c. PICK m : m = node'
  OBVIOUS
<1>1. m = Closed(node, p) /\ pubs' = pubs /\ subs' = subs
  BY <1>c DEF reset_peer
<1>2. Left(m)
  BY <1>1, <1>c, ClosedLeads, NothingLeft DEF Left
<1> QED
  BY <1>2

-----------------------------------------------------------------------------
(* What the application calls. *)

\* m is n with other lists
Relisted(n, m) ==
    /\ m = [store |-> n.store, residx2sub |-> m.residx2sub, count |-> n.count,
            rsubs |-> n.rsubs, precommit |-> n.precommit, curpkt |-> n.curpkt]
    /\ Map(m.residx2sub, Indexes)

LEMMA RelistedTables == ASSUME NEW n, Tables(n), NEW m, Relisted(n, m) PROVE Tables(m)
<1> PICK l : l = m.residx2sub
  OBVIOUS
<1>1. m = [store |-> n.store, residx2sub |-> l, count |-> n.count,
            rsubs |-> n.rsubs, precommit |-> n.precommit, curpkt |-> n.curpkt]
      /\ Map(l, Indexes)
  BY DEF Relisted
<1> QED
  BY <1>1 DEF Tables

LEMMA UpdatedRelisted ==
  ASSUME NEW n, Tables(n), NEW rid
  PROVE  Relisted(n, zhe_update_subs_for_resource_decl(n, rid))
<1> PICK m : m = zhe_update_subs_for_resource_decl(n, rid)
  OBVIOUS
<1> DEFINE idx == CHOOSE i \in US!lookup_rid(n.store, rid) : TRUE
<1>1. \E l : m = [n EXCEPT !.residx2sub[idx] = l]
  BY DEF zhe_update_subs_for_resource_decl
<1>2. PICK l : m = [n EXCEPT !.residx2sub[idx] = l]
  BY <1>1
<1> HIDE DEF idx
<1>a. PICK lists : lists = [n.residx2sub EXCEPT ![idx] = l]
  OBVIOUS
<1>3. Map(lists, Indexes)
  BY <1>a DEF Tables, Map
<1>4. m = [store |-> n.store, residx2sub |-> lists, count |-> n.count,
           rsubs |-> n.rsubs, precommit |-> n.precommit, curpkt |-> n.curpkt]
  BY <1>2, <1>a DEF Tables
<1>5. lists = m.residx2sub
  BY <1>4
<1> QED
  BY <1>3, <1>4, <1>5 DEF Relisted

LEMMA SubUpdatedRelisted ==
  ASSUME NEW n, Tables(n), NEW rid, NEW k
  PROVE  Relisted(n, zhe_update_subs_for_sub_decl(n, rid, k))
<1> PICK m : m = zhe_update_subs_for_sub_decl(n, rid, k)
  OBVIOUS
<1> DEFINE C(i) == /\ i \in ToSet(n.store.used) /\ n.store.ress[i].committed
                   /\ UrisMatch(geturi_for_rid(n.store, rid), {US!UriOf(n.store, i)})
<1>a. PICK lists : lists = [i \in DOMAIN n.residx2sub |->
                              IF C(i) THEN Append(n.residx2sub[i], k) ELSE n.residx2sub[i]]
  OBVIOUS
<1>1. m = [n EXCEPT !.residx2sub = lists]
  BY <1>a DEF zhe_update_subs_for_sub_decl
<1>2. Map(lists, Indexes)
  <2>1. DOMAIN n.residx2sub = Indexes
    BY DEF Tables, Map
  <2> HIDE DEF C
  <2> QED
    BY <1>a, <2>1 DEF Map
<1>3. m = [store |-> n.store, residx2sub |-> lists, count |-> n.count,
           rsubs |-> n.rsubs, precommit |-> n.precommit, curpkt |-> n.curpkt]
  BY <1>1 DEF Tables
<1>4. lists = m.residx2sub
  BY <1>3
<1> QED
  BY <1>2, <1>3, <1>4 DEF Relisted

\* The resource is stored, and if it is a new one the lists follow.
LEMMA DeclareIs ==
  ASSUME Tables(node), NEW r \in Resources, zhe_declare_resource(r[1], r[2])
  PROVE  \E t, m : /\ t = US!zhe_uristore_store(node.store, SELF, r[1], r[2], FALSE)
                   /\ m = [node EXCEPT !.store = t.s]
                   /\ Sound(t.s) /\ Tables(m)
                   /\ <<r[1], r[2]>> \in AllResources
                   /\ node' = IF t.res = "USR_OK" THEN zhe_update_subs_for_resource_decl(m, r[1]) ELSE m
                   /\ pubs' = pubs /\ subs' = subs
<1>a. PICK t : t = US!zhe_uristore_store(node.store, SELF, r[1], r[2], FALSE)
  OBVIOUS
<1>b. PICK m : m = [node EXCEPT !.store = t.s]
  OBVIOUS
<1>1. r \in AllResources /\ r = <<r[1], r[2]>>
  BY PubSubAssumption DEF AllResources
<1>2. Sound(node.store)
  BY DEF Tables
<1>3. Sound(t.s)
  BY <1>1, <1>2, <1>a, SoundStore
<1>4. m = [store |-> t.s, residx2sub |-> node.residx2sub, count |-> node.count,
           rsubs |-> node.rsubs, precommit |-> node.precommit, curpkt |-> node.curpkt]
  BY <1>b DEF Tables
<1>5. Tables(m)
  BY <1>3, <1>4 DEF Tables
<1>6. /\ node' = IF t.res = "USR_OK" THEN zhe_update_subs_for_resource_decl(m, r[1]) ELSE m
      /\ pubs' = pubs /\ subs' = subs
  BY <1>a, <1>b DEF zhe_declare_resource
<1> QED
  BY <1>1, <1>3, <1>5, <1>6, <1>a, <1>b

LEMMA SubscribersFinite ==
  ASSUME NEW n, Tables(n), NEW rid
  PROVE  Subscribers(n, rid) \in Nat
<1> DEFINE All == Peers \X (0 .. MAX_RID - 1)
<1>1. IsFiniteSet(Peers) /\ MAX_RID \in Nat
  BY PubSubAssumption
<1>2. IsFiniteSet(0 .. MAX_RID - 1)
  <2>1. 0 \in Int /\ MAX_RID - 1 \in Int
    BY <1>1
  <2> QED
    BY <2>1, FS_Interval
<1>3. IsFiniteSet(All)
  BY <1>1, <1>2, FS_Product
<1> PICK S : S = UNION {{p} \X Matching(n.store, rid, n.rsubs[p]) : p \in Peers}
  OBVIOUS
<1>4. ASSUME NEW x \in S PROVE x \in All
  <2>1. PICK p \in Peers : x \in {p} \X Matching(n.store, rid, n.rsubs[p])
    BY <1>4
  <2>2. PICK r \in Matching(n.store, rid, n.rsubs[p]) : x = <<p, r>>
    BY <2>1
  <2>3. r \in n.rsubs[p] /\ Fit(n.rsubs[p])
    BY DEF Matching, Tables
  <2>4. r \in 0 .. MAX_RID - 1
    BY <2>3 DEF Fit
  <2> QED
    BY <2>2, <2>4
<1>5. IsFiniteSet(S)
  <2> HIDE DEF All
  <2> QED
    BY <1>3, <1>4, FS_Subset
<1> QED
  BY <1>5, CardinalityNat DEF Subscribers

\* the publication gets its count
LEMMA PublishIs ==
  ASSUME Tables(node), NEW rid \in OwnRids, zhe_publish(rid)
  PROVE  \E m : /\ node' = m /\ Tables(m) /\ m.curpkt = node.curpkt /\ m.store = node.store
                /\ m.residx2sub = node.residx2sub /\ m.rsubs = node.rsubs
                /\ Len(pubs) + 1 \in Pubs =>
                      m.count[Len(pubs) + 1] = Subscribers(node, rid) % CountSpace
                /\ \A i \in Pubs : i # Len(pubs) + 1 => m.count[i] = node.count[i]
<1> PICK k : k = Len(pubs) + 1
  OBVIOUS
<1> PICK x : x = Subscribers(node, rid) % CountSpace
  OBVIOUS
<1>a. PICK m : m = [node EXCEPT !.count[k] = x]
  OBVIOUS
<1>b. PICK c : c = [node.count EXCEPT ![k] = x]
  OBVIOUS
<1>1. node' = m
  BY <1>a DEF zhe_publish
<1>2. m = [store |-> node.store, residx2sub |-> node.residx2sub, count |-> c,
           rsubs |-> node.rsubs, precommit |-> node.precommit, curpkt |-> node.curpkt]
  BY <1>a, <1>b DEF Tables
<1>c. x \in 0 .. CountSpace - 1
  <2> PICK y : y = Subscribers(node, rid)
    OBVIOUS
  <2>1. y \in Nat
    BY SubscribersFinite
  <2> QED
    BY <2>1, Wrapped
<1>3. Counts(c) /\ (k \in Pubs => c[k] = x) /\ \A i \in Pubs : i # k => c[i] = node.count[i]
  <2>1. Map(c, Pubs) /\ (k \in Pubs => c[k] = x) /\ \A i \in Pubs : i # k => c[i] = node.count[i]
    BY <1>b DEF Tables, Counts, Map
  <2>2. \A i \in Pubs : node.count[i] \in 0 .. CountSpace - 1
    BY DEF Tables, Counts
  <2>3. \A i \in Pubs : c[i] \in 0 .. CountSpace - 1
    BY <1>c, <2>1, <2>2
  <2> QED
    BY <2>1, <2>3 DEF Counts
<1>4. Tables(m)
  BY <1>2, <1>3 DEF Tables
<1> QED
  BY <1>1, <1>2, <1>3, <1>4

-----------------------------------------------------------------------------
(* The tables are well formed in every state. *)

TablesOK == Tables(node) /\ node.curpkt = NoDecls

LEMMA InitTables == Init => TablesOK
<1> SUFFICES ASSUME Init PROVE TablesOK
  OBVIOUS
<1>a. PICK a, b, c, d : /\ a = [i \in Indexes |-> <<>>] /\ b = [i \in Pubs |-> 0]
                        /\ c = [p \in Peers |-> {}] /\ d = [p \in Peers |-> NoDecls]
  OBVIOUS
<1>1. node = [store |-> US!zhe_uristore_init, residx2sub |-> a, count |-> b,
              rsubs |-> c, precommit |-> d, curpkt |-> NoDecls]
  BY <1>a DEF Init, Indexes
<1>2. /\ node.store = US!zhe_uristore_init /\ node.residx2sub = a /\ node.count = b
      /\ node.rsubs = c /\ node.precommit = d /\ node.curpkt = NoDecls
  BY <1>1
<1>3. Map(a, Indexes) /\ Counts(b) /\ Map(c, Peers) /\ Map(d, Peers)
  <2>1. Map(a, Indexes) /\ Map(b, Pubs) /\ Map(c, Peers) /\ Map(d, Peers)
    BY <1>a DEF Map
  <2>3. 0 \in 0 .. CountSpace - 1
    BY CountSpaceIs
  <2>4. \A i \in Pubs : b[i] = 0
    BY <1>a
  <2> QED
    BY <2>1, <2>3, <2>4 DEF Counts
<1>4. \A p \in Peers : c[p] = {} /\ d[p] = NoDecls
  BY <1>a
<1>5. Sound(node.store)
  BY OwnInit, OwnIsSound
<1>6. Tables(node)
  BY <1>1, <1>2, <1>3, <1>4, <1>5, EmptyFits, EmptyTransaction DEF Tables
<1> QED
  BY <1>2, <1>6 DEF TablesOK

LEMMA NextTables == TablesOK /\ [Next]_vars => TablesOK'
<1> SUFFICES ASSUME TablesOK, [Next]_vars PROVE TablesOK'
  OBVIOUS
<1>0. Tables(node) /\ node.curpkt = NoDecls
  BY DEF TablesOK
<1>1. ASSUME NEW m, node' = m, Tables(m), m.curpkt = NoDecls PROVE TablesOK'
  BY <1>1 DEF TablesOK
<1>2. ASSUME NEW m, Left(m) PROVE TablesOK'
  BY <1>1, <1>2 DEF Left, Leads
<1>3. ASSUME NEW p \in Peers, NEW msg \in Messages[p], NEW room, handle_mdeclare(p, msg, room)
      PROVE  TablesOK'
  BY <1>0, <1>2, <1>3, MdeclareLeads
<1>4. ASSUME NEW p \in Peers, reset_peer(p) PROVE TablesOK'
  BY <1>0, <1>2, <1>4, ResetPeerLeads
<1>5. ASSUME NEW r \in Resources, zhe_declare_resource(r[1], r[2]) PROVE TablesOK'
  <2>1. PICK t, m : /\ m = [node EXCEPT !.store = t.s] /\ Tables(m)
                    /\ node' = IF t.res = "USR_OK" THEN zhe_update_subs_for_resource_decl(m, r[1]) ELSE m
    BY <1>0, <1>5, DeclareIs
  <2>2. m.curpkt = NoDecls
    BY <1>0, <2>1
  <2>a. PICK u : u = zhe_update_subs_for_resource_decl(m, r[1])
    OBVIOUS
  <2>3. Relisted(m, u)
    BY <2>1, <2>a, UpdatedRelisted
  <2>4. Tables(u) /\ u.curpkt = NoDecls
    <3>1. Tables(u)
      BY <2>1, <2>3, RelistedTables
    <3>2. u.curpkt = m.curpkt
      BY <2>3 DEF Relisted
    <3> QED
      BY <2>2, <3>1, <3>2
  <2> QED
    BY <1>1, <2>1, <2>2, <2>4, <2>a
<1>6. ASSUME NEW rid \in OwnRids, zhe_publish(rid) PROVE TablesOK'
  BY <1>0, <1>1, <1>6, PublishIs
<1>7. ASSUME NEW rid \in OwnRids, zhe_subscribe(rid) PROVE TablesOK'
  <2>a. PICK u : u = zhe_update_subs_for_sub_decl(node, rid, Len(subs) + 1)
    OBVIOUS
  <2>1. node' = u
    BY <1>7, <2>a DEF zhe_subscribe
  <2>2. Relisted(node, u)
    BY <1>0, <2>a, SubUpdatedRelisted
  <2>3. Tables(u) /\ u.curpkt = NoDecls
    BY <1>0, <2>2, RelistedTables DEF Relisted
  <2> QED
    BY <1>1, <2>1, <2>3
<1>8. CASE UNCHANGED vars
  BY <1>8 DEF TablesOK, Tables, vars
<1> QED
  BY <1>3, <1>4, <1>5, <1>6, <1>7, <1>8 DEF Next

-----------------------------------------------------------------------------
(* Types. *)

\* a subscription comes after the one it refers to, or refers to itself
SubsTyped ==
    /\ subs \in Seq([rid : OwnRids, next : Nat]) /\ Len(subs) <= MAX_SUBSCRIPTIONS
    /\ \A k \in 1 .. Len(subs) : subs[k].next \in 1 .. k

TypesOK == TablesOK /\ PubsFit /\ SubsTyped

LEMMA SubscribeTypes ==
  ASSUME SubsTyped, NEW rid \in OwnRids, zhe_subscribe(rid) PROVE SubsTyped'
<1> PICK k : k = Len(subs) + 1
  OBVIOUS
<1> PICK S : S = rid2sub(rid) \cup {k}
  OBVIOUS
<1>a. PICK e : e = [rid |-> rid, next |-> Min(S)]
  OBVIOUS
<1>1. /\ Len(subs) \in Nat /\ DOMAIN subs = 1 .. Len(subs)
      /\ subs \in Seq([rid : OwnRids, next : Nat])
  BY DEF SubsTyped
<1>2. subs' = Append(subs, e) /\ k <= MAX_SUBSCRIPTIONS
  BY <1>a DEF zhe_subscribe
<1>3. S \subseteq 1 .. k /\ k \in S
  BY <1>1 DEF rid2sub
<1>4. Min(S) \in 1 .. k
  <2>1. S \subseteq Nat /\ S # {}
    BY <1>1, <1>3
  <2>2. \E i \in S : \A j \in S : i <= j
    BY <2>1, USP!NatHasMin, SA, BA
  <2>3. Min(S) \in S
    BY <2>2 DEF Min
  <2> QED
    BY <1>3, <2>3
<1>5. e \in [rid : OwnRids, next : Nat] /\ e.next \in 1 .. k
  BY <1>1, <1>4, <1>a
<1>6. subs' \in Seq([rid : OwnRids, next : Nat]) /\ Len(subs') = k
  BY <1>1, <1>2, <1>5
<1>7. ASSUME NEW i \in 1 .. Len(subs') PROVE subs'[i].next \in 1 .. i
  <2>1. CASE i = k
    <3>1. subs'[i] = e
      BY <1>1, <1>2, <2>1
    <3> QED
      BY <1>5, <2>1, <3>1
  <2>2. CASE i # k
    <3>1. i \in 1 .. Len(subs)
      BY <1>1, <1>6, <2>2
    <3>2. subs'[i] = subs[i]
      BY <1>1, <1>2, <3>1
    <3> QED
      BY <3>1, <3>2 DEF SubsTyped
  <2> QED
    BY <2>1, <2>2
<1> QED
  BY <1>2, <1>6, <1>7 DEF SubsTyped

LEMMA PublishTypes ==
  ASSUME PubsFit, NEW rid \in OwnRids, zhe_publish(rid) PROVE PubsFit'
<1>1. pubs \in Seq(OwnRids) /\ Len(pubs) < MAX_PUBLICATIONS /\ pubs' = Append(pubs, rid)
  BY DEF PubsFit, zhe_publish
<1>2. MAX_PUBLICATIONS \in Nat
  BY PubSubAssumption
<1>3. Len(pubs) \in Nat /\ pubs' \in Seq(OwnRids) /\ Len(pubs') = Len(pubs) + 1
  BY <1>1
<1> QED
  BY <1>1, <1>2, <1>3 DEF PubsFit

LEMMA NextTypes == TypesOK /\ [Next]_vars => TypesOK'
<1> SUFFICES ASSUME TypesOK, [Next]_vars PROVE TypesOK'
  OBVIOUS
<1>0. TablesOK' /\ Tables(node) /\ PubsFit /\ SubsTyped
  BY NextTables DEF TypesOK, TablesOK
<1>1. ASSUME pubs' = pubs, subs' = subs PROVE TypesOK'
  BY <1>0, <1>1 DEF TypesOK, PubsFit, SubsTyped
<1>2. ASSUME NEW p \in Peers, NEW msg \in Messages[p], NEW room, handle_mdeclare(p, msg, room)
      PROVE  TypesOK'
  BY <1>1, <1>2 DEF handle_mdeclare
<1>3. ASSUME NEW p \in Peers, reset_peer(p) PROVE TypesOK'
  BY <1>1, <1>3 DEF reset_peer
<1>4. ASSUME NEW r \in Resources, zhe_declare_resource(r[1], r[2]) PROVE TypesOK'
  BY <1>1, <1>4 DEF zhe_declare_resource
<1>5. ASSUME NEW rid \in OwnRids, zhe_publish(rid) PROVE TypesOK'
  <2>1. PubsFit' /\ subs' = subs
    BY <1>0, <1>5, PublishTypes DEF zhe_publish
  <2> QED
    BY <1>0, <2>1 DEF TypesOK, SubsTyped
<1>6. ASSUME NEW rid \in OwnRids, zhe_subscribe(rid) PROVE TypesOK'
  <2>1. SubsTyped' /\ pubs' = pubs
    BY <1>0, <1>6, SubscribeTypes DEF zhe_subscribe
  <2> QED
    BY <1>0, <2>1 DEF TypesOK, PubsFit
<1>7. CASE UNCHANGED vars
  BY <1>1, <1>7 DEF vars
<1> QED
  BY <1>2, <1>3, <1>4, <1>5, <1>6, <1>7 DEF Next

\* The tables stay within the limits of the configuration, a subscription refers
\* to itself or to an earlier one, counts keep to their width, and a packet of
\* declarations leaves nothing behind in precommit_curpkt: whatever the messages.
THEOREM TablesFit == Spec => []TypeOK
<1>1. Init => TypesOK
  <2> SUFFICES ASSUME Init PROVE TypesOK
    OBVIOUS
  <2>1. pubs = <<>> /\ subs = <<>> /\ MAX_PUBLICATIONS \in Nat /\ MAX_SUBSCRIPTIONS \in Nat
    BY PubSubAssumption DEF Init
  <2>2. PubsFit /\ SubsTyped
    BY <2>1 DEF PubsFit, SubsTyped
  <2> QED
    BY <2>2, InitTables DEF TypesOK
<1>2. TypesOK /\ [Next]_vars => TypesOK'
  BY NextTypes
<1>3. ASSUME TypesOK PROVE TypeOK
  <2>0. Tables(node) /\ node.curpkt = NoDecls /\ PubsFit /\ SubsTyped
    BY <1>3 DEF TypesOK, TablesOK
  <2>1. pubs \in BoundedSeq(OwnRids, MAX_PUBLICATIONS)
    <3>1. /\ Len(pubs) \in Nat /\ Len(pubs) <= MAX_PUBLICATIONS /\ MAX_PUBLICATIONS \in Nat
          /\ pubs \in [1 .. Len(pubs) -> OwnRids]
      BY <2>0, PubSubAssumption DEF PubsFit
    <3>2. Len(pubs) \in 0 .. MAX_PUBLICATIONS
      BY <3>1
    <3> QED
      BY <3>1, <3>2 DEF BoundedSeq, SeqOf
  <2>2. \A k \in DOMAIN subs : subs[k].rid \in OwnRids /\ subs[k].next \in 1 .. k
    <3>1. subs \in Seq([rid : OwnRids, next : Nat]) /\ \A k \in 1 .. Len(subs) : subs[k].next \in 1 .. k
      BY <2>0 DEF SubsTyped
    <3>2. DOMAIN subs = 1 .. Len(subs)
      BY <3>1
    <3>3. ASSUME NEW k \in 1 .. Len(subs) PROVE subs[k].rid \in OwnRids
      <4> PICK T : T = [rid : OwnRids, next : Nat]
        OBVIOUS
      <4>1. subs \in Seq(T)
        BY <3>1
      <4> PICK x : x = subs[k]
        OBVIOUS
      <4>2. x \in T
        BY <4>1, ElementOfSeq
      <4>3. x \in [rid : OwnRids, next : Nat]
        BY <4>2
      <4>4. x.rid \in OwnRids
        BY <4>3
      <4> QED
        BY <4>4
    <3> QED
      BY <3>1, <3>2, <3>3
  <2>3. node.count \in [Pubs -> 0 .. CountSpace - 1]
    <3> PICK c : c = node.count
      OBVIOUS
    <3>1. c = [i \in Pubs |-> c[i]] /\ \A i \in Pubs : c[i] \in 0 .. CountSpace - 1
      BY <2>0 DEF Tables, Counts, Map
    <3> QED
      BY <3>1
  <2>4. ASSUME NEW p \in Peers
        PROVE  /\ node.rsubs[p] \subseteq 0 .. MAX_RID - 1
               /\ Cardinality(node.rsubs[p]) <= MAX_SUBSCRIPTIONS_PER_PEER
               /\ Cardinality(node.precommit[p].rsubs) <= MAX_SUBSCRIPTIONS_PER_PEER
    <3>1. Fit(node.rsubs[p]) /\ Transaction(node.precommit[p])
      BY <2>0 DEF Tables
    <3> QED
      BY <3>1 DEF Fit, Transaction
  <2> QED
    BY <2>0, <2>1, <2>2, <2>3, <2>4 DEF TypeOK, SubsTyped
<1> QED
  BY <1>1, <1>2, <1>3, PTL DEF Spec

-----------------------------------------------------------------------------
(* A message that is a commit, and nothing else. *)

\* nothing of a packet, nothing done
LEMMA DoneNothing ==
  ASSUME NEW n, Tables(n), n.curpkt = NoDecls, NEW p \in Peers
  PROVE  zhe_rsub_precommit_curpkt_done(n, p) = n
<1> DEFINE rsubs == n.precommit[p].rsubs
           fit == FirstFit(rsubs, n.curpkt.rsubs)
<1>1. n.curpkt.rsubs = {} /\ n.curpkt.result = "OK"
  BY DEF NoDecls
<1>2. fit = {}
  BY <1>1 DEF FirstFit
<1>a. PICK all : all = [n EXCEPT !.precommit[p].rsubs = rsubs \cup fit]
  OBVIOUS
<1>3. all = n
  <2>1. n.precommit[p] = [rsubs |-> n.precommit[p].rsubs, result |-> n.precommit[p].result]
        /\ Map(n.precommit, Peers)
    BY DEF Tables, Transaction
  <2>2. [n.precommit[p] EXCEPT !.rsubs = rsubs \cup fit] = n.precommit[p]
    <3> PICK old : old = n.precommit[p]
      OBVIOUS
    <3>1. [old EXCEPT !.rsubs = old.rsubs] = old
      BY <2>1
    <3>2. rsubs \cup fit = old.rsubs
      BY <1>2
    <3> QED
      BY <3>1, <3>2
  <2>3. [n.precommit EXCEPT ![p] = n.precommit[p]] = n.precommit
    BY <2>1 DEF Map
  <2>a. PICK pre : pre = [n.precommit EXCEPT ![p] = [n.precommit[p] EXCEPT !.rsubs = rsubs \cup fit]]
    OBVIOUS
  <2>4. pre = n.precommit
    BY <2>2, <2>3, <2>a
  <2>5. all = [n EXCEPT !.precommit = pre]
    BY <1>a, <2>a
  <2>6. [n EXCEPT !.precommit = n.precommit] = n
    BY DEF Tables
  <2> QED
    BY <2>4, <2>5, <2>6
<1>4. zhe_rsub_precommit_curpkt_done(n, p) = zhe_rsub_precommit_curpkt_abort(n)
  BY <1>1, <1>2, <1>3, <1>a DEF zhe_rsub_precommit_curpkt_done
<1>5. [n EXCEPT !.curpkt = n.curpkt] = n
  BY DEF Tables
<1> QED
  BY <1>4, <1>5 DEF zhe_rsub_precommit_curpkt_abort

LEMMA CommitAlone ==
  ASSUME NEW p \in Peers, NEW msg \in Messages[p], Len(msg.decls) = 1, msg.decls[1].kind = "DCOMMIT",
         NEW n
  PROVE  Interpreted(n, p, msg, TRUE) = handle_dcommit(n, p, TRUE)
<1>0. PICK g : /\ Rounds(n, p, msg, TRUE, g, Len(msg.decls))
               /\ Interpreted(n, p, msg, TRUE) = g[Len(msg.decls)]
  <2>1. Len(msg.decls) \in Nat
    BY DeclsAre
  <2> QED
    BY <2>1, InterpretedIs
<1>1. Rounds(n, p, msg, TRUE, g, 1) /\ Interpreted(n, p, msg, TRUE) = g[1]
  BY <1>0
<1>2. g[0] = Step(n, "DIM_INTERPRET") /\ g[1] = Round(p, msg, TRUE, g[0], 1)
  <2>1. 1 \in 1 .. 1 /\ 1 - 1 = 0
    OBVIOUS
  <2> QED
    BY <1>1, <2>1 DEF Rounds
<1>3. g[0].n = n /\ g[0].mode # "DIM_ABORT"
  BY <1>2 DEF Step
<1>4. g[1] = HandleDecl(n, p, msg.decls[1], ~msg.C, TRUE)
  BY <1>2, <1>3 DEF Round
<1>5. HandleDecl(n, p, msg.decls[1], ~msg.C, TRUE) = handle_dcommit(n, p, TRUE)
  BY DEF HandleDecl
<1> QED
  BY <1>1, <1>4, <1>5

\* what the commit does to the tables of its peer
LEMMA CommitOutcome ==
  ASSUME Tables(node), node.curpkt = NoDecls, NEW p \in Peers, NEW h, h = handle_dcommit(node, p, TRUE)
  PROVE  /\ Tables(h.n) /\ h.mode = "DIM_INTERPRET" /\ h.n.curpkt = NoDecls
         /\ h.n.precommit[p].result = "OK"
         /\ \/ /\ h.n.precommit[p] = node.precommit[p]
               /\ h.n.rsubs[p] = node.rsubs[p] \cup node.precommit[p].rsubs
            \/ /\ h.n.precommit[p] = NoDecls
               /\ h.n.rsubs[p] = node.rsubs[p]
<1>a. PICK committed : committed = CommitTentative(zhe_rsub_commit(node, p), p)
  OBVIOUS
<1>b. PICK aborted : aborted = [zhe_rsub_precommit(node, p)
                                    EXCEPT !.store = US!zhe_uristore_abort_tentative(@, p)]
  OBVIOUS
<1>1. h = Step(IF PrecommitResult(node, p) = "OK" THEN committed ELSE aborted, "DIM_INTERPRET")
  <2> PICK D : D = zhe_rsub_precommit_curpkt_done(node, p)
    OBVIOUS
  <2>1. D = node
    BY DoneNothing
  <2>2. h = IF PrecommitResult(D, p) = "OK"
            THEN Step(CommitTentative(zhe_rsub_commit(D, p), p), "DIM_INTERPRET")
            ELSE Step([zhe_rsub_precommit(D, p)
                        EXCEPT !.store = US!zhe_uristore_abort_tentative(@, p)], "DIM_INTERPRET")
    BY DEF handle_dcommit
  <2>3. PrecommitResult(D, p) = "OK" => h = Step(CommitTentative(zhe_rsub_commit(node, p), p), "DIM_INTERPRET")
    BY <2>1, <2>2
  <2>4. PrecommitResult(D, p) # "OK" =>
           h = Step([zhe_rsub_precommit(node, p)
                        EXCEPT !.store = US!zhe_uristore_abort_tentative(@, p)], "DIM_INTERPRET")
    BY <2>1, <2>2
  <2>5. PrecommitResult(D, p) # "OK" => h = Step(aborted, "DIM_INTERPRET")
    BY <2>4, <1>b
  <2>6. PrecommitResult(D, p) = "OK" => h = Step(committed, "DIM_INTERPRET")
    BY <2>3, <1>a
  <2> QED
    BY <2>1, <2>5, <2>6
<1>2. Tables(h.n)
  BY DcommitLeads DEF Leads
<1>3. CASE PrecommitResult(node, p) = "OK"
  <2>a. PICK k : k = AddRsubs(node, p, FirstFit(node.rsubs[p], node.precommit[p].rsubs))
    OBVIOUS
  <2>b. PICK l : l = zhe_rsub_commit(node, p)
    OBVIOUS
  <2>1. Fit(node.rsubs[p]) /\ Fit(node.precommit[p].rsubs)
    BY DEF Tables, Transaction
  <2>2. node.precommit[p].result = "OK" /\ Fits(node, p)
    BY <1>3 DEF PrecommitResult
  <2>3. FirstFit(node.rsubs[p], node.precommit[p].rsubs) = node.precommit[p].rsubs \ node.rsubs[p]
    <3> PICK S : S = node.rsubs[p]
      OBVIOUS
    <3> PICK T : T = node.precommit[p].rsubs
      OBVIOUS
    <3>1. Fit(S) /\ Fit(T) /\ Cardinality(T) <= MAX_SUBSCRIPTIONS_PER_PEER - Cardinality(S)
      BY <2>1, <2>2 DEF Fits
    <3>2. FirstFit(S, T) = T \ S
      BY <3>1, FirstFitIs
    <3> QED
      BY <3>2
  <2>4. Added(node, p, FirstFit(node.rsubs[p], node.precommit[p].rsubs), k)
    BY <2>a, AddRsubsIs
  <2>5. /\ k.precommit = node.precommit /\ k.curpkt = NoDecls
        /\ k.rsubs[p] = node.rsubs[p] \cup node.precommit[p].rsubs
        /\ DOMAIN k = DOMAIN node
    BY <2>3, <2>4 DEF Added, Tables
  <2>6. l = [k EXCEPT !.curpkt = NoDecls]
    BY <2>a, <2>b DEF zhe_rsub_commit, zhe_rsub_precommit_curpkt_abort
  <2>7. "curpkt" \in DOMAIN node
    BY DEF Tables
  <2>8. l.precommit = k.precommit /\ l.curpkt = NoDecls /\ l.rsubs = k.rsubs
    BY <2>5, <2>6, <2>7
  <2>c. PICK c : c = CommitTentative(l, p)
    OBVIOUS
  <2>9. c.precommit = l.precommit /\ c.curpkt = l.curpkt /\ c.rsubs = l.rsubs
    BY <2>c DEF CommitTentative
  <2>10. h = Step(c, "DIM_INTERPRET")
    <3>1. committed = c
      BY <1>a, <2>b, <2>c
    <3>2. h = Step(committed, "DIM_INTERPRET")
      BY <1>1, <1>3
    <3> QED
      BY <3>1, <3>2
  <2>11. h.n = c /\ h.mode = "DIM_INTERPRET"
    BY <2>10, StepIs
  <2> QED
    BY <1>2, <2>2, <2>5, <2>8, <2>9, <2>11
<1>4. CASE PrecommitResult(node, p) # "OK"
  <2>a. PICK k : k = [node EXCEPT !.precommit[p] = NoDecls]
    OBVIOUS
  <2>b. PICK pre : pre = [node.precommit EXCEPT ![p] = NoDecls]
    OBVIOUS
  <2>1. k = [store |-> node.store, residx2sub |-> node.residx2sub, count |-> node.count,
             rsubs |-> node.rsubs, precommit |-> pre, curpkt |-> node.curpkt]
    BY <2>a, <2>b DEF Tables
  <2>2. k.precommit = pre /\ k.curpkt = NoDecls /\ k.rsubs = node.rsubs
    BY <2>1
  <2>3. pre[p] = NoDecls
    BY <2>b DEF Tables, Map
  <2>4. zhe_rsub_precommit(node, p) = k
    BY <1>4, <2>a DEF zhe_rsub_precommit
  <2>c. PICK c : c = [k EXCEPT !.store = US!zhe_uristore_abort_tentative(@, p)]
    OBVIOUS
  <2>5. c.precommit = pre /\ c.curpkt = NoDecls /\ c.rsubs = node.rsubs
    BY <2>2, <2>c
  <2>6. h = Step(c, "DIM_INTERPRET")
    <3>1. aborted = c
      BY <1>b, <2>4, <2>c
    <3>2. h = Step(aborted, "DIM_INTERPRET")
      BY <1>1, <1>4
    <3> QED
      BY <3>1, <3>2
  <2>7. h.n = c /\ h.mode = "DIM_INTERPRET"
    BY <2>6, StepIs
  <2>8. NoDecls.result = "OK"
    BY DEF NoDecls
  <2> QED
    BY <1>2, <2>3, <2>5, <2>7, <2>8
<1> QED
  BY <1>3, <1>4

LEMMA CommitStep ==
  ASSUME TablesOK, NEW p \in Peers, NEW msg \in Messages[p],
         Len(msg.decls) = 1, msg.decls[1].kind = "DCOMMIT", handle_mdeclare(p, msg, TRUE)
  PROVE  IF node'.precommit[p] = NoDecls
         THEN node'.rsubs[p] = node.rsubs[p]
         ELSE node'.rsubs[p] = node.rsubs[p] \cup node.precommit[p].rsubs
<1>0. Tables(node) /\ node.curpkt = NoDecls
  BY DEF TablesOK
<1>a. PICK h : h = handle_dcommit(node, p, TRUE)
  OBVIOUS
<1>1. h = Interpreted(node, p, msg, TRUE)
  BY <1>a, CommitAlone
<1>2. /\ Tables(h.n) /\ h.mode = "DIM_INTERPRET" /\ h.n.curpkt = NoDecls
      /\ h.n.precommit[p].result = "OK"
      /\ \/ /\ h.n.precommit[p] = node.precommit[p]
            /\ h.n.rsubs[p] = node.rsubs[p] \cup node.precommit[p].rsubs
         \/ /\ h.n.precommit[p] = NoDecls
            /\ h.n.rsubs[p] = node.rsubs[p]
  BY <1>0, <1>a, CommitOutcome
<1>3. zhe_rsub_precommit_curpkt_done(h.n, p) = h.n
  BY <1>2, DoneNothing
<1>4. node' = h.n
  BY <1>1, <1>2, <1>3 DEF handle_mdeclare
<1>5. NoDecls.rsubs = {}
  BY DEF NoDecls
<1> QED
  BY <1>2, <1>4, <1>5

\* Whatever tables the peers filled and in whatever order messages came: a
\* commit (handle_dcommit, zhe_rsub_commit) adds either all subscriptions of its
\* transaction to those of the peer, or none when zhe_rsub_precommit finds an
\* error or too little room.
THEOREM CommitIsAllOrNothing == Spec => CommitAllOrNothing
<1>1. Init => TablesOK
  BY InitTables
<1>2. TablesOK /\ [Next]_vars => TablesOK'
  BY NextTables
<1>3. TablesOK /\ [Next]_vars =>
        [\A p \in Peers : \A msg \in {m \in Messages[p] : Len(m.decls) = 1 /\ m.decls[1].kind = "DCOMMIT"} :
          handle_mdeclare(p, msg, TRUE) =>
              IF node'.precommit[p] = NoDecls
              THEN node'.rsubs[p] = node.rsubs[p]
              ELSE node'.rsubs[p] = node.rsubs[p] \cup node.precommit[p].rsubs]_vars
  BY CommitStep
<1> QED
  BY <1>1, <1>2, <1>3, PTL DEF Spec, CommitAllOrNothing

-----------------------------------------------------------------------------
(* The counts are exact. *)

\* one more resource leaves the names of the other numbers as they are
LEMMA NamedIs ==
  ASSUME NEW s, NEW t, Own(s), NEW i \in Indexes, NEW rid \in Nat \ {0}, NEW uri, Named(s, t, i, rid, uri)
  PROVE  /\ Own(t) /\ Used(t) = Used(s) \cup {i} /\ i \notin Used(s)
         /\ \A r : r # rid => geturi_for_rid(t, r) = geturi_for_rid(s, r)
         /\ geturi_for_rid(t, rid) = {uri}
         /\ US!lookup_rid(t, rid) = {i}
         /\ \A r : r # rid => US!lookup_rid(t, r) = US!lookup_rid(s, r)
<1>1. /\ Own(t) /\ s.ress[i].rid = 0 /\ t.ress[i].rid = rid /\ US!UriOf(t, i) = uri
      /\ \A j \in Indexes : j # i => t.ress[j].rid = s.ress[j].rid
      /\ \A j \in Used(s) : US!UriOf(t, j) = US!UriOf(s, j)
  BY DEF Named
<1>2. Used(t) = Used(s) \cup {i} /\ i \notin Used(s) /\ Used(s) \subseteq Indexes
  BY <1>1 DEF Used
<1>3. ASSUME NEW r, r # rid
      PROVE  geturi_for_rid(t, r) = geturi_for_rid(s, r) /\ US!lookup_rid(t, r) = US!lookup_rid(s, r)
  <2> PICK E : E = {j \in Used(s) : s.ress[j].rid = r}
    OBVIOUS
  <2>1. E = {j \in Used(t) : t.ress[j].rid = r} /\ E \subseteq Used(s)
    BY <1>1, <1>2, <1>3
  <2>2. US!lookup_rid(t, r) = E /\ US!lookup_rid(s, r) = E
    BY <1>1, <2>1, OwnIsSound, SoundIs
  <2>3. geturi_for_rid(t, r) = {US!UriOf(t, j) : j \in E} /\ geturi_for_rid(s, r) = {US!UriOf(s, j) : j \in E}
    BY <1>1, <2>1, NamesIs
  <2> QED
    BY <1>1, <2>1, <2>2, <2>3
<1>4. {j \in Used(t) : t.ress[j].rid = rid} = {i}
  <2>1. ASSUME NEW j \in Used(t), t.ress[j].rid = rid PROVE j = i
    <3>1. i \in Used(t) /\ t.ress[i].rid = t.ress[j].rid
      BY <1>1, <1>2, <2>1
    <3> QED
      BY <1>1, <3>1, OwnIsSound, SoundIs
  <2> QED
    BY <1>1, <1>2, <2>1
<1>5. US!lookup_rid(t, rid) = {i}
  BY <1>1, <1>4, OwnIsSound, SoundIs
<1>6. geturi_for_rid(t, rid) = {US!UriOf(t, j) : j \in {i}}
  BY <1>1, <1>4, NamesIs
<1>7. geturi_for_rid(t, rid) = {uri}
  BY <1>1, <1>6
<1> QED
  BY <1>1, <1>2, <1>3, <1>5, <1>7

\* the invariant: well-formed tables, the node's own resources, exact counts
CountsOK == TablesOK /\ PubsFit /\ Own(node.store) /\ Exact(node)

LEMMA CountsAreGood == ASSUME Orderly, CountsOK PROVE Good(node)
BY StillItself DEF CountsOK, Good

\* What a new resource does: the number was free, and it gets an entry.
LEMMA DeclareOwn ==
  ASSUME Orderly, CountsOK, NEW r \in Resources, zhe_declare_resource(r[1], r[2]),
         NEW t, t = US!zhe_uristore_store(node.store, SELF, r[1], r[2], FALSE)
  PROVE  /\ r[1] \in Nat \ {0} /\ Own(t.s)
         /\ \/ t.res # "USR_OK" /\ StillOwn(node.store, t.s)
            \/ /\ t.res = "USR_OK" /\ \E i \in Indexes : Named(node.store, t.s, i, r[1], r[2])
               /\ geturi_for_rid(node.store, r[1]) = {}
               /\ r[1] \notin ToSet(pubs) /\ \A k \in DOMAIN subs : subs[k].rid # r[1]
               /\ \A p \in Peers : r[1] \notin node.rsubs[p]
<1>1. r \in AllResources /\ r = <<r[1], r[2]>> /\ r[1] \in Nat \ {0}
  BY PubSubAssumption DEF AllResources
<1>2. Own(node.store)
  BY DEF CountsOK
<1>3. /\ \A p \in Peers : r[1] \notin node.rsubs[p]
      /\ ~zhe_rid_in_use_anonymously(node.store, r[1])
  BY DEF zhe_declare_resource, Orderly
<1>4. CASE US!lookup_rid(node.store, r[1]) # {}
  <2>1. StillOwn(node.store, t.s) /\ t.res # "USR_OK"
    BY <1>1, <1>2, <1>4, OwnStoreKnown
  <2> QED
    BY <1>1, <2>1 DEF StillOwn
<1>5. CASE US!lookup_rid(node.store, r[1]) = {}
  <2>1. IF t.res = "USR_OK" THEN \E i \in Indexes : Named(node.store, t.s, i, r[1], r[2]) ELSE t.s = node.store
    <3> PICK rid, uri, s : rid = r[1] /\ uri = r[2] /\ s = node.store
      OBVIOUS
    <3>1. <<rid, uri>> \in AllResources /\ Own(s) /\ US!lookup_rid(s, rid) = {}
          /\ t = US!zhe_uristore_store(s, SELF, rid, uri, FALSE)
      BY <1>1, <1>2, <1>5
    <3>2. Fresh(s, t, rid, uri)
      BY <3>1, OwnStoreFresh
    <3> QED
      BY <3>2 DEF Fresh
  <2>2. geturi_for_rid(node.store, r[1]) = {}
    BY <1>5 DEF geturi_for_rid, CommittedEntry
  <2>3. r[1] \notin ToSet(pubs) /\ \A k \in DOMAIN subs : subs[k].rid # r[1]
    BY <1>3, <2>2 DEF zhe_rid_in_use_anonymously
  <2>4. CASE t.res = "USR_OK"
    BY <1>1, <1>3, <2>1, <2>2, <2>3, <2>4 DEF Named
  <2>5. CASE t.res # "USR_OK"
    BY <1>1, <1>2, <2>1, <2>5, StillItself
  <2> QED
    BY <2>4, <2>5
<1> QED
  BY <1>4, <1>5

LEMMA DeclareCounts ==
  ASSUME Orderly, CountsOK, NEW r \in Resources, zhe_declare_resource(r[1], r[2])
  PROVE  CountsOK'
<1>0. Tables(node) /\ Own(node.store) /\ Exact(node) /\ PubsFit
  BY DEF CountsOK, TablesOK
<1>1. TablesOK'
  BY NextTables DEF CountsOK, Next
<1>a. PICK t, m : /\ t = US!zhe_uristore_store(node.store, SELF, r[1], r[2], FALSE)
                  /\ m = [node EXCEPT !.store = t.s] /\ Tables(m)
                  /\ node' = IF t.res = "USR_OK" THEN zhe_update_subs_for_resource_decl(m, r[1]) ELSE m
                  /\ pubs' = pubs
  BY <1>0, DeclareIs
<1>b. PICK s : s = node.store
  OBVIOUS
<1>2. m.store = t.s /\ m.count = node.count /\ m.rsubs = node.rsubs
  BY <1>a, <1>0 DEF Tables
<1>3. node'.store = t.s /\ node'.count = node.count /\ node'.rsubs = node.rsubs
  <2>1. Relisted(m, zhe_update_subs_for_resource_decl(m, r[1]))
    BY <1>a, UpdatedRelisted
  <2>a. PICK u : u = zhe_update_subs_for_resource_decl(m, r[1])
    OBVIOUS
  <2>2. u.store = m.store /\ u.count = m.count /\ u.rsubs = m.rsubs
    BY <2>1, <2>a DEF Relisted
  <2> QED
    BY <1>2, <1>a, <2>2, <2>a
<1>4. /\ r[1] \in Nat \ {0} /\ Own(t.s)
      /\ \/ t.res # "USR_OK" /\ StillOwn(s, t.s)
         \/ /\ t.res = "USR_OK" /\ \E i \in Indexes : Named(s, t.s, i, r[1], r[2])
            /\ r[1] \notin ToSet(pubs)
            /\ \A p \in Peers : r[1] \notin node.rsubs[p]
  BY <1>a, <1>b, DeclareOwn
<1>5. ASSUME NEW i \in DOMAIN pubs
      PROVE  Pairs(t.s, node.rsubs, pubs[i]) = Pairs(s, node.rsubs, pubs[i])
  <2>1. CASE StillOwn(s, t.s)
    <3>1. \A x : geturi_for_rid(t.s, x) = geturi_for_rid(s, x)
      BY <1>0, <1>b, <2>1, NamesStay
    <3> QED
      BY <3>1 DEF Pairs, Matching, pub_sub_match
  <2>2. CASE /\ \E j \in Indexes : Named(s, t.s, j, r[1], r[2])
             /\ r[1] \notin ToSet(pubs)
             /\ \A p \in Peers : r[1] \notin node.rsubs[p]
    <3>1. \A x : x # r[1] => geturi_for_rid(t.s, x) = geturi_for_rid(s, x)
      BY <1>0, <1>4, <1>b, <2>2, NamedIs
    <3>2. pubs[i] # r[1]
      BY <2>2 DEF ToSet
    <3>3. ASSUME NEW p \in Peers PROVE Matching(t.s, pubs[i], node.rsubs[p]) = Matching(s, pubs[i], node.rsubs[p])
      <4>1. \A x \in node.rsubs[p] : x # r[1]
        BY <2>2
      <4>2. \A x \in node.rsubs[p] : pub_sub_match(t.s, pubs[i], x) <=> pub_sub_match(s, pubs[i], x)
        BY <3>1, <3>2, <4>1 DEF pub_sub_match
      <4> QED
        BY <4>2 DEF Matching
    <3> QED
      BY <3>3 DEF Pairs
  <2> QED
    BY <1>4, <2>1, <2>2
<1>6. \A i \in DOMAIN pubs' : node'.count[i] = Cardinality(Pairs(node'.store, node'.rsubs, pubs'[i]))
  <2>1. \A i \in DOMAIN pubs : node.count[i] = Cardinality(Pairs(s, node.rsubs, pubs[i]))
    BY <1>0, <1>b DEF Exact
  <2> QED
    BY <1>3, <1>5, <1>a, <2>1
<1>7. Own(node'.store)
  BY <1>3, <1>4
<1> QED
  BY <1>0, <1>1, <1>6, <1>7, <1>a DEF CountsOK, PubsFit, Exact

LEMMA PublishCounts ==
  ASSUME Orderly, CountsOK, NEW rid \in OwnRids, zhe_publish(rid)
  PROVE  CountsOK'
<1>0. Tables(node) /\ Own(node.store) /\ Exact(node) /\ PubsFit
  BY DEF CountsOK, TablesOK
<1>1. TablesOK'
  BY NextTables DEF CountsOK, Next
<1> PICK k : k = Len(pubs) + 1
  OBVIOUS
<1>a. PICK m : /\ node' = m /\ m.store = node.store /\ m.rsubs = node.rsubs
               /\ k \in Pubs => m.count[k] = Subscribers(node, rid) % CountSpace
               /\ \A i \in Pubs : i # k => m.count[i] = node.count[i]
  BY <1>0, PublishIs
<1>2. pubs' = Append(pubs, rid) /\ Len(pubs) < MAX_PUBLICATIONS /\ pubs \in Seq(OwnRids)
  BY <1>0 DEF zhe_publish, PubsFit
<1>3. /\ DOMAIN pubs = 1 .. Len(pubs) /\ Len(pubs) \in Nat /\ DOMAIN pubs \subseteq Pubs
      /\ k \in Pubs /\ k \notin DOMAIN pubs
  <2>1. MAX_PUBLICATIONS \in Nat
    BY PubSubAssumption
  <2> QED
    BY <1>0, <1>2, <2>1, LenPubs DEF Pubs
<1>4. /\ DOMAIN pubs' = DOMAIN pubs \cup {k} /\ pubs'[k] = rid
      /\ \A i \in DOMAIN pubs : pubs'[i] = pubs[i]
      /\ pubs' \in Seq(OwnRids) /\ Len(pubs') <= MAX_PUBLICATIONS
  <2>1. /\ pubs' \in Seq(OwnRids) /\ Len(pubs') = Len(pubs) + 1
        /\ pubs'[Len(pubs) + 1] = rid /\ \A i \in 1 .. Len(pubs) : pubs'[i] = pubs[i]
    BY <1>2, AppendProperties
  <2>2. MAX_PUBLICATIONS \in Nat
    BY PubSubAssumption
  <2>3. DOMAIN pubs' = 1 .. Len(pubs')
    BY <2>1
  <2> QED
    BY <1>2, <1>3, <2>1, <2>2, <2>3
<1>5. Subscribers(node, rid) = Cardinality(Pairs(node.store, node.rsubs, rid))
  BY DEF Subscribers, Pairs
<1>6. m.count[k] = Cardinality(Pairs(node.store, node.rsubs, rid))
  BY <1>0, <1>3, <1>5, <1>a, PairsFew, Unwrapped
<1>7. \A i \in DOMAIN pubs' : node'.count[i] = Cardinality(Pairs(node'.store, node'.rsubs, pubs'[i]))
  BY <1>0, <1>3, <1>4, <1>6, <1>a DEF Exact
<1> QED
  BY <1>0, <1>1, <1>4, <1>7, <1>a DEF CountsOK, PubsFit, Exact

LEMMA LeftCounts ==
  ASSUME Orderly, CountsOK, TablesOK', NEW m, Left(m) PROVE CountsOK'
<1>1. Good(node)
  BY CountsAreGood
<1>2. Own(m.store) /\ Exact(m) /\ PubsFit /\ node' = m /\ pubs' = pubs
  BY <1>1 DEF Left, Leads, Good
<1> QED
  BY <1>2 DEF CountsOK, PubsFit, Exact

LEMMA SubscribeCounts ==
  ASSUME CountsOK, NEW rid \in OwnRids, zhe_subscribe(rid) PROVE CountsOK'
<1>0. Tables(node) /\ Own(node.store) /\ Exact(node) /\ PubsFit
  BY DEF CountsOK, TablesOK
<1>1. TablesOK'
  BY NextTables DEF CountsOK, Next
<1>a. PICK u : u = zhe_update_subs_for_sub_decl(node, rid, Len(subs) + 1)
  OBVIOUS
<1>2. node' = u /\ pubs' = pubs
  BY <1>a DEF zhe_subscribe
<1>3. Relisted(node, u)
  BY <1>0, <1>a, SubUpdatedRelisted
<1>4. u.store = node.store /\ u.count = node.count /\ u.rsubs = node.rsubs
  BY <1>3 DEF Relisted
<1> QED
  BY <1>0, <1>1, <1>2, <1>4 DEF CountsOK, PubsFit, Exact

LEMMA InitCounts == Init => CountsOK
<1> SUFFICES ASSUME Init PROVE CountsOK
  OBVIOUS
<1>1. pubs = <<>>
  BY DEF Init
<1>2. PubsFit /\ Exact(node)
  BY <1>1, PubSubAssumption DEF PubsFit, Exact
<1> QED
  BY <1>2, InitTables, OwnInit DEF CountsOK

LEMMA NextCounts == Orderly => (CountsOK /\ [Next]_vars => CountsOK')
<1> SUFFICES ASSUME Orderly, CountsOK, [Next]_vars PROVE CountsOK'
  OBVIOUS
<1>0. TablesOK' /\ Tables(node)
  BY NextTables DEF CountsOK, TablesOK
<1>1. ASSUME NEW p \in Peers, NEW msg \in Messages[p], NEW room, handle_mdeclare(p, msg, room)
      PROVE  CountsOK'
  BY <1>0, <1>1, MdeclareLeads, LeftCounts
<1>2. ASSUME NEW p \in Peers, reset_peer(p) PROVE CountsOK'
  BY <1>0, <1>2, ResetPeerLeads, LeftCounts
<1>3. ASSUME NEW r \in Resources, zhe_declare_resource(r[1], r[2]) PROVE CountsOK'
  BY <1>3, DeclareCounts
<1>4. ASSUME NEW rid \in OwnRids, zhe_publish(rid) PROVE CountsOK'
  BY <1>4, PublishCounts
<1>5. ASSUME NEW rid \in OwnRids, zhe_subscribe(rid) PROVE CountsOK'
  BY <1>5, SubscribeCounts
<1>6. CASE UNCHANGED vars
  BY <1>0, <1>6 DEF CountsOK, PubsFit, Exact, vars
<1> QED
  BY <1>1, <1>2, <1>3, <1>4, <1>5, <1>6 DEF Next

\* "we count the number of remote subs for each pub": when the node declares a
\* resource before its peers refer to it, the count that makes zhe_write send or
\* skip is the number of subscriptions of all peers that match the publication,
\* whatever was committed, repeated, aborted or reset, and it never overflows.
THEOREM CountsAreExact == Orderly => (Spec => []CountsExact)
<1> SUFFICES ASSUME Orderly PROVE Spec => []CountsExact
  OBVIOUS
<1>1. Init => CountsOK
  BY InitCounts
<1>2. CountsOK /\ [Next]_vars => CountsOK'
  BY NextCounts
<1>3. CountsOK => CountsExact
  BY DEF CountsOK, Exact, CountsExact, Subscribers, Pairs
<1> QED
  BY <1>1, <1>2, <1>3, PTL DEF Spec

-----------------------------------------------------------------------------
(* Lists of subscriptions. *)

\* a list of K without repetitions
GoodList(l, K) == l \in Seq(Nat) /\ IsInjective(l) /\ ToSet(l) = K

LEMMA GoodEmpty == GoodList(<<>>, {})
BY DEF GoodList, IsInjective, ToSet

LEMMA GoodAppend ==
  ASSUME NEW l, NEW K, GoodList(l, K), NEW k \in Nat, k \notin K
  PROVE  GoodList(Append(l, k), K \cup {k})
<1>a. PICK h : h = Append(l, k)
  OBVIOUS
<1>1. l \in Seq(Nat) /\ Len(l) \in Nat /\ DOMAIN l = 1 .. Len(l)
  BY DEF GoodList
<1>2. /\ h \in Seq(Nat) /\ Len(h) = Len(l) + 1 /\ h[Len(l) + 1] = k
      /\ \A i \in 1 .. Len(l) : h[i] = l[i]
  BY <1>1, <1>a, AppendProperties
<1>3. DOMAIN h = 1 .. Len(l) + 1
  BY <1>1, <1>2
<1>4. \A i \in DOMAIN h : i = Len(l) + 1 \/ i \in DOMAIN l
  BY <1>1, <1>3
<1>5. \A i \in DOMAIN l : l[i] \in K /\ h[i] = l[i] /\ i \in DOMAIN h
  BY <1>1, <1>2, <1>3 DEF GoodList, ToSet
<1>6. \A i, j \in DOMAIN l : l[i] = l[j] => i = j
  BY DEF GoodList, IsInjective
<1>7. Len(l) + 1 \in DOMAIN h
  BY <1>1, <1>3
<1>8. IsInjective(h)
  <2> SUFFICES ASSUME NEW i \in DOMAIN h, NEW j \in DOMAIN h, h[i] = h[j] PROVE i = j
    BY DEF IsInjective
  <2> QED
    BY <1>2, <1>4, <1>5, <1>6
<1>9. ToSet(h) = K \cup {k}
  <2>1. \A x \in K : \E i \in DOMAIN l : l[i] = x
    BY DEF GoodList, ToSet
  <2>2. \A x \in K : \E i \in DOMAIN h : h[i] = x
    BY <1>5, <2>1
  <2>3. \A i \in DOMAIN h : h[i] \in K \cup {k}
    BY <1>2, <1>4, <1>5
  <2> QED
    BY <1>2, <1>7, <2>2, <2>3 DEF ToSet
<1> QED
  BY <1>2, <1>8, <1>9, <1>a DEF GoodList

\* the members of X are put into a list, in order
ListRounds(g, X, N) ==
    /\ Map(g, 0 .. N)
    /\ g[0] = <<>>
    /\ \A k \in 1 .. N : g[k] = IF k \in X THEN Append(g[k - 1], k) ELSE g[k - 1]

LEMMA ListRoundsExist == ASSUME NEW X, NEW N \in Nat PROVE \E g : ListRounds(g, X, N)
<1> DEFINE S == {k \in 0 .. N : \E g : ListRounds(g, X, k)}
<1>1. 0 \in S
  <2>1. ListRounds([k \in 0 .. 0 |-> <<>>], X, 0)
    BY DEF ListRounds, Map
  <2> QED
    BY <2>1
<1>2. ASSUME NEW l \in 1 .. N, l - 1 \in S PROVE l \in S
  <2>1. PICK g : ListRounds(g, X, l - 1)
    BY <1>2
  <2> DEFINE h == [k \in 0 .. l |->
                     IF k = l THEN (IF l \in X THEN Append(g[l - 1], l) ELSE g[l - 1]) ELSE g[k]]
  <2>2. Map(h, 0 .. l) /\ h[0] = <<>>
    BY <2>1 DEF ListRounds, Map
  <2>3. ASSUME NEW k \in 1 .. l PROVE h[k] = IF k \in X THEN Append(h[k - 1], k) ELSE h[k - 1]
    <3>1. k - 1 \in 0 .. l /\ k - 1 # l
      OBVIOUS
    <3>2. h[k - 1] = g[k - 1]
      BY <3>1
    <3>3. CASE k = l
      BY <3>2, <3>3
    <3>4. CASE k # l
      <4>1. k \in 1 .. l - 1
        BY <3>4
      <4>2. h[k] = g[k]
        BY <3>4
      <4>3. g[k] = IF k \in X THEN Append(g[k - 1], k) ELSE g[k - 1]
        BY <2>1, <4>1 DEF ListRounds
      <4> QED
        BY <3>2, <4>2, <4>3
    <3> QED
      BY <3>3, <3>4
  <2> HIDE DEF h
  <2>4. ListRounds(h, X, l)
    BY <2>2, <2>3 DEF ListRounds
  <2> QED
    BY <2>4
<1>3. \A k \in 0 .. N : k \in S
  <2> HIDE DEF S
  <2>1. S \subseteq 0 .. N
    BY DEF S
  <2> QED
    BY <1>1, <1>2, <2>1, USP!NatInSet, SA, BA
<1> QED
  BY <1>3

LEMMA ListRoundsGood ==
  ASSUME NEW X, NEW N \in Nat, X \subseteq 1 .. N, NEW g, ListRounds(g, X, N)
  PROVE  GoodList(g[N], X)
<1> DEFINE S == {k \in 0 .. N : GoodList(g[k], {x \in X : x <= k})}
<1>0. \A x \in X : x \in Nat /\ 1 <= x /\ x <= N
  OBVIOUS
<1>1. 0 \in S
  <2>1. {x \in X : x <= 0} = {}
    <3>1. ASSUME NEW x \in X PROVE ~ (x <= 0)
      BY <1>0
    <3> QED
      BY <3>1
  <2>2. GoodList(g[0], {x \in X : x <= 0})
    BY <2>1, GoodEmpty DEF ListRounds
  <2>3. 0 \in 0 .. N
    OBVIOUS
  <2> QED
    BY <2>2, <2>3
<1>2. ASSUME NEW k \in 1 .. N, k - 1 \in S PROVE k \in S
  <2> PICK K : K = {x \in X : x <= k - 1}
    OBVIOUS
  <2>1. GoodList(g[k - 1], K) /\ k \notin K
    BY <1>2
  <2>2. g[k] = IF k \in X THEN Append(g[k - 1], k) ELSE g[k - 1]
    BY DEF ListRounds
  <2>3. \A x \in X : x <= k <=> (x <= k - 1 \/ x = k)
    OBVIOUS
  <2>4. {x \in X : x <= k} = IF k \in X THEN K \cup {k} ELSE K
    BY <2>3
  <2>5. GoodList(g[k], {x \in X : x <= k})
    BY <2>1, <2>2, <2>4, GoodAppend
  <2> QED
    BY <2>5
<1>3. N \in S
  <2> HIDE DEF S
  <2>1. S \subseteq 0 .. N
    BY DEF S
  <2>2. N \in 0 .. N
    OBVIOUS
  <2> QED
    BY <1>1, <1>2, <2>1, <2>2, USP!NatInSet, SA, BA
<1>4. {x \in X : x <= N} = X
  BY <1>0
<1> QED
  BY <1>3, <1>4

\* the subscriptions whose names match one of us
Matched(s, us) == {k \in DOMAIN subs : UrisMatch(geturi_for_rid(s, subs[k].rid), us)}

\* m is n with a list for index i of the subscriptions that match rid
ListFilled(n, m, i, rid) ==
    /\ GoodList(m.residx2sub[i], Matched(n.store, geturi_for_rid(n.store, rid)))
    /\ \A j \in Indexes : j # i => m.residx2sub[j] = n.residx2sub[j]

LEMMA UpdatedFilled ==
  ASSUME NEW n, Tables(n), NEW rid, NEW i \in Indexes, US!lookup_rid(n.store, rid) = {i},
         n.residx2sub[i] = <<>>, Len(subs) \in Nat, DOMAIN subs = 1 .. Len(subs)
  PROVE  ListFilled(n, zhe_update_subs_for_resource_decl(n, rid), i, rid)
<1> PICK N \in Nat : N = Len(subs)
  OBVIOUS
<1>a. PICK X : X = Matched(n.store, geturi_for_rid(n.store, rid))
  OBVIOUS
<1> DEFINE idx == CHOOSE j \in US!lookup_rid(n.store, rid) : TRUE
           Matches(k) == UrisMatch(geturi_for_rid(n.store, subs[k].rid), geturi_for_rid(n.store, rid))
           Body(f) == [k \in 0 .. Len(subs) |->
                         IF k = 0 THEN n.residx2sub[idx]
                         ELSE IF Matches(k) THEN Append(f[k-1], k) ELSE f[k-1]]
           run == CHOOSE f : f = Body(f)
<1>1. zhe_update_subs_for_resource_decl(n, rid) = [n EXCEPT !.residx2sub[idx] = run[Len(subs)]]
  BY DEF zhe_update_subs_for_resource_decl
<1>2. idx = i
  OBVIOUS
<1>3. X \subseteq 1 .. N /\ \A k \in 1 .. N : k \in X <=> Matches(k)
  BY <1>a DEF Matched
<1>4. PICK g : ListRounds(g, X, N)
  BY ListRoundsExist
<1>5. \A k \in 0 .. N : k = 0 \/ k \in 1 .. N
  OBVIOUS
<1> HIDE DEF idx, Matches
<1>6. g = Body(g)
  <2>1. \A k \in 0 .. N : g[k] = Body(g)[k]
    BY <1>2, <1>3, <1>4, <1>5 DEF ListRounds
  <2> QED
    BY <1>4, <2>1 DEF ListRounds, Map
<1>7. run = Body(run)
  BY <1>6
<1> HIDE DEF run
<1>8. ListRounds(run, X, N)
  <2>1. 0 \in 0 .. N /\ \A k \in 1 .. N : k \in 0 .. N /\ k # 0
    OBVIOUS
  <2>2. Map(run, 0 .. N) /\ run[0] = <<>>
    BY <1>2, <1>7, <2>1 DEF Map
  <2>3. \A k \in 1 .. N : run[k] = IF k \in X THEN Append(run[k - 1], k) ELSE run[k - 1]
    BY <1>3, <1>7, <2>1
  <2> QED
    BY <2>2, <2>3 DEF ListRounds
<1>9. GoodList(run[N], X)
  BY <1>3, <1>8, ListRoundsGood
<1> PICK l : l = run[N]
  OBVIOUS
<1>b. PICK m : m = zhe_update_subs_for_resource_decl(n, rid)
  OBVIOUS
<1>c. PICK lists : lists = [n.residx2sub EXCEPT ![i] = l]
  OBVIOUS
<1>10. m.residx2sub = lists
  <2>1. m = [n EXCEPT !.residx2sub[i] = l]
    BY <1>1, <1>2, <1>b
  <2> QED
    BY <2>1, <1>c DEF Tables
<1>11. lists[i] = l /\ \A j \in Indexes : j # i => lists[j] = n.residx2sub[j]
  BY <1>c DEF Tables, Map
<1> QED
  BY <1>9, <1>10, <1>11, <1>a, <1>b DEF ListFilled

\* the subscriptions of the application; the first to a number is its own successor
SubsFit ==
    /\ subs \in Seq([rid : OwnRids, next : Nat]) /\ Len(subs) <= MAX_SUBSCRIPTIONS
    /\ \A k \in 1 .. Len(subs) :
          (\A j \in 1 .. k - 1 : subs[j].rid # subs[k].rid) => subs[k].next = k

\* each resource has the list of the subscriptions that match its name
ListsOK ==
    /\ \A i \in Used(node.store) :
          GoodList(node.residx2sub[i], Matched(node.store, {US!UriOf(node.store, i)}))
    /\ \A i \in Indexes \ Used(node.store) : node.residx2sub[i] = <<>>

DataOK == CountsOK /\ SubsFit /\ ListsOK

LEMMA LenSubs == SubsFit => Len(subs) \in Nat /\ DOMAIN subs = 1 .. Len(subs)
BY DEF SubsFit

LEMMA SameData ==
  ASSUME CountsOK, SubsFit, ListsOK, CountsOK', subs' = subs,
         StillOwn(node.store, node'.store), node'.residx2sub = node.residx2sub
  PROVE  DataOK'
<1>a. PICK s, t, l : s = node.store /\ t = node'.store /\ l = node.residx2sub
  OBVIOUS
<1>1. Own(s) /\ StillOwn(s, t)
  BY <1>a DEF CountsOK
<1>2. Used(t) = Used(s) /\ \A r : geturi_for_rid(t, r) = geturi_for_rid(s, r)
  BY <1>1, NamesStay
<1>3. \A i \in Indexes : US!UriOf(t, i) = US!UriOf(s, i)
  BY <1>1 DEF StillOwn, SameNames
<1>4. Used(s) \subseteq Indexes
  BY DEF Used
<1>5. \A i \in Used(s) : GoodList(l[i], Matched(s, {US!UriOf(s, i)}))
  BY <1>a DEF ListsOK
<1>6. \A i \in Used(s) : Matched(t, {US!UriOf(t, i)}) = Matched(s, {US!UriOf(s, i)})
  BY <1>2, <1>3, <1>4 DEF Matched
<1>7. \A i \in Used(t) : GoodList(l[i], Matched(t, {US!UriOf(t, i)}))
  BY <1>2, <1>5, <1>6
<1>8. \A i \in Indexes \ Used(t) : l[i] = <<>>
  BY <1>2, <1>a DEF ListsOK
<1>9. ListsOK'
  BY <1>7, <1>8, <1>a DEF ListsOK, Matched
<1> QED
  BY <1>9 DEF DataOK, SubsFit

LEMMA LeftData ==
  ASSUME Orderly, DataOK, CountsOK', NEW m, Left(m) PROVE DataOK'
<1>1. Good(node)
  BY CountsAreGood DEF DataOK
<1>2. StillOwn(node.store, m.store) /\ m.residx2sub = node.residx2sub /\ node' = m /\ subs' = subs
  BY <1>1 DEF Left, Leads
<1> QED
  BY <1>2, SameData DEF DataOK

LEMMA PublishData ==
  ASSUME DataOK, CountsOK', NEW rid \in OwnRids, zhe_publish(rid) PROVE DataOK'
<1>0. Tables(node) /\ Own(node.store)
  BY DEF DataOK, CountsOK, TablesOK
<1>1. PICK m : node' = m /\ m.store = node.store /\ m.residx2sub = node.residx2sub
  BY <1>0, PublishIs
<1>2. subs' = subs
  BY DEF zhe_publish
<1>3. StillOwn(node.store, node'.store)
  BY <1>0, <1>1, StillItself
<1> QED
  BY <1>1, <1>2, <1>3, SameData DEF DataOK

\* the list of a new resource is made, the others stay
LEMMA DeclareData ==
  ASSUME Orderly, DataOK, CountsOK', NEW r \in Resources, zhe_declare_resource(r[1], r[2])
  PROVE  DataOK'
<1>0. Tables(node) /\ Own(node.store) /\ CountsOK /\ SubsFit /\ ListsOK
  BY DEF DataOK, CountsOK, TablesOK
<1>a. PICK t, m : /\ t = US!zhe_uristore_store(node.store, SELF, r[1], r[2], FALSE)
                  /\ m = [node EXCEPT !.store = t.s] /\ Tables(m)
                  /\ node' = IF t.res = "USR_OK" THEN zhe_update_subs_for_resource_decl(m, r[1]) ELSE m
                  /\ subs' = subs
  BY <1>0, DeclareIs
<1>b. PICK s, l : s = node.store /\ l = node.residx2sub
  OBVIOUS
<1>1. m.store = t.s /\ m.residx2sub = l
  BY <1>0, <1>a, <1>b DEF Tables
<1>2. /\ r[1] \in Nat \ {0} /\ Own(t.s)
      /\ \/ t.res # "USR_OK" /\ StillOwn(s, t.s)
         \/ /\ t.res = "USR_OK" /\ \E i \in Indexes : Named(s, t.s, i, r[1], r[2])
            /\ \A k \in DOMAIN subs : subs[k].rid # r[1]
  BY <1>0, <1>a, <1>b, DeclareOwn
<1>3. CASE t.res # "USR_OK" /\ StillOwn(s, t.s)
  <2>1. node' = m
    BY <1>a, <1>3
  <2>2. StillOwn(node.store, node'.store) /\ node'.residx2sub = node.residx2sub
    BY <1>1, <1>3, <1>b, <2>1
  <2> QED
    BY <1>0, <1>a, <2>2, SameData
<1>4. CASE /\ t.res = "USR_OK" /\ \E i \in Indexes : Named(s, t.s, i, r[1], r[2])
           /\ \A k \in DOMAIN subs : subs[k].rid # r[1]
  <2>1. PICK i \in Indexes : Named(s, t.s, i, r[1], r[2])
    BY <1>4
  <2>a. PICK s2 : s2 = t.s
    OBVIOUS
  <2>b. PICK u : u = zhe_update_subs_for_resource_decl(m, r[1])
    OBVIOUS
  <2>2. /\ Own(s2) /\ Used(s2) = Used(s) \cup {i} /\ i \notin Used(s)
        /\ \A x : x # r[1] => geturi_for_rid(s2, x) = geturi_for_rid(s, x)
        /\ geturi_for_rid(s2, r[1]) = {r[2]}
        /\ US!lookup_rid(s2, r[1]) = {i}
    BY <1>0, <1>2, <1>b, <2>1, <2>a, NamedIs
  <2>3. US!UriOf(s2, i) = r[2] /\ \A j \in Used(s) : US!UriOf(s2, j) = US!UriOf(s, j)
    BY <2>1, <2>a DEF Named
  <2>4. l[i] = <<>> /\ (\A j \in Used(s) : GoodList(l[j], Matched(s, {US!UriOf(s, j)})))
        /\ \A j \in Indexes \ Used(s) : l[j] = <<>>
    BY <1>0, <1>b, <2>2 DEF ListsOK
  <2>5. ListFilled(m, u, i, r[1])
    <3>1. Len(subs) \in Nat /\ DOMAIN subs = 1 .. Len(subs)
      BY <1>0, LenSubs
    <3> QED
      BY <1>1, <1>a, <2>2, <2>4, <2>a, <2>b, <3>1, UpdatedFilled
  <2>6. node' = u /\ u.store = s2
    <3>1. Relisted(m, u)
      BY <1>a, <2>b, UpdatedRelisted
    <3>2. u.store = m.store
      BY <3>1 DEF Relisted
    <3> QED
      BY <1>1, <1>4, <1>a, <2>a, <2>b, <3>2
  <2>c. PICK l2 : l2 = u.residx2sub
    OBVIOUS
  <2>7. GoodList(l2[i], Matched(s2, {US!UriOf(s2, i)})) /\ \A j \in Indexes : j # i => l2[j] = l[j]
    BY <1>1, <2>2, <2>3, <2>5, <2>a, <2>c DEF ListFilled
  <2>8. ASSUME NEW j \in Used(s) PROVE GoodList(l2[j], Matched(s2, {US!UriOf(s2, j)}))
    <3>1. \A k \in DOMAIN subs : geturi_for_rid(s2, subs[k].rid) = geturi_for_rid(s, subs[k].rid)
      BY <1>4, <2>2
    <3>2. Matched(s2, {US!UriOf(s2, j)}) = Matched(s, {US!UriOf(s, j)})
      BY <2>3, <3>1 DEF Matched
    <3>3. j \in Indexes /\ j # i
      BY <2>2 DEF Used
    <3> QED
      BY <2>4, <2>7, <3>2, <3>3
  <2>9. \A j \in Used(s2) : GoodList(l2[j], Matched(s2, {US!UriOf(s2, j)}))
    BY <2>2, <2>7, <2>8
  <2>10. \A j \in Indexes \ Used(s2) : l2[j] = <<>>
    BY <2>2, <2>4, <2>7
  <2>11. ListsOK'
    BY <1>a, <2>6, <2>9, <2>10, <2>c DEF ListsOK, Matched
  <2> QED
    BY <1>0, <1>a, <2>11 DEF DataOK, SubsFit
<1> QED
  BY <1>2, <1>3, <1>4

\* a new subscription is put into the lists of the resources that it matches
LEMMA SubscribeData ==
  ASSUME DataOK, CountsOK', NEW rid \in OwnRids, zhe_subscribe(rid) PROVE DataOK'
<1>0. Tables(node) /\ Own(node.store) /\ SubsFit /\ ListsOK
  BY DEF DataOK, CountsOK, TablesOK
<1>a. PICK s, l : s = node.store /\ l = node.residx2sub
  OBVIOUS
<1>b. PICK k : k = Len(subs) + 1
  OBVIOUS
<1>c. PICK e : e = [rid |-> rid, next |-> Min(rid2sub(rid) \cup {k})]
  OBVIOUS
<1>d. PICK u : u = zhe_update_subs_for_sub_decl(node, rid, k)
  OBVIOUS
<1>1. k <= MAX_SUBSCRIPTIONS /\ subs' = Append(subs, e) /\ node' = u
  BY <1>b, <1>c, <1>d DEF zhe_subscribe
<1>2. Len(subs) \in Nat /\ DOMAIN subs = 1 .. Len(subs) /\ k \in Nat /\ k \notin DOMAIN subs
  BY <1>0, <1>b, LenSubs
<1>3. rid2sub(rid) \subseteq 1 .. Len(subs)
  BY <1>2 DEF rid2sub
<1>4. Min(rid2sub(rid) \cup {k}) \in Nat
  <2> DEFINE S == rid2sub(rid) \cup {k}
  <2>1. S \subseteq Nat /\ S # {}
    BY <1>2, <1>3
  <2> HIDE DEF S
  <2>2. \E i \in S : \A j \in S : i <= j
    BY <2>1, USP!NatHasMin, SA, BA
  <2>3. Min(S) \in S
    BY <2>2 DEF Min
  <2> QED
    BY <2>1, <2>3 DEF S
<1>5. /\ subs' \in Seq([rid : OwnRids, next : Nat]) /\ Len(subs') = k
      /\ subs'[k] = e /\ \A i \in 1 .. Len(subs) : subs'[i] = subs[i]
  <2>1. e \in [rid : OwnRids, next : Nat]
    BY <1>4, <1>c
  <2>2. subs \in Seq([rid : OwnRids, next : Nat])
    BY <1>0 DEF SubsFit
  <2> QED
    BY <1>1, <1>b, <2>1, <2>2, AppendProperties
<1>6. DOMAIN subs' = DOMAIN subs \cup {k}
  <2>1. DOMAIN subs' = 1 .. k
    BY <1>5
  <2> QED
    BY <1>2, <1>b, <2>1
<1>7. SubsFit'
  <2>1. ASSUME NEW i \in 1 .. Len(subs'), \A j \in 1 .. i - 1 : subs'[j].rid # subs'[i].rid
        PROVE  subs'[i].next = i
    <3>1. i \in 1 .. Len(subs) \/ i = k
      BY <1>2, <1>5, <1>b
    <3>2. CASE i \in 1 .. Len(subs)
      <4>1. \A j \in 1 .. i - 1 : j \in 1 .. Len(subs)
        BY <1>2, <3>2
      <4>2. \A j \in 1 .. i - 1 : subs[j].rid # subs[i].rid
        BY <1>5, <2>1, <3>2, <4>1
      <4> QED
        BY <1>0, <1>5, <3>2, <4>2 DEF SubsFit
    <3>3. CASE i = k
      <4>1. \A j \in 1 .. Len(subs) : j \in 1 .. i - 1
        BY <1>2, <1>b, <3>3
      <4>2. \A j \in 1 .. Len(subs) : subs[j].rid # rid
        BY <1>5, <1>c, <2>1, <3>3, <4>1
      <4>3. rid2sub(rid) = {}
        BY <1>2, <4>2 DEF rid2sub
      <4>4. Min({k}) = k
        BY <1>2 DEF Min
      <4>5. e.next = k
        BY <1>c, <4>3, <4>4
      <4> QED
        BY <1>5, <3>3, <4>5
    <3> QED
      BY <3>1, <3>2, <3>3
  <2> QED
    BY <1>1, <1>5, <2>1 DEF SubsFit
<1>8. u.store = s
  <2>1. Relisted(node, u)
    BY <1>0, <1>d, SubUpdatedRelisted
  <2> QED
    BY <1>a, <2>1 DEF Relisted
<1>e. PICK l2 : l2 = u.residx2sub
  OBVIOUS
<1>9. /\ \A i \in Used(s) :
            l2[i] = IF UrisMatch(geturi_for_rid(s, rid), {US!UriOf(s, i)}) THEN Append(l[i], k) ELSE l[i]
      /\ \A i \in Indexes \ Used(s) : l2[i] = l[i]
  <2> DEFINE C(i) == /\ i \in ToSet(s.used) /\ s.ress[i].committed
                     /\ UrisMatch(geturi_for_rid(s, rid), {US!UriOf(s, i)})
  <2>1. u = [node EXCEPT !.residx2sub = [i \in DOMAIN l |-> IF C(i) THEN Append(l[i], k) ELSE l[i]]]
    BY <1>a, <1>d DEF zhe_update_subs_for_sub_decl
  <2>2. DOMAIN l = Indexes
    BY <1>0, <1>a DEF Tables, Map
  <2>3. ToSet(s.used) = Used(s) /\ \A i \in Used(s) : s.ress[i].committed
    BY <1>0, <1>a, OwnIsSound, SoundIs, OwnIs
  <2>4. \A i \in Used(s) : C(i) <=> UrisMatch(geturi_for_rid(s, rid), {US!UriOf(s, i)})
    BY <2>3
  <2>5. \A i \in Indexes \ Used(s) : ~ C(i)
    BY <2>3
  <2> HIDE DEF C
  <2>a. PICK f : f = [i \in DOMAIN l |-> IF C(i) THEN Append(l[i], k) ELSE l[i]]
    OBVIOUS
  <2>6. l2 = f
    BY <1>0, <1>e, <2>1, <2>a DEF Tables
  <2>7. \A i \in Indexes : f[i] = IF C(i) THEN Append(l[i], k) ELSE l[i]
    BY <2>2, <2>a
  <2>8. Used(s) \subseteq Indexes
    BY DEF Used
  <2> QED
    BY <2>4, <2>5, <2>6, <2>7, <2>8
<1>10. ASSUME NEW us
       PROVE  {i \in DOMAIN subs' : UrisMatch(geturi_for_rid(s, subs'[i].rid), us)}
                = IF UrisMatch(geturi_for_rid(s, rid), us) THEN Matched(s, us) \cup {k} ELSE Matched(s, us)
  <2>1. subs'[k].rid = rid
    BY <1>5, <1>c
  <2>2. \A i \in DOMAIN subs : subs'[i].rid = subs[i].rid
    BY <1>2, <1>5
  <2> QED
    BY <1>2, <1>6, <2>1, <2>2 DEF Matched
<1>11. ASSUME NEW i \in Used(s)
       PROVE  GoodList(l2[i], {j \in DOMAIN subs' : UrisMatch(geturi_for_rid(s, subs'[j].rid), {US!UriOf(s, i)})})
  <2>a. PICK us : us = {US!UriOf(s, i)}
    OBVIOUS
  <2>1. GoodList(l[i], Matched(s, us))
    BY <1>0, <1>a, <2>a DEF ListsOK
  <2>2. k \notin Matched(s, us)
    BY <1>2 DEF Matched
  <2>3. GoodList(Append(l[i], k), Matched(s, us) \cup {k})
    BY <1>2, <2>1, <2>2, GoodAppend
  <2> QED
    BY <1>9, <1>10, <2>1, <2>3, <2>a
<1>12. \A i \in Indexes \ Used(s) : l2[i] = <<>>
  BY <1>0, <1>9, <1>a DEF ListsOK
<1>13. ListsOK'
  BY <1>1, <1>8, <1>11, <1>12, <1>e DEF ListsOK, Matched
<1> QED
  BY <1>7, <1>13 DEF DataOK

LEMMA InitData == Init => DataOK
<1> SUFFICES ASSUME Init PROVE DataOK
  OBVIOUS
<1>1. subs = <<>> /\ node.residx2sub = [i \in Indexes |-> <<>>]
  BY DEF Init, Indexes
<1>2. MAX_SUBSCRIPTIONS \in Nat
  BY PubSubAssumption
<1>3. SubsFit
  BY <1>1, <1>2 DEF SubsFit
<1>4. Used(node.store) = {} /\ \A i \in Indexes : node.residx2sub[i] = <<>>
  BY <1>1, OwnInit
<1> QED
  BY <1>3, <1>4, InitCounts DEF DataOK, ListsOK

LEMMA NextData == Orderly => (DataOK /\ [Next]_vars => DataOK')
<1> SUFFICES ASSUME Orderly, DataOK, [Next]_vars PROVE DataOK'
  OBVIOUS
<1>0. CountsOK' /\ Tables(node)
  BY NextCounts DEF DataOK, CountsOK, TablesOK
<1>1. ASSUME NEW p \in Peers, NEW msg \in Messages[p], NEW room, handle_mdeclare(p, msg, room)
      PROVE  DataOK'
  BY <1>0, <1>1, MdeclareLeads, LeftData
<1>2. ASSUME NEW p \in Peers, reset_peer(p) PROVE DataOK'
  BY <1>0, <1>2, ResetPeerLeads, LeftData
<1>3. ASSUME NEW r \in Resources, zhe_declare_resource(r[1], r[2]) PROVE DataOK'
  BY <1>0, <1>3, DeclareData
<1>4. ASSUME NEW rid \in OwnRids, zhe_publish(rid) PROVE DataOK'
  BY <1>0, <1>4, PublishData
<1>5. ASSUME NEW rid \in OwnRids, zhe_subscribe(rid) PROVE DataOK'
  BY <1>0, <1>5, SubscribeData
<1>6. CASE UNCHANGED vars
  BY <1>0, <1>6 DEF DataOK, SubsFit, ListsOK, Matched, vars
<1> QED
  BY <1>1, <1>2, <1>3, <1>4, <1>5, <1>6 DEF Next

-----------------------------------------------------------------------------
(* Delivery. *)

LEMMA SameSum == ASSUME NEW f, NEW S PROVE SumFunctionOnSet(f, S) = USP!Sum(f, S)
BY DEF SumFunctionOnSet, FoldFunctionOnSet, MapThenFoldSet,
       USP!Sum, USP!SumFunctionOnSet, USP!FoldFunctionOnSet, USP!MapThenFoldSet

Numbered(f, S) == IsFiniteSet(S) /\ \A x \in S : f[x] \in Nat

LEMMA SumNat == ASSUME NEW f, NEW S, Numbered(f, S) PROVE USP!Sum(f, S) \in Nat
<1>1. USP!IsFiniteSet(S) /\ \A x \in S : f[x] \in Nat
  BY DEF Numbered, IsFiniteSet, USP!IsFiniteSet
<1> QED
  BY <1>1, USP!SumType, SA, BA

LEMMA SumLess ==
  ASSUME NEW f, NEW S, Numbered(f, S), NEW y \in S
  PROVE  USP!Sum(f, S) = f[y] + USP!Sum(f, S \ {y})
<1>1. USP!IsFiniteSet(S) /\ \A x \in S : f[x] \in Nat
  BY DEF Numbered, IsFiniteSet, USP!IsFiniteSet
<1> QED
  BY <1>1, USP!SumWithout, SA, BA

LEMMA SumNone == ASSUME NEW f PROVE USP!Sum(f, {}) = 0
BY USP!SumEmpty, SA, BA

LEMMA FiniteUpTo == ASSUME NEW k \in Nat PROVE IsFiniteSet(1 .. k) /\ Cardinality(1 .. k) = k
<1>1. 1 \in Int /\ k \in Int
  OBVIOUS
<1>2. IsFiniteSet(1 .. k) /\ Cardinality(1 .. k) = IF 1 > k THEN 0 ELSE k - 1 + 1
  BY <1>1, FS_Interval
<1> QED
  BY <1>2

LEMMA FewerNumbered == ASSUME NEW f, NEW S, Numbered(f, S), NEW T, T \subseteq S PROVE Numbered(f, T)
<1>1. IsFiniteSet(T)
  BY FS_Subset DEF Numbered
<1> QED
  BY <1>1 DEF Numbered

\* the values of f at the members of a list without repetitions, and the others
LEMMA SumOfList ==
  ASSUME NEW f, NEW D, Numbered(f, D), NEW N \in Nat,
         NEW l, \A i \in 1 .. N : l[i] \in D,
         \A i, j \in 1 .. N : l[i] = l[j] => i = j,
         NEW h, Numbered(h, 1 .. N), \A i \in 1 .. N : h[i] <= f[l[i]]
  PROVE  USP!Sum(h, 1 .. N) <= USP!Sum(f, D)
<1> DEFINE L(k) == {l[i] : i \in 1 .. k}
           R(k) == D \ L(k)
           H(k) == USP!Sum(h, 1 .. k)
           F(k) == USP!Sum(f, R(k))
           all == USP!Sum(f, D)
           S == {k \in 0 .. N : H(k) + F(k) <= all}
<1>0. \A k \in 0 .. N : H(k) \in Nat /\ F(k) \in Nat
  <2> SUFFICES ASSUME NEW k \in 0 .. N PROVE H(k) \in Nat /\ F(k) \in Nat
    OBVIOUS
  <2>1. 1 .. k \subseteq 1 .. N
    OBVIOUS
  <2>2. Numbered(h, 1 .. k) /\ Numbered(f, R(k))
    BY <2>1, FewerNumbered
  <2> QED
    BY <2>2, SumNat
<1>1. all \in Nat
  BY SumNat
<1>2. 0 \in S
  <2>1. 1 .. 0 = {} /\ R(0) = D
    OBVIOUS
  <2>2. H(0) = 0 /\ F(0) = all
    BY <2>1, SumNone
  <2> HIDE DEF H, F, all
  <2> QED
    BY <1>1, <2>2
<1>3. ASSUME NEW k \in 1 .. N, k - 1 \in S PROVE k \in S
  <2>1. H(k) = h[k] + H(k - 1)
    <3>1. 1 .. k \subseteq 1 .. N
      OBVIOUS
    <3>2. Numbered(h, 1 .. k)
      BY <3>1, FewerNumbered
    <3>3. k \in 1 .. k /\ (1 .. k) \ {k} = 1 .. k - 1
      OBVIOUS
    <3>4. USP!Sum(h, 1 .. k) = h[k] + USP!Sum(h, (1 .. k) \ {k})
      BY <3>2, <3>3, SumLess
    <3> QED
      BY <3>3, <3>4
  <2>2. F(k - 1) = f[l[k]] + F(k)
    <3>1. Numbered(f, R(k - 1))
      BY FewerNumbered
    <3>2. l[k] \notin L(k - 1)
      <4> SUFFICES ASSUME NEW i \in 1 .. k - 1, l[i] = l[k] PROVE FALSE
        OBVIOUS
      <4>1. i \in 1 .. N /\ i # k
        OBVIOUS
      <4> QED
        BY <4>1
    <3>3. L(k) = L(k - 1) \cup {l[k]}
      <4>1. \A i : i \in 1 .. k <=> (i \in 1 .. k - 1 \/ i = k)
        OBVIOUS
      <4> QED
        BY <4>1
    <3>4. l[k] \in R(k - 1) /\ R(k - 1) \ {l[k]} = R(k)
      BY <3>2, <3>3
    <3> HIDE DEF R, L
    <3>5. USP!Sum(f, R(k - 1)) = f[l[k]] + USP!Sum(f, R(k - 1) \ {l[k]})
      BY <3>1, <3>4, SumLess
    <3> QED
      BY <3>4, <3>5
  <2>3. h[k] \in Nat /\ f[l[k]] \in Nat /\ h[k] <= f[l[k]]
    BY DEF Numbered
  <2>4. k \in 0 .. N /\ k - 1 \in 0 .. N
    OBVIOUS
  <2> HIDE DEF H, F, all
  <2>5. H(k - 1) + F(k - 1) <= all
    BY <1>3
  <2>6. PICK a, b, c, d : a = H(k) /\ b = H(k - 1) /\ c = F(k) /\ d = F(k - 1)
    OBVIOUS
  <2>7. a \in Nat /\ b \in Nat /\ c \in Nat /\ d \in Nat
    BY <1>0, <2>4, <2>6
  <2>8. b + d <= all /\ a = h[k] + b /\ d = f[l[k]] + c
    BY <2>1, <2>2, <2>5, <2>6
  <2>9. PICK u, v, w : u = h[k] /\ v = f[l[k]] /\ w = all
    OBVIOUS
  <2>10. a + c <= w
    <3>1. u \in Nat /\ v \in Nat /\ w \in Nat /\ u <= v
      BY <1>1, <2>3, <2>9
    <3>2. b + d <= w /\ a = u + b /\ d = v + c
      BY <2>8, <2>9
    <3> QED
      BY <3>1, <3>2, <2>7
  <2> QED
    BY <2>4, <2>6, <2>9, <2>10
<1>4. N \in S
  <2>1. S \subseteq 0 .. N
    OBVIOUS
  <2> HIDE DEF S
  <2>2. N \in 0 .. N
    OBVIOUS
  <2> QED
    BY <1>2, <1>3, <2>1, <2>2, USP!NatInSet, SA, BA
<1>5. H(N) + F(N) <= all
  BY <1>4
<1>6. H(N) \in Nat /\ F(N) \in Nat
  BY <1>0
<1> HIDE DEF F, all
<1>7. H(N) <= all
  <2> HIDE DEF H
  <2> QED
    BY <1>1, <1>5, <1>6
<1> QED
  BY <1>7 DEF all

\* With plenty of room every list of subscriptions without repetitions is called.
LEMMA PlentyFits ==
  ASSUME NEW l, NEW K, GoodList(l, K), K \subseteq 1 .. MAX_SUBSCRIPTIONS
  PROVE  CallAllOrNone(l, Plenty) = l
<1> SUFFICES ASSUME NEW cid \in Cids PROVE Needed(l, cid) <= Plenty[cid]
  BY DEF CallAllOrNone, AllFit
<1> DEFINE D == 1 .. MAX_SUBSCRIPTIONS
<1> PICK h : h = [i \in DOMAIN l |-> IF XmitCid[l[i]] = cid THEN XmitNeed[l[i]] ELSE 0]
  OBVIOUS
<1> PICK N : N = Len(l)
  OBVIOUS
<1>1. N \in Nat /\ DOMAIN l = 1 .. N
  BY DEF GoodList
<1>a. XmitNeed \in [D -> Nat] /\ MAX_SUBSCRIPTIONS \in Nat
  BY PubSubAssumption
<1>b. Numbered(XmitNeed, D)
  BY <1>a, FiniteUpTo DEF Numbered
<1>2. \A i \in 1 .. N : l[i] \in D
  BY <1>1 DEF GoodList, ToSet
<1>3. \A i, j \in 1 .. N : l[i] = l[j] => i = j
  BY <1>1 DEF GoodList, IsInjective
<1>4. h \in [1 .. N -> Nat] /\ \A i \in 1 .. N : h[i] <= XmitNeed[l[i]]
  <2>1. \A i \in 1 .. N : XmitNeed[l[i]] \in Nat /\ XmitNeed[l[i]] <= XmitNeed[l[i]] /\ 0 <= XmitNeed[l[i]]
    BY <1>a, <1>2
  <2> QED
    BY <1>1, <2>1
<1>c. Numbered(h, 1 .. N)
  BY <1>1, <1>4, FiniteUpTo DEF Numbered
<1>5. USP!Sum(h, 1 .. N) <= USP!Sum(XmitNeed, D)
  BY <1>1, <1>b, <1>c, <1>2, <1>3, <1>4, SumOfList
<1>6. Needed(l, cid) = USP!Sum(h, 1 .. N)
  <2>1. DOMAIN h = 1 .. N
    BY <1>1
  <2>2. Needed(l, cid) = SumFunctionOnSet(h, 1 .. N)
    BY <2>1 DEF Needed, SumFunction
  <2> QED
    BY <2>2, SameSum
<1>7. Plenty[cid] = USP!Sum(XmitNeed, D)
  <2>1. DOMAIN XmitNeed = D
    BY <1>a
  <2>2. Plenty[cid] = SumFunctionOnSet(XmitNeed, D)
    BY <2>1 DEF Plenty, SumFunction
  <2> QED
    BY <2>2, SameSum
<1> QED
  BY <1>5, <1>6, <1>7

\* the first subscription to a number is called on its own
LEMMA AnonDelivered ==
  ASSUME DataOK, NEW rid
  PROVE  \E l : GoodList(l, rid2sub(rid)) /\ zhe_handle_msdata_deliver_anon(rid, Plenty) = l
<1>1. Len(subs) \in Nat /\ DOMAIN subs = 1 .. Len(subs)
  BY LenSubs DEF DataOK
<1>2. CASE rid2sub(rid) = {}
  <2>1. zhe_handle_msdata_deliver_anon(rid, Plenty) = <<>>
    BY <1>2 DEF zhe_handle_msdata_deliver_anon
  <2> QED
    BY <1>2, <2>1, GoodEmpty
<1>3. CASE rid2sub(rid) # {}
  <2>1. PICK k \in rid2sub(rid) : TRUE
    BY <1>3
  <2>2. /\ k \in 1 .. Len(subs) /\ k \in Nat /\ subs[k].rid = rid
        /\ \A j \in 1 .. k - 1 : subs[j].rid # rid
    BY <1>1, <2>1 DEF rid2sub
  <2>3. ASSUME NEW j \in rid2sub(rid) PROVE j = k
    <3>1. /\ j \in 1 .. Len(subs) /\ subs[j].rid = rid
          /\ \A i \in 1 .. j - 1 : subs[i].rid # rid
      BY <1>1, <2>3 DEF rid2sub
    <3>2. ~ (k \in 1 .. j - 1) /\ ~ (j \in 1 .. k - 1)
      BY <2>2, <3>1
    <3> QED
      BY <1>1, <2>2, <3>1, <3>2
  <2>4. rid2sub(rid) = {k}
    BY <2>1, <2>3
  <2>5. subs[k].next = k
    BY <2>2 DEF DataOK, SubsFit
  <2>6. (CHOOSE j \in rid2sub(rid) : TRUE) = k
    BY <2>4
  <2>7. zhe_handle_msdata_deliver_anon(rid, Plenty) = CallAllOrNone(<<k>>, Plenty)
    BY <1>3, <2>5, <2>6 DEF zhe_handle_msdata_deliver_anon
  <2>8. GoodList(<<k>>, {k})
    <3>1. GoodList(Append(<<>>, k), {} \cup {k})
      BY <2>2, GoodEmpty, GoodAppend
    <3>2. Append(<<>>, k) = <<k>> /\ {} \cup {k} = {k}
      OBVIOUS
    <3> QED
      BY <3>1, <3>2
  <2>9. k \in 1 .. MAX_SUBSCRIPTIONS
    BY <1>1, <2>2, PubSubAssumption DEF DataOK, SubsFit
  <2>10. CallAllOrNone(<<k>>, Plenty) = <<k>>
    BY <2>8, <2>9, PlentyFits
  <2> QED
    BY <2>4, <2>7, <2>8, <2>10
<1> QED
  BY <1>2, <1>3

\* names match in both directions
LEMMA MatchSymmetric ==
  ASSUME NEW us, us \subseteq Uris, NEW vs, vs \subseteq Uris
  PROVE  UrisMatch(us, vs) <=> UrisMatch(vs, us)
<1>1. \A u, v \in Uris : <<u, v>> \in UriMatches <=> <<v, u>> \in UriMatches
  BY PubSubAssumption
<1> QED
  BY <1>1 DEF UrisMatch

LEMMA NamesAreUris == ASSUME NEW s, Own(s), NEW rid PROVE geturi_for_rid(s, rid) \subseteq Uris
<1>1. geturi_for_rid(s, rid) = {US!UriOf(s, i) : i \in {j \in Used(s) : s.ress[j].rid = rid}}
  BY NamesIs
<1>2. \A i \in Used(s) : US!UriOf(s, i) \in Uris
  BY OwnIs
<1> QED
  BY <1>1, <1>2

\* data for a number calls the subscriptions that it is meant for, each once
LEMMA Delivered ==
  ASSUME DataOK, NEW rid
  PROVE  \E l : GoodList(l, Addressed(rid)) /\ zhe_handle_msdata_deliver(rid, Plenty) = l
<1> PICK s : s = node.store
  OBVIOUS
<1>1. Own(s) /\ Sound(s) /\ Len(subs) \in Nat /\ DOMAIN subs = 1 .. Len(subs)
  BY LenSubs, OwnIsSound DEF DataOK, CountsOK, TablesOK, Tables
<1> DEFINE E == {j \in Used(s) : s.ress[j].rid = rid}
<1>2. US!lookup_rid(s, rid) = E /\ geturi_for_rid(s, rid) = {US!UriOf(s, i) : i \in E}
  BY <1>1, SoundIs, NamesIs
<1>3. CASE E = {}
  <2>1. zhe_handle_msdata_deliver(rid, Plenty) = zhe_handle_msdata_deliver_anon(rid, Plenty)
    BY <1>2, <1>3 DEF zhe_handle_msdata_deliver
  <2>2. Addressed(rid) = rid2sub(rid)
    BY <1>2, <1>3 DEF Addressed
  <2> QED
    BY <2>1, <2>2, AnonDelivered
<1>4. CASE E # {}
  <2>1. PICK i \in E : TRUE
    BY <1>4
  <2>2. E = {i}
    BY <1>1, <2>1, SoundIs
  <2>3. i \in Used(s) /\ geturi_for_rid(s, rid) = {US!UriOf(s, i)}
    BY <1>2, <2>1, <2>2
  <2>a. PICK us : us = {US!UriOf(s, i)}
    OBVIOUS
  <2>b. PICK l : l = node.residx2sub[i]
    OBVIOUS
  <2>4. GoodList(l, Matched(s, us))
    BY <2>3, <2>a, <2>b DEF DataOK, ListsOK
  <2>5. Matched(s, us) \subseteq 1 .. MAX_SUBSCRIPTIONS
    <3>1. Len(subs) <= MAX_SUBSCRIPTIONS /\ MAX_SUBSCRIPTIONS \in Nat
      BY PubSubAssumption DEF DataOK, SubsFit
    <3>2. 1 .. Len(subs) \subseteq 1 .. MAX_SUBSCRIPTIONS
      BY <1>1, <3>1
    <3> QED
      BY <1>1, <3>2 DEF Matched
  <2>6. CallAllOrNone(l, Plenty) = l
    BY <2>4, <2>5, PlentyFits
  <2>7. zhe_handle_msdata_deliver(rid, Plenty) = l
    <3>1. (CHOOSE j \in E : TRUE) = i
      BY <2>2
    <3> QED
      BY <1>2, <1>4, <2>6, <2>b, <3>1 DEF zhe_handle_msdata_deliver
  <2>8. Addressed(rid) = Matched(s, us)
    <3>1. \A k \in DOMAIN subs : UrisMatch(us, geturi_for_rid(s, subs[k].rid))
                                   <=> UrisMatch(geturi_for_rid(s, subs[k].rid), us)
      BY <1>1, <2>3, <2>a, NamesAreUris, MatchSymmetric
    <3>2. geturi_for_rid(s, rid) = us /\ us # {}
      BY <2>3, <2>a
    <3> QED
      BY <3>1, <3>2 DEF Addressed, Matched
  <2> QED
    BY <2>4, <2>7, <2>8
<1> QED
  BY <1>3, <1>4

\* a set of numbers with all below its members is the first of them
LEMMA DownClosed ==
  ASSUME NEW N \in Nat, NEW M, M \subseteq 1 .. N, \A k \in M : 1 .. k \subseteq M
  PROVE  \E m \in Nat : M = 1 .. m /\ Cardinality(M) = m /\ m <= N
<1> DEFINE S == {n \in Nat : n >= 1 /\ n \notin M}
<1>1. N + 1 \in S
  OBVIOUS
<1>2. S \subseteq Nat /\ S # {}
  BY <1>1
<1>3. PICK n \in S : \A j \in S : n <= j
  <2> HIDE DEF S
  <2> QED
    BY <1>2, USP!NatHasMin, SA, BA
<1>4. n - 1 \in Nat /\ n <= N + 1
  BY <1>1, <1>3
<1>5. M = 1 .. n - 1
  <2>1. ASSUME NEW k \in M PROVE k \in 1 .. n - 1
    <3>1. k \in Nat /\ k >= 1 /\ ~ (n \in 1 .. k)
      BY <1>3, <2>1
    <3> QED
      BY <1>3, <3>1
  <2>2. ASSUME NEW k \in 1 .. n - 1 PROVE k \in M
    BY <1>3, <2>2
  <2> QED
    BY <2>1, <2>2
<1>6. Cardinality(1 .. n - 1) = n - 1
  BY <1>4, FiniteUpTo
<1> QED
  BY <1>4, <1>5, <1>6

\* data with a name calls as many of the first subscriptions as there are matches
LEMMA NamedDelivered ==
  ASSUME DataOK, NEW uri, NEW M, \A k \in M : 1 .. k \subseteq M,
         M = {k \in DOMAIN subs : UrisMatch({uri}, geturi_for_rid(node.store, subs[k].rid))}
  PROVE  Called(zhe_handle_mwdata_deliver(uri, Plenty)) = M
<1>1. Len(subs) \in Nat /\ DOMAIN subs = 1 .. Len(subs)
  BY LenSubs DEF DataOK
<1>2. M \subseteq 1 .. Len(subs)
  BY <1>1
<1>3. PICK m \in Nat : M = 1 .. m /\ Cardinality(M) = m /\ m <= Len(subs)
  BY <1>1, <1>2, DownClosed
<1>a. PICK l : l = [k \in 1 .. m |-> k]
  OBVIOUS
<1>4. zhe_handle_mwdata_deliver(uri, Plenty) = CallAllOrNone(l, Plenty)
  BY <1>3, <1>a DEF zhe_handle_mwdata_deliver
<1>5. GoodList(l, M)
  <2>1. l \in Seq(Nat) /\ DOMAIN l = 1 .. m /\ \A k \in 1 .. m : l[k] = k
    BY <1>a
  <2>2. IsInjective(l)
    BY <2>1 DEF IsInjective
  <2>3. ToSet(l) = M
    <3>1. ToSet(l) = {l[k] : k \in 1 .. m}
      BY <2>1 DEF ToSet
    <3>2. \A k \in 1 .. m : l[k] = k
      BY <2>1
    <3>3. ASSUME NEW x \in 1 .. m PROVE x \in {l[k] : k \in 1 .. m}
      BY <3>2, <3>3
    <3>4. ASSUME NEW x \in {l[k] : k \in 1 .. m} PROVE x \in 1 .. m
      <4>1. PICK k \in 1 .. m : x = l[k]
        BY <3>4
      <4> QED
        BY <3>2, <4>1
    <3> QED
      BY <1>3, <3>1, <3>3, <3>4
  <2> QED
    BY <2>1, <2>2, <2>3 DEF GoodList
<1>6. M \subseteq 1 .. MAX_SUBSCRIPTIONS
  BY <1>1, <1>3, PubSubAssumption DEF DataOK, SubsFit
<1>7. CallAllOrNone(l, Plenty) = l
  BY <1>5, <1>6, PlentyFits
<1> QED
  BY <1>4, <1>5, <1>7 DEF GoodList, Called

LEMMA DataIsDelivered == DataOK => DataToSubscribers
<1> SUFFICES ASSUME DataOK PROVE DataToSubscribers
  OBVIOUS
<1>1. ASSUME NEW rid \in OwnRids
      PROVE  LET list == zhe_handle_msdata_deliver(rid, Plenty)
             IN  IsInjective(list) /\ Called(list) = Addressed(rid)
  BY Delivered DEF GoodList, Called
<1>2. ASSUME NEW uri \in ValidUris
      PROVE  LET matching == {k \in DOMAIN subs : UrisMatch({uri}, geturi_for_rid(node.store, subs[k].rid))}
             IN  (\A k \in matching : 1 .. k \subseteq matching)
                   => Called(zhe_handle_mwdata_deliver(uri, Plenty)) = matching
  BY NamedDelivered
<1> QED
  BY <1>1, <1>2 DEF DataToSubscribers

\* Data reaches the subscriptions that it is meant for, each once, whatever the
\* order in which they and the resources came: the lists that
\* zhe_update_subs_for_resource_decl and zhe_update_subs_for_sub_decl keep are
\* those of the names that match, for every node whose resources are Orderly.
THEOREM DataReachesSubscribers == Orderly => (Spec => []DataToSubscribers)
<1> SUFFICES ASSUME Orderly PROVE Spec => []DataToSubscribers
  OBVIOUS
<1>1. Init => DataOK
  BY InitData
<1>2. DataOK /\ [Next]_vars => DataOK'
  BY NextData
<1>3. DataOK => DataToSubscribers
  BY DataIsDelivered
<1> QED
  BY <1>1, <1>2, <1>3, PTL DEF Spec


\* The list of a resource never outgrows its array, so that the assertion of
\* zhe-arylist holds, as long as the resources are Orderly.
THEOREM ListsHaveRoom == Orderly => (Spec => []ListsFit)
<1> SUFFICES ASSUME Orderly PROVE Spec => []ListsFit
  OBVIOUS
<1>1. Init => DataOK
  BY InitData
<1>2. DataOK /\ [Next]_vars => DataOK'
  BY NextData
<1>3. ASSUME DataOK PROVE ListsFit
  <2> SUFFICES ASSUME NEW i \in Indexes PROVE Len(node.residx2sub[i]) <= MAX_SUBSCRIPTIONS
    BY DEF ListsFit, Indexes
  <2> PICK l : l = node.residx2sub[i]
    OBVIOUS
  <2>1. /\ Len(subs) \in Nat /\ DOMAIN subs = 1 .. Len(subs)
        /\ Len(subs) <= MAX_SUBSCRIPTIONS /\ MAX_SUBSCRIPTIONS \in Nat
    BY <1>3, LenSubs, PubSubAssumption DEF DataOK, SubsFit
  <2>2. CASE i \in Used(node.store)
    <3> PICK K : K = Matched(node.store, {US!UriOf(node.store, i)})
      OBVIOUS
    <3>1. GoodList(l, K)
      BY <1>3, <2>2 DEF DataOK, ListsOK
    <3>2. K \subseteq 1 .. Len(subs)
      BY <2>1 DEF Matched
    <3>a. l \in Seq(Nat) /\ ToSet(l) = K
      BY <3>1 DEF GoodList
    <3>b. Len(l) \in Nat /\ DOMAIN l = 1 .. Len(l) /\ l = [j \in 1 .. Len(l) |-> l[j]]
      BY <3>a
    <3>c. \A j \in 1 .. Len(l) : l[j] \in K
      BY <3>a, <3>b DEF ToSet
    <3>3. Len(l) \in Nat /\ DOMAIN l = 1 .. Len(l) /\ l \in [1 .. Len(l) -> K]
      BY <3>b, <3>c
    <3>4. l \in Injection(1 .. Len(l), 1 .. Len(subs))
      BY <3>1, <3>2, <3>3 DEF GoodList, Injection, IsInjective
    <3>5. Cardinality(1 .. Len(l)) <= Cardinality(1 .. Len(subs))
      BY <2>1, <3>4, FiniteUpTo, FS_Injection
    <3>6. Len(l) <= Len(subs)
      BY <2>1, <3>3, <3>5, FiniteUpTo
    <3> QED
      BY <2>1, <3>3, <3>6
  <2>3. CASE i \notin Used(node.store)
    <3>1. l = <<>>
      BY <1>3, <2>3 DEF DataOK, ListsOK
    <3> QED
      BY <2>1, <3>1
  <2> QED
    BY <2>2, <2>3
<1> QED
  BY <1>1, <1>2, <1>3, PTL DEF Spec
=============================================================================
