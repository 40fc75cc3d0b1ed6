---------------------------- MODULE DASRetrieval ----------------------------
(***************************************************************************)
(* How data kept by a committee is got back: the names and certificates of *)
(* batches, and the reading from several servers.                          *)
(***************************************************************************)
EXTENDS Integers, Sequences, SequencesExt, FiniteSets, FiniteSetsExt

(***************************************************************************)
(* How a batch kept by the data availability committee is named, certified *)
(* and read back.                                                          *)
(*                                                                         *)
(* das/dastree cuts the data into bins and names it by the root of a hash  *)
(* tree over them; the replay binary gets the data back from the root and  *)
(* an oracle for preimages.  arbstate recovers the payload of a batch from *)
(* the certificate the committee signed, and records the preimages that    *)
(* the replay of the batch will need.  A hash is modelled as an injective  *)
(* constructor.  A behaviour is one batch: chosen, recovered by the node,  *)
(* replayed.                                                               *)
(***************************************************************************)

CONSTANTS BinSize,         \* 64 kB in the code, a power of two
          TreeInputs,      \* the batch payloads
          TreeKeys,        \* the committee has the keys 1 .. TreeKeys
          MinLifetime,     \* MinLifetimeSecondsForDataAvailabilityCert
          TreeTimeouts     \* the timeouts of certificates

VARIABLES batch,           \* the batch: certificate, payload, how the store names it
          recovered,       \* what the node got for the batch, and the preimages it recorded
          replayed         \* what the replay binary got

tvars == <<batch, recovered, replayed>>

LeafByte == 254
NodeByte == 255
-----------------------------------------------------------------------------
(* The hash tree.                                                          *)

Keccak256(v) == [kind |-> "keccak", of |-> v]
FlipBit(h) == IF h.kind = "flipped" THEN h.of ELSE [kind |-> "flipped", of |-> h]

Raw(bytes) == [kind |-> "raw", bytes |-> bytes]
LeafValue(h) == [kind |-> "leaf", hash |-> h]
NodeValue(l, r, size) == [kind |-> "node", left |-> l, right |-> r, size |-> size]

\* The data in bins; no data is one empty bin.
Bins(x) ==
  IF x = <<>> THEN <<<<>>>>
  ELSE [i \in 1 .. (Len(x) + BinSize - 1) \div BinSize |-> SubSeq(x, (i - 1) * BinSize + 1, Min({i * BinSize, Len(x)}))]

\* A place in a layer: its hash, its size, and the preimages recorded under it.
LeafOf(bin) ==
  LET h == Keccak256(Raw(bin))
  IN  [hash |-> Keccak256(LeafValue(h)), size |-> Len(bin), under |-> {Raw(bin), LeafValue(h)}]

ParentOf(l, r) ==
  LET v == NodeValue(l.hash, r.hash, l.size + r.size)
  IN  [hash |-> Keccak256(v), size |-> l.size + r.size, under |-> l.under \cup r.under \cup {v}]

\* Neighbours are paired; an odd one out moves up as it is.
Paired(layer) ==
  LET prior == Len(layer)
  IN  [i \in 1 .. (prior \div 2) + (prior % 2) |-> IF 2 * i <= prior THEN ParentOf(layer[2 * i - 1], layer[2 * i]) ELSE layer[prior]]

RECURSIVE TopOf(_)
TopOf(layer) == IF Len(layer) = 1 THEN layer[1] ELSE TopOf(Paired(layer))

\* RecordHash: the root and what was recorded.
RecordHash(x) ==
  LET bins == Bins(x)
      top == TopOf([i \in DOMAIN bins |-> LeafOf(bins[i])])
  IN  [root |-> FlipBit(top.hash), recorded |-> top.under]
TreeHash(x) == RecordHash(x).root

FlatHashToTreeLeaf(flat) == LeafValue(flat)
FlatHashToTreeHash(flat) == FlipBit(Keccak256(FlatHashToTreeLeaf(flat)))

\* ValidHash also takes a flat hash, unless the data could be taken for a node or a leaf.
ValidHash(hash, x) ==
  \/ hash = TreeHash(x)
  \/ x # <<>> /\ Head(x) \notin {NodeByte, LeafByte} /\ hash = Keccak256(Raw(x))
-----------------------------------------------------------------------------
(* Reading a tree back from an oracle, a set of known preimages.           *)

Failed == [ok |-> FALSE]
Got(x) == [ok |-> TRUE, data |-> x]

Oracle(known, hash) == {v \in known : Keccak256(v) = hash}
\* unpeal: raw bytes are neither a leaf nor a node (their sizes differ).
Unpeal(known, hash) == {v \in Oracle(known, hash) : v.kind \in {"leaf", "node"}}

RECURSIVE NextOrCurrentPowerOf2(_)
NextOrCurrentPowerOf2(n) == IF n <= 1 THEN 1 ELSE 2 * NextOrCurrentPowerOf2((n + 1) \div 2)

\* The left subtree is the largest power of two below the size.
PriorSize(count) == NextOrCurrentPowerOf2(count) \div 2

\* The loop over the stack: the leaves from left to right, or nothing if a size is wrong or
\* a preimage is missing.
RECURSIVE LeavesUnder(_, _, _)
LeavesUnder(known, stack, leaves) ==
  IF stack = <<>> THEN {leaves}
  ELSE LET place == Last(stack)
           rest == Front(stack)
       IN  UNION {IF v.kind = "leaf" THEN LeavesUnder(known, rest, Append(leaves, [hash |-> v.hash, size |-> place.size]))
                  ELSE IF place.size # v.size THEN {}
                  ELSE LeavesUnder(known, rest \o <<[hash |-> v.right, size |-> v.size - PriorSize(v.size)],
                                                    [hash |-> v.left, size |-> PriorSize(v.size)]>>, leaves)
                  : v \in Unpeal(known, place.hash)}

\* A bin must have the size the tree says.
RightBins(known, leaves) ==
  \A l \in Range(leaves) : \E v \in Oracle(known, l.hash) : v.kind = "raw" /\ Len(v.bytes) = l.size
BytesOf(known, hash) == (CHOOSE v \in Oracle(known, hash) : TRUE).bytes

\* Content: a single leaf is taken as it is; a larger tree must have the right sizes and
\* hash to the root again.
Content(known, root) ==
  LET start == FlipBit(root)
      whole == {FlattenSeq([i \in DOMAIN ls |-> BytesOf(known, ls[i].hash)]) : ls \in
                  {ls \in UNION {LeavesUnder(known, <<[hash |-> start, size |-> v.size]>>, <<>>) : v \in
                                   {v \in Unpeal(known, start) : v.kind = "node"}} : RightBins(known, ls)}}
      flat == {BytesOf(known, v.hash) : v \in {v \in Unpeal(known, start) : v.kind = "leaf" /\ Oracle(known, v.hash) # {}}}
      all == flat \cup {x \in whole : TreeHash(x) = root}
  IN  IF all = {} THEN Failed ELSE Got(CHOOSE x \in all : TRUE)
-----------------------------------------------------------------------------
(* Certificates.  A keyset is data like any other, here a sequence that    *)
(* starts with a 0: the number of members assumed honest, and the number   *)
(* of keys; anything else does not deserialize.                            *)

KeysetBytes(honest, keys) == <<0, honest, keys>>
DeserializeKeyset(x) ==
  IF Len(x) = 3 /\ x[1] = 0 /\ x[3] <= TreeKeys THEN [ok |-> TRUE, honest |-> x[2], keys |-> 1 .. x[3]] ELSE Failed

\* VerifySignature wants fewer members not to have signed than are assumed honest.
EnoughSigners(nonSigners, honest) == nonSigners < honest

\* The signature is over the data's hash and the timeout, by the members in signed.
VerifySignature(keyset, cert) ==
  LET claimed == keyset.keys \cap cert.signersMask
  IN  EnoughSigners(Cardinality(keyset.keys \ claimed), keyset.honest) /\ cert.signed = claimed

\* The stores keep data under its tree hash, old ones under its flat hash.
Name(version, x) == IF version = 0 THEN Keccak256(Raw(x)) ELSE TreeHash(x)
Stored(b, hash) ==
  LET mine == {x \in b.held : hash \in {TreeHash(x)} \cup (IF b.flat THEN {Keccak256(Raw(x))} ELSE {})}
  IN  IF mine = {} THEN Failed ELSE Got(CHOOSE x \in mine : TRUE)

\* The data availability reader: the stores in the node, the recorded preimages in the replay binary.
FromStores(b) == [kind |-> "stores", stores |-> b]
FromPreimages(known) == [kind |-> "preimages", known |-> known]
Read(reader, hash) ==
  IF reader.kind = "stores" THEN Stored(reader.stores, hash) ELSE Content(reader.known, hash)

\* getByHash of RecoverPayloadFromDasBatch.
GetByHash(reader, version, hash) ==
  LET tree == IF version = 0 THEN FlatHashToTreeHash(hash) ELSE hash
      first == Read(reader, tree)
      got == IF ~first.ok /\ tree # hash THEN Read(reader, hash) ELSE first
  IN  IF ~got.ok THEN Failed
      ELSE IF (version = 0 /\ Keccak256(Raw(got.data)) # hash) \/ (version = 1 /\ TreeHash(got.data) # hash) THEN Failed
      ELSE got

\* A variant that does not record the leaf under a flat hash.
RecordPayloadFlat(version, hash, x) == IF version = 0 THEN {Raw(x)} ELSE RecordHash(x).recorded
\* The preimages of the payload: under a flat hash one leaf, however long.
RecordPayload(version, hash, x) ==
  IF version = 0 THEN {Raw(x), FlatHashToTreeLeaf(hash)} ELSE RecordHash(x).recorded

\* The certificate must outlive the batch by MinLifetime.
LivesLongEnough(cert, maxTimestamp) == cert.timeout >= maxTimestamp + MinLifetime

\* RecoverPayloadFromDasBatch: an error when something cannot be fetched, no payload when
\* the certificate is not good enough.
RecoverPayloadFromDasBatch(reader, b) ==
  LET cert == b.cert
      ks == GetByHash(reader, cert.version, cert.keysetHash)
      keyset == DeserializeKeyset(ks.data)
      payload == GetByHash(reader, cert.version, cert.dataHash)
      kept == RecordHash(ks.data).recorded
      Answer(r, p) == [result |-> r, data |-> p.data, preimages |-> p.preimages]
      Nothing(pre) == [data |-> <<>>, preimages |-> pre]
  IN  IF cert.version >= 2 THEN Answer("empty", Nothing({}))
      ELSE IF ~ks.ok THEN Answer("error", Nothing({}))
      ELSE IF ~keyset.ok THEN Answer("empty", Nothing(kept))
      ELSE IF ~VerifySignature(keyset, cert) THEN Answer("empty", Nothing(kept))
      ELSE IF ~LivesLongEnough(cert, b.maxTimestamp) THEN Answer("empty", Nothing(kept))
      ELSE IF ~payload.ok THEN Answer("error", Nothing(kept))
      ELSE Answer("payload", [data |-> payload.data,
                              preimages |-> kept \cup RecordPayload(cert.version, cert.dataHash, payload.data)])
-----------------------------------------------------------------------------
Waiting == [result |-> "none"]

\* A batch: its payload, its keyset, who signed and who is claimed to have signed.
TreeInit ==
  /\ \E x \in TreeInputs, version \in 0 .. 2, honest \in 0 .. TreeKeys, claimed \in SUBSET (1 .. TreeKeys), forged \in BOOLEAN,
        timeout \in TreeTimeouts, flat \in BOOLEAN, keep \in BOOLEAN :
       LET ks == KeysetBytes(honest, TreeKeys)
       IN  batch = [cert |-> [version |-> version, keysetHash |-> Name(version, ks), dataHash |-> Name(version, x),
                              signersMask |-> claimed, signed |-> IF forged THEN {} ELSE claimed, timeout |-> timeout],
                    payload |-> x, honest |-> honest, maxTimestamp |-> 1, flat |-> flat,
                    held |-> IF keep THEN {x, ks} ELSE {ks}]
  /\ recovered = Waiting /\ replayed = Waiting

\* The node recovers the payload from a reader and records preimages.
RecoverNow ==
  /\ recovered = Waiting
  /\ recovered' = RecoverPayloadFromDasBatch(FromStores(batch), batch)
  /\ UNCHANGED <<batch, replayed>>

\* The replay binary recovers it from the recorded preimages alone.
ReplayNow ==
  /\ recovered # Waiting /\ recovered.result # "error" /\ replayed = Waiting
  /\ replayed' = RecoverPayloadFromDasBatch(FromPreimages(recovered.preimages), batch)
  /\ UNCHANGED <<batch, recovered>>

TreeNext == RecoverNow \/ ReplayNow
-----------------------------------------------------------------------------
\* The tree gives back the data it was made of, whatever its length: the sizes written when
\* the tree is built are those Content expects (RecordHash, Content).
ContentInverts ==
  recovered = Waiting =>
    LET r == RecordHash(batch.payload) IN Content(r.recorded, r.root) = Got(batch.payload)

\* The replay binary comes to the same payload as the node, with nothing but the preimages
\* the node recorded (RecoverPayloadFromDasBatch, Content).
ReplayAgrees ==
  replayed # Waiting => replayed.result = recovered.result /\ replayed.data = recovered.data

\* A payload is accepted only if every set of as many members as are assumed honest has one
\* who signed, and it is the payload that was certified (VerifySignature, getByHash).
PayloadTrusted ==
  recovered # Waiting /\ recovered.result = "payload" =>
    /\ recovered.data = batch.payload
    /\ \A h \in SUBSET (1 .. TreeKeys) : Cardinality(h) = batch.honest => h \cap batch.cert.signed # {}

-----------------------------------------------------------------------------
(***************************************************************************)
(* Reading from other data availability servers.                           *)
(*                                                                         *)
(* SimpleDASReaderAggregator.GetByHash asks the readers in sets that grow, *)
(* in the order of its strategy, and returns the first data that has the   *)
(* right hash.  The list of readers is replaced when the list of online    *)
(* servers changes, the strategy's copy of it only when a ticker fires.    *)
(***************************************************************************)

CONSTANTS RdWebs,          \* what the online lists say, one after the other: the words of each list
          RdDepth,         \* initialMaxRecurseDepth
          RdHolders,       \* the servers that have the data
          RdMaxGets, RdMaxFaults, RdMaxTicks   \* bounds

VARIABLES readers,         \* the readers: a server and the list it came with
          strategy,        \* the strategy's copy
          get,             \* the call of GetByHash
          pending,         \* the list fetched last waits for the lock
          rdbudget

rdvars == <<readers, strategy, get, pending, rdbudget>>

SkipWord(words) == Tail(words)

\* restfulServerURLsFromList: the word after "LIST" names another list, which is read unless
\* it was before or is too deep; then its name is taken for a server.
RECURSIVE UrlsFromList(_, _, _, _)
RECURSIVE UrlsFromWords(_, _, _, _)
UrlsFromList(web, list, depth, visited) ==
  IF list \in visited THEN [urls |-> {}, visited |-> visited]
  ELSE UrlsFromWords(web, web[list], depth, visited \cup {list})
UrlsFromWords(web, words, depth, visited) ==
  IF words = <<>> THEN [urls |-> {}, visited |-> visited]
  ELSE IF Head(words) = "LIST" /\ depth > 0 /\ Len(words) > 1
  THEN LET sub == UrlsFromList(web, words[2], depth - 1, visited)
           rest == UrlsFromWords(web, SkipWord(Tail(words)), depth, sub.visited)
       IN  [rest EXCEPT !.urls = @ \cup sub.urls]
  ELSE LET rest == UrlsFromWords(web, Tail(words), depth, visited)
       IN  IF Head(words) = "LIST" THEN rest ELSE [rest EXCEPT !.urls = @ \cup {Head(words)}]

OnlineUrls(n) == UrlsFromList(RdWebs[n], "top", RdDepth, {}).urls

\* Every list makes new readers, also for servers it has in common with the last.
ReadersOf(n) == {<<u, n>> : u \in OnlineUrls(n)}

NoGet == [pc |-> "none", todo |-> {}, take |-> 1, running |-> {}, results |-> <<>>, heard |-> 0,
          fresh |-> TRUE, of |-> {}, room |-> 0, failed |-> {}]

RdInit ==
  /\ readers = ReadersOf(1) /\ strategy = ReadersOf(1)
  /\ get = NoGet /\ pending = FALSE
  /\ rdbudget = [gets |-> RdMaxGets, faults |-> RdMaxFaults, list |-> 1, ticks |-> RdMaxTicks]

\* The call holds the read lock; a writer that waits keeps new readers out.
StartGet ==
  /\ get.pc # "wait" /\ ~pending /\ rdbudget.gets > 0
  /\ get' = [NoGet EXCEPT !.pc = "wait", !.todo = strategy, !.fresh = strategy = readers, !.of = strategy,
                           !.room = Cardinality(readers)]
  /\ rdbudget' = [rdbudget EXCEPT !.gets = @ - 1]
  /\ UNCHANGED <<readers, strategy, pending>>

\* A set of the strategy: one reader, then two, then four.
TakenNow(take, left) == IF take < left THEN take ELSE left

\* The next set is asked when the last has answered, or after a while.
AskNext ==
  /\ get.pc = "wait" /\ get.todo # {}
  /\ \E rs \in SUBSET get.todo :
       /\ Cardinality(rs) = TakenNow(get.take, Cardinality(get.todo))
       /\ get' = [get EXCEPT !.todo = @ \ rs, !.take = 2 * @, !.running = @ \cup rs]
  /\ UNCHANGED <<readers, strategy, pending, rdbudget>>

\* A reader answers: data with the right hash, or an error.  The channel has room for as
\* many results as there are readers.
ReaderAnswers(r) ==
  /\ r \in get.running /\ Len(get.results) < get.room
  /\ \/ /\ get' = [get EXCEPT !.running = @ \ {r}, !.results = Append(@, r[1] \in RdHolders),
                              !.failed = IF r[1] \in RdHolders THEN @ ELSE @ \cup {r}]
        /\ UNCHANGED rdbudget
     \/ /\ rdbudget.faults > 0 /\ r[1] \in RdHolders
        /\ rdbudget' = [rdbudget EXCEPT !.faults = @ - 1]
        /\ get' = [get EXCEPT !.running = @ \ {r}, !.results = Append(@, FALSE), !.failed = @ \cup {r}]
  /\ UNCHANGED <<readers, strategy, pending>>

HeardAll(n) == n >= get.room

\* The collector.  When it returns the lock is released and no further set is asked.
CollectResult ==
  /\ get.pc = "wait" /\ get.results # <<>>
  /\ LET n == get.heard + 1
     IN  get' = [get EXCEPT !.results = Tail(@), !.heard = n,
                            !.pc = IF Head(get.results) THEN "found" ELSE IF HeardAll(n) THEN "missing" ELSE "wait"]
  /\ UNCHANGED <<readers, strategy, pending, rdbudget>>

\* The stats goroutine: a new list is fetched, and waits for the calls in progress.
ListArrives ==
  /\ ~pending /\ rdbudget.list < Len(RdWebs)
  /\ pending' = TRUE /\ rdbudget' = [rdbudget EXCEPT !.list = @ + 1]
  /\ UNCHANGED <<readers, strategy, get>>

UpdateClients ==
  /\ pending /\ get.pc # "wait"
  /\ pending' = FALSE /\ readers' = ReadersOf(rdbudget.list)
  /\ UNCHANGED <<strategy, get, rdbudget>>

StrategyTick ==
  /\ ~pending /\ strategy # readers /\ rdbudget.ticks > 0
  /\ strategy' = readers /\ rdbudget' = [rdbudget EXCEPT !.ticks = @ - 1]
  /\ UNCHANGED <<readers, get, pending>>

RdSteps == AskNext \/ CollectResult \/ UpdateClients \/ \E r \in get.running : ReaderAnswers(r)
RdNext == RdSteps \/ StartGet \/ ListArrives \/ StrategyTick

\* A call that was given the readers of the current list reports a failure only after each
\* of them failed (GetByHash).
MissingMeansAll == get.pc = "missing" /\ get.fresh => get.failed = get.of

\* The readers are the servers the lists name, however the lists refer to each other, as long
\* as they are not nested too deep (RestfulServerURLsFromList).
ReadersAreServers ==
  {r[1] : r \in readers} \in {UNION {Range(w[l]) : l \in DOMAIN w} \ (DOMAIN w \cup {"LIST"}) : w \in Range(RdWebs)}

\* Such a call ends by itself, and the list that waits for it is then taken
\* (GetByHash, updateRestfulDasClients).
GetsEnd == []<>(~get.fresh \/ (get.pc # "wait" /\ ~pending))

\* What was certified is what every reader recovers: the node, the replay binary, and whoever
\* asks the servers of the lists (RecoverPayloadFromDasBatch, Content, GetByHash).
RetrievalRight ==
  /\ ContentInverts /\ ReplayAgrees /\ PayloadTrusted
  /\ MissingMeansAll /\ ReadersAreServers
=============================================================================
