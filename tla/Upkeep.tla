------------------------------- MODULE Upkeep -------------------------------
(***************************************************************************)
(* What a node does beside following the chain: it says whether it is in   *)
(* sync (the sync monitors of arbnode and gethexec), it deletes messages   *)
(* of confirmed batches (MessagePruner), and it keeps what unposted        *)
(* messages paid for L1 (the cache of L1 price data).                      *)
(***************************************************************************)
EXTENDS Integers, Sequences, FiniteSets, FiniteSetsExt, Folds

CONSTANTS SyScenarios,     \* which sources a node has (reader, coordinator), and bounds on batches, messages and faults
          PnMax,           \* messages, and delayed messages
          PnMaxBatches,
          PnMinLeft,       \* MinBatchesLeft
          PnFaults,        \* reorgs, restarts and failed deletions
          PbMax,           \* positions
          PbUnits          \* calldata units of a message

VARIABLES sy, pn, pb
-----------------------------------------------------------------------------
(* The sync monitors.  The node's counts: msgs in the database, pending in *)
(* the feed's queue, read and seen of the inbox reader, built of the       *)
(* execution engine, and remote, the coordinator's.  The inbox reader      *)
(* writes seen after read; look is what it found on L1.                    *)

\* Batch b ends with message b + 1: one message each, after the init message.
BatchMessageCount(b) == b + 1

NoUpdate == [st |-> "idle", max |-> 0, known |-> 0]
NoCall == [st |-> "idle", target |-> 0, seen |-> 0, built |-> 0, known |-> 0, look |-> 0]

SyInit ==
  \E q \in SyScenarios :
    sy = [q |-> q, has |-> q.has, l1 |-> 0, look |-> 0, reading |-> FALSE, looked |-> 0, read |-> 0, seen |-> 0,
          msgs |-> 1, pending |-> 0, remote |-> 1, built |-> 0, faults |-> 0,
          target |-> 0, next |-> 0,                       \* syncTarget, nextSyncTarget
          upd |-> NoUpdate,
          known |-> 0, nextKnown |-> 0,                   \* what there was at the last but one update, and at the last
          call |-> NoCall]

SyFault == sy.faults < sy.q.faults

\* The world moves on: batches, messages of the feed, other sequencers, blocks built.
SyWorld ==
  \/ sy.l1 < sy.q.batches /\ "reader" \in sy.has /\ sy' = [sy EXCEPT !.l1 = @ + 1]
  \/ sy.pending = 0 /\ \E p \in sy.msgs + 1 .. sy.q.msgs : sy' = [sy EXCEPT !.pending = p]
  \/ sy.pending > 0 /\ sy' = [sy EXCEPT !.msgs = Max({@, sy.pending}), !.pending = 0]
  \/ "coordinator" \in sy.has /\ sy.remote < sy.q.msgs /\ sy' = [sy EXCEPT !.remote = @ + 1]
  \/ sy.built + 1 < sy.msgs /\ sy' = [sy EXCEPT !.built = @ + 1]

\* InboxReader.run: a look at L1, the batches read, then lastSeenBatchCount.
ReaderLooks ==
  /\ "reader" \in sy.has /\ ~sy.reading
  /\ \/ sy' = [sy EXCEPT !.look = sy.l1, !.reading = TRUE]
     \/ SyFault /\ sy' = [sy EXCEPT !.look = 0, !.seen = 0, !.looked = 0, !.faults = @ + 1]

ReaderReads ==
  /\ sy.reading
  /\ \/ \E r \in sy.read .. sy.look :
          sy' = [sy EXCEPT !.read = r, !.msgs = Max({@, BatchMessageCount(r)}), !.seen = sy.look, !.looked = sy.look,
                           !.reading = FALSE]
     \/ SyFault /\ sy' = [sy EXCEPT !.seen = sy.look, !.looked = sy.look, !.reading = FALSE, !.faults = @ + 1]

\* A reorg takes messages away, and with them blocks; those are no longer to be reached.
SyReorg ==
  \E m \in BatchMessageCount(sy.read) .. sy.msgs - 1 :
    /\ SyFault
    /\ sy' = [sy EXCEPT !.msgs = m, !.built = Min({@, m - 1}), !.faults = @ + 1, !.known = Min({@, m}), !.nextKnown = Min({@, m}),
                        !.upd.known = Min({@, m}), !.call.known = Min({@, m})]

\* updateSyncTarget and maxMessageCount: the database, the feed and the batches, then a remote
\* call; an error leaves the targets. The target is the maximum of the update before.
UpdateSyncTarget ==
  \/ sy.upd.st = "idle" /\ sy' = [sy EXCEPT !.upd = [st |-> "feed", max |-> sy.msgs, known |-> sy.msgs]]
  \/ /\ sy.upd.st = "feed"
     /\ sy' = [sy EXCEPT !.upd.st = "remote",
                         !.upd.max = Max({@, sy.pending} \cup {BatchMessageCount(b) : b \in {sy.read} \ {0}})]
  \/ /\ sy.upd.st = "remote"
     /\ LET coordinator == IF "coordinator" \in sy.has THEN sy.remote ELSE 0
        IN  sy' = [sy EXCEPT !.target = sy.next, !.next = Max({sy.upd.max, coordinator}), !.known = sy.nextKnown,
                             !.nextKnown = Max({sy.upd.known, coordinator}), !.upd = NoUpdate]
  \/ sy.upd.st # "idle" /\ SyFault /\ sy' = [sy EXCEPT !.upd = NoUpdate, !.faults = @ + 1]

\* A call that has answered no, or goes on.
GoesOn(yes, call) == IF yes THEN call ELSE NoCall

\* Synced of arbnode: the target, the messages, the batches seen and then those read.
Synced ==
  \/ /\ sy.call.st = "idle"
     /\ sy' = [sy EXCEPT !.call = [NoCall EXCEPT !.st = "messages", !.target = sy.target, !.known = sy.known, !.look = sy.looked]]
  \/ /\ sy.call.st = "messages"
     /\ sy' = [sy EXCEPT !.call = GoesOn(@.target <= sy.msgs, [@ EXCEPT !.st = IF "reader" \in sy.has THEN "seen" ELSE "built"])]
  \/ /\ sy.call.st = "seen"
     /\ sy' = [sy EXCEPT !.call = GoesOn(sy.seen # 0, [@ EXCEPT !.st = "read", !.seen = sy.seen])]
  \/ /\ sy.call.st = "read"
     /\ sy' = [sy EXCEPT !.call = GoesOn(@.seen <= sy.read, [@ EXCEPT !.st = "built"])]

\* SyncProgressMap of gethexec, after it: the blocks built, and the target again.
SyncProgressMap ==
  \/ sy.call.st = "built" /\ sy' = [sy EXCEPT !.call.st = "target", !.call.built = sy.built]
  \/ /\ sy.call.st = "target"
     /\ sy' = [sy EXCEPT !.call = GoesOn(@.built + 1 >= sy.target, [@ EXCEPT !.st = "synced"])]
  \/ sy.call.st = "synced" /\ sy' = [sy EXCEPT !.call = NoCall]

SyNext == SyWorld \/ ReaderLooks \/ ReaderReads \/ SyReorg \/ UpdateSyncTarget \/ Synced \/ SyncProgressMap
-----------------------------------------------------------------------------
(* The message pruner.  There are two kinds of keys, messages (m) and      *)
(* delayed messages (d); a batch has the counts of both at its end.        *)

PnKinds == {"m", "d"}
NoPrune == [st |-> "none", kind |-> "m", batch |-> 0, end |-> [k \in PnKinds |-> 0], start |-> 0]
CountsOf(b) == IF b = 0 THEN [k \in PnKinds |-> 0] ELSE pn.batches[b]

PnInit ==
  pn = [keys |-> [k \in PnKinds |-> {0}], head |-> [k \in PnKinds |-> 1], batches |-> <<[k \in PnKinds |-> 1]>>, confirmed |-> 0,
        cached |-> [k \in PnKinds |-> 0], job |-> NoPrune, faults |-> 0]

PnFault == pn.faults < PnFaults

\* A message of the feed, a delayed message read from L1.
PnArrives(k) ==
  /\ pn.head[k] < PnMax
  /\ pn' = [pn EXCEPT !.head[k] = @ + 1, !.keys[k] = @ \cup {pn.head[k]}]

\* A batch ends at some message, known from the feed or new, and has read some delayed ones.
PnBatch ==
  LET last == CountsOf(Len(pn.batches)) IN
  \E m \in last.m + 1 .. PnMax, d \in last.d .. pn.head.d :
    /\ Len(pn.batches) < PnMaxBatches
    /\ pn' = [pn EXCEPT !.batches = Append(@, [m |-> m, d |-> d]), !.head.m = Max({@, m}), !.keys.m = @ \cup (pn.head.m .. m - 1)]

PnConfirm == pn.confirmed < PnMaxBatches /\ pn' = [pn EXCEPT !.confirmed = @ + 1]

\* L1 reorgs batches that are not confirmed; their messages and delayed messages go.
PnReorg ==
  \E b \in Max({1, pn.confirmed}) .. Len(pn.batches) - 1 :
    /\ PnFault
    /\ pn' = [pn EXCEPT !.batches = SubSeq(@, 1, b), !.head = pn.batches[b], !.faults = @ + 1,
                        !.keys = [k \in PnKinds |-> {n \in @[k] : n < pn.batches[b][k]}]]

\* UpdateLatestConfirmed: one job at a time, others are dropped. The interval never holds one
\* back, as lastPruneDone is not written.
UpdateLatestConfirmed ==
  /\ pn.job.st = "none" /\ pn.confirmed > 0
  /\ pn' = [pn EXCEPT !.job = [NoPrune EXCEPT !.st = "prune", !.batch = pn.confirmed]]

\* The batch up to which is pruned: confirmed, and MinBatchesLeft from the last.
TrimBatchCount(batch, count) ==
  IF count >= batch + PnMinLeft THEN batch ELSE IF count < PnMinLeft THEN 0 ELSE count - PnMinLeft

Prune ==
  LET trim == TrimBatchCount(pn.job.batch, Len(pn.batches)) IN
  /\ pn.job.st = "prune"
  /\ pn' = [pn EXCEPT !.job = IF trim < 1 THEN NoPrune ELSE [@ EXCEPT !.st = "open", !.end = pn.batches[trim]]]

\* deleteFromRange up to the last message of the last batch, which stays.
DeletedTo(k, start, end) == {n \in pn.keys[k] : start <= n /\ n < end - 1}

\* Messages first, then delayed messages.
After(job) == IF job.kind = "m" THEN [job EXCEPT !.st = "open", !.kind = "d"] ELSE NoPrune

\* deleteFromLastPrunedUptoEndKey: from the cached key or, after a start, the first after 0.
OpenRange(k) ==
  LET start == IF pn.cached[k] # 0 THEN pn.cached[k] ELSE Min(pn.keys[k] \ {0}) IN
  /\ pn.job.st = "open" /\ pn.job.kind = k
  /\ pn' = IF pn.cached[k] = 0 /\ pn.keys[k] \ {0} = {} THEN [pn EXCEPT !.job = After(@)]
           ELSE IF pn.job.end[k] <= start THEN [pn EXCEPT !.cached[k] = start, !.job = After(@)]
           ELSE [pn EXCEPT !.job.st = "delete", !.job.start = start]

\* Keys are deleted upwards in several writes; the key to go on from is cached after the last.
DeleteRange(k) ==
  LET range == DeletedTo(k, pn.job.start, pn.job.end[k]) IN
  /\ pn.job.st = "delete" /\ pn.job.kind = k
  /\ \/ \E n \in range : pn' = [pn EXCEPT !.keys[k] = @ \ {j \in range : j <= n}]
     \/ range = {} /\ pn' = [pn EXCEPT !.cached[k] = pn.job.end[k] - 1, !.job = After(@)]
     \/ PnFault /\ pn' = [pn EXCEPT !.job = NoPrune, !.faults = @ + 1]

PnRestart == PnFault /\ pn' = [pn EXCEPT !.job = NoPrune, !.cached = [k \in PnKinds |-> 0], !.faults = @ + 1]

PnNext ==
  \/ PnBatch \/ PnConfirm \/ PnReorg \/ UpdateLatestConfirmed \/ Prune \/ PnRestart
  \/ \E k \in PnKinds : PnArrives(k) \/ OpenRange(k) \/ DeleteRange(k)
-----------------------------------------------------------------------------
(* The cache of L1 price data: what each message from start to end paid,   *)
(* with running totals.  Calldata units stand for the gas charged as well, *)
(* which is kept the same way.                                             *)

NoPriceData == [start |-> 0, end |-> 0, data |-> <<>>]
PbInit == pb = NoPriceData

ResetCache(pos, units) == [start |-> pos, end |-> pos, data |-> <<[units |-> units, total |-> units]>>]

\* CacheL1PriceDataOfMsg, after the sequencer made a block of message pos: only the next
\* position is appended, a gap starts the cache again, an earlier position is ignored.
CacheL1PriceDataOfMsg(pos, units) ==
  LET size == Len(pb.data) IN
  pb' = IF size = 0 \/ pb.start = 0 \/ pb.end = 0 \/ size # pb.end - pb.start + 1 \/ pos > pb.end + 1 THEN ResetCache(pos, units)
        ELSE IF pos <= pb.end THEN pb
        ELSE [pb EXCEPT !.end = pos, !.data = Append(@, [units |-> units, total |-> pb.data[size].total + units])]

\* TrimCache, when messages up to a position were read from a batch.
TrimCache(to) ==
  pb' = IF to < pb.start THEN pb
        ELSE IF to >= pb.end THEN NoPriceData
        ELSE [pb EXCEPT !.data = SubSeq(@, to - pb.start + 2, Len(@)), !.start = to + 1]

PbNext ==
  \/ \E pos \in 1 .. PbMax, u \in PbUnits : CacheL1PriceDataOfMsg(pos, u)
  \/ \E to \in 1 .. PbMax + 1 : TrimCache(to)

BacklogCallDataUnits ==
  IF pb.data = <<>> THEN 0 ELSE pb.data[Len(pb.data)].total - pb.data[1].total + pb.data[1].units
-----------------------------------------------------------------------------
\* A node that says it is in sync has, and has built, the messages that it and the coordinator
\* had at the last update but one, and has read the batches its reader last found on L1, though
\* the four sources move and fail while they are read (Synced, updateSyncTarget).
SyncedTruthful ==
  sy.call.st = "synced" =>
    /\ sy.msgs >= sy.call.known /\ sy.built + 1 >= sy.call.known
    /\ "reader" \in sy.has => sy.read >= sy.call.look

\* The pruner deletes no message that is still needed: the first, the last of the last confirmed
\* batch, where a reorg or a validation starts, and all after it; and no hole is left above what
\* was deleted, wherever a deletion or the node stops (deleteOldMessagesFromDB).
NothingNeededPruned ==
  \A k \in PnKinds :
    LET n == CountsOf(Min({pn.confirmed, Len(pn.batches)}))[k]
    IN  /\ 0 \in pn.keys[k]
        /\ \A j \in Max({0, n - 1}) .. pn.head[k] - 1 : j \in pn.keys[k]
        /\ \A i \in pn.keys[k] \ {0} : i .. pn.head[k] - 1 \subseteq pn.keys[k]

\* The backlog is the sum of what the cached messages paid, one entry for each position from
\* start to end, however the cache was trimmed, reset or extended (BacklogCallDataUnits,
\* BacklogL1GasCharged).
BacklogIsSum ==
  /\ BacklogCallDataUnits = MapThenFoldSet(+, 0, LAMBDA i : pb.data[i].units, LAMBDA S : CHOOSE i \in S : TRUE, DOMAIN pb.data)
  /\ IF pb.data = <<>> THEN pb = NoPriceData ELSE Len(pb.data) = pb.end - pb.start + 1

\* What a node reports and keeps beside the chain is right: it is in sync when it says so, what
\* is needed of its database is there, and the backlog of L1 prices adds up (SyncMonitor,
\* MessagePruner, L1PriceData).
UpkeepSound == SyncedTruthful /\ NothingNeededPruned /\ BacklogIsSum
=============================================================================
