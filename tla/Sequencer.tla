----------------------------- MODULE Sequencer ------------------------------
(***************************************************************************)
(* The sequencer's transaction queue (execution/gethexec/sequencer.go):    *)
(* the PublishTransaction calls, the thread of createBlock with its nonce  *)
(* cache and its nonce failures, the changes of role the coordinator       *)
(* orders, the forwarder (forwarder.go) and the expected surplus with its  *)
(* lock, over the execution engine's SequenceTransactions                  *)
(* (executionengine.go).                                                   *)
(*                                                                         *)
(* All transactions are of one sender: a nonce is the key of a nonce       *)
(* failure, and the nonce cache has one entry.                             *)
(***************************************************************************)
EXTENDS Integers, SequencesExt, FiniteSetsExt, Sequences, FiniteSets

CONSTANTS
  QueueSize, MaxTxDataSize, NonceFailureCacheSize,
  SeqScenarios   \* nonces and sizes of the submissions, and the budgets of what happens around them

VARIABLES
  sqs,     \* the scenario
  cl,      \* the PublishTransaction calls: state, forwarder in use, gone (queueCtx), late (nonce failure expiry)
  sq,      \* the sequencer: its queues, results, caches and the thread of createBlock
  role,    \* pauseChan, forwarder (0 is nil, else its number), onForwarderSet, and ExpectChosenSequencer
  chain,   \* the blocks: identity, account nonce after it, submissions in it
  surp     \* expectedSurplus and its lock

seqVars == <<sqs, cl, sq, role, chain, surp>>

Subs == DOMAIN sqs.nonce
Nonce(i) == sqs.nonce[i]
HeadBlock == chain[Len(chain)]
HeadParent == IF Len(chain) > 1 THEN chain[Len(chain) - 1].id ELSE -1
NoMessage == [id |-> -1, nonce |-> 0, txs |-> {}]     \* every message has its block
NoCache(block) == [block |-> block, dirty |-> FALSE, nonce |-> -1]
Without(s, S) == SelectSeq(s, LAMBDA i : i \notin S)
-----------------------------------------------------------------------------
(* What createBlock does to the sequencer's state s.                       *)

\* txQueueItem.returnResult: one send on resultChan, which is then closed.
Return(s, i, r) == [s EXCEPT !.ans[i] = Append(@, r)]
ReturnAll(s, q, r) == FoldLeft(LAMBDA t, i : Return(t, i, r), s, q)

\* onNonceFailureEvict.
Evict(s, i) ==
  IF cl[i].gone THEN Return(s, i, "ctx")
  ELSE IF role.fwd # 0 THEN [s EXCEPT !.bg = @ \cup {<<i, role.fwd>>}]
  ELSE Return(s, i, "nonce")

\* nonceFailureCache.Add.
AddFailure(s, i) ==
  IF cl[i].late \/ \E j \in ToSet(s.fails) : Nonce(j) = Nonce(i) THEN Return(s, i, "nonce")
  ELSE LET f == Append(s.fails, i) IN
       IF Len(f) <= NonceFailureCacheSize THEN [s EXCEPT !.fails = f]
       ELSE Evict([s EXCEPT !.fails = Tail(f)], f[1])

\* A variant that forgets the failures it clears.
ClearFailuresSilent(s) == [s EXCEPT !.fails = <<>>]
\* nonceFailures.Clear.
ClearFailures(s) == FoldLeft(Evict, [s EXCEPT !.fails = <<>>], s.fails)

\* expireNonceFailures: from the oldest, until one has not expired.
ExpireFailures(s) ==
  LET n == SelectInSeq(s.fails, LAMBDA i : ~cl[i].late)
      k == IF n = 0 THEN Len(s.fails) ELSE n - 1
  IN FoldLeft(Evict, [s EXCEPT !.fails = SubSeq(@, k + 1, Len(@))], SubSeq(s.fails, 1, k))

\* The failure that waits for nonce n, taken out of the cache; 0 when there is none.
Waiting(s, n) == IF \E i \in ToSet(s.fails) : Nonce(i) = n THEN CHOOSE i \in ToSet(s.fails) : Nonce(i) = n ELSE 0
Revive(s, i) == [s EXCEPT !.fails = Without(@, {i})]

\* nonceCache.Get for a header with that parent, on a state with that nonce.
CacheGet(nc, parent, nonce) ==
  IF ~nc.dirty /\ nc.block = parent /\ nc.nonce # -1 THEN nc ELSE [NoCache(parent) EXCEPT !.nonce = nonce]
\* nonceCache.Finalize.
CacheFinalize(nc, parent, block) == IF nc.block = parent THEN [nc EXCEPT !.block = block, !.dirty = FALSE] ELSE NoCache(block)
\* nonceCache.BeginNewBlock.
BeginNewBlock(s) == IF s.nc.dirty THEN [s EXCEPT !.nc = NoCache(-1)] ELSE s

\* precheckNonces, the items s.items against the head block.
PrecheckNonces(s) ==
  LET check[k \in 0 .. 2 * Len(s.items)] ==   \* an item is looked at once, and may revive one
        IF k = 0 THEN [s |-> s, todo |-> s.items, out |-> <<>>, pending |-> -1]
        ELSE LET c == check[k - 1] IN
             IF c.todo = <<>> THEN c
             ELSE LET i == c.todo[1]
                      rest == Tail(c.todo)
                      nc == CacheGet(c.s.nc, HeadParent, HeadBlock.nonce)
                      t == [c.s EXCEPT !.nc = nc]
                      pending == IF c.pending = -1 THEN nc.nonce ELSE c.pending
                      w == Waiting(t, Nonce(i) + 1)
                  IN IF Nonce(i) = pending
                     THEN IF w = 0 THEN [s |-> t, todo |-> rest, out |-> Append(c.out, i), pending |-> pending + 1]
                          ELSE IF cl[w].gone
                          THEN [s |-> Return(Revive(t, w), w, "ctx"), todo |-> rest, out |-> Append(c.out, i), pending |-> pending + 1]
                          ELSE [s |-> Revive(t, w), todo |-> <<w>> \o rest, out |-> Append(c.out, i), pending |-> pending + 1]
                     ELSE IF Nonce(i) < nc.nonce
                     THEN [c EXCEPT !.s = Return([t EXCEPT !.refused = @ \cup {<<i, HeadBlock.nonce>>}], i, "nonce"), !.todo = rest]
                     ELSE IF Nonce(i) > pending
                     THEN [c EXCEPT !.s = AddFailure([t EXCEPT !.refused = @ \cup {<<i, HeadBlock.nonce>>}], i), !.todo = rest]
                     ELSE [c EXCEPT !.s = t, !.todo = rest, !.out = Append(@, i)]
      last == check[2 * Len(s.items)]
  IN [last.s EXCEPT !.items = last.out]

\* ProduceBlockAdvanced with the hooks preTxFilter and postTxFilter on the
\* items; o[k] is the fate of the k-th item whose nonce fits.
Produce(s, o) ==
  LET start == [s |-> s, nonce |-> HeadBlock.nonce, errs |-> <<>>]
      nc0 == CacheGet(s.nc, HeadBlock.id, HeadBlock.nonce)   \* the header is a new one
      run[k \in 0 .. Len(s.items)] ==
        IF k = 0 THEN [start EXCEPT !.s.nc = IF s.items = <<>> THEN s.nc ELSE nc0]
        ELSE LET p == run[k - 1]
                 i == s.items[k]
                 w == Waiting(p.s, Nonce(i) + 1)
                 t == [p.s EXCEPT !.nc.nonce = Nonce(i) + 1, !.nc.dirty = TRUE]
                 refuse(e) == [p EXCEPT !.errs = Append(@, e), !.s.refused = @ \cup {<<i, p.nonce>>}]
             IN IF Nonce(i) > p.s.nc.nonce THEN refuse("high")
                ELSE IF Nonce(i) < p.s.nc.nonce THEN refuse("low")
                ELSE IF Nonce(i) # p.nonce THEN [p EXCEPT !.errs = Append(@, "core")]
                ELSE IF o[k] # "ok" THEN [p EXCEPT !.errs = Append(@, o[k])]
                ELSE [s |-> IF w = 0 THEN t
                            ELSE IF cl[w].gone THEN Return(Revive(t, w), w, "ctx")
                            ELSE [Revive(t, w) EXCEPT !.retry = Append(@, w)],
                      nonce |-> p.nonce + 1, errs |-> Append(p.errs, "ok")]
  IN run[Len(s.items)]

\* A variant that gives the results to the items in the wrong order.
SettleReversed(s, errs) ==
  FoldLeft(LAMBDA t, k : Return(t, s.items[Len(errs) + 1 - k], IF errs[k] = "ok" THEN "ok" ELSE "failed"),
           s, [k \in 1 .. Len(errs) |-> k])
\* The results of the items of a block: the loop over TxErrors.
Settle(s, errs) ==
  FoldLeft(LAMBDA t, k :
             LET i == s.items[k]
                 made == \E j \in 1 .. k : errs[j] = "ok"
             IN IF errs[k] = "gas" /\ made THEN [t EXCEPT !.retry = Append(@, i)]
                ELSE IF errs[k] = "high" THEN AddFailure(t, i)
                ELSE Return(t, i, IF errs[k] = "ok" THEN "ok" ELSE "failed"),
           s, [k \in 1 .. Len(errs) |-> k])
-----------------------------------------------------------------------------
(* PublishTransaction.                                                     *)
Call(i, st) == cl' = [cl EXCEPT ![i].st = st, ![i].gone = @ \/ st \in {"done", "refused"}]

\* The expected surplus is read under the read lock, which the refusal keeps.
\* Then the role decides; the submissions come in order, their nonces need not.
Publish(i) ==
  /\ cl[i].st = "new" /\ (i > 1 => cl[i - 1].st # "new")
  /\ sqs.surplus => ~surp.waiting
  /\ IF sqs.surplus /\ surp.updated /\ surp.low
     THEN Call(i, "refused") /\ surp' = [surp EXCEPT !.readers = @ + 1]
     ELSE /\ UNCHANGED surp
          /\ IF role.fwd # 0 THEN cl' = [cl EXCEPT ![i].st = "forward", ![i].fwd = role.fwd]
             ELSE Call(i, "enqueue")
  /\ UNCHANGED <<sqs, sq, role, chain>>

\* TxForwarder.PublishTransaction: ErrNoSequencer when it was disabled
\* meanwhile, else what the target answers, which may be an error of ours.
Forwarded(f) == IF role.fwd = f THEN {"ok", "failed"} ELSE {"none"}

PublishForward(i) ==
  /\ cl[i].st = "forward"
  /\ \E r \in Forwarded(cl[i].fwd) : Call(i, IF r = "none" THEN "enqueue" ELSE "done")
  /\ UNCHANGED <<sqs, sq, role, chain, surp>>

\* The transaction waits for room in txQueue until its context ends.
Enqueue(i) ==
  /\ cl[i].st = "enqueue"
  /\ \/ Len(sq.queue) < QueueSize /\ Call(i, "wait") /\ sq' = [sq EXCEPT !.queue = Append(@, i)]
     \/ cl[i].gone /\ Call(i, "done") /\ UNCHANGED sq
  /\ UNCHANGED <<sqs, role, chain, surp>>

\* The call returns with its result once there is one; here the abort
\* deadline passes, or the caller leaves.
Abort(i) ==
  /\ cl[i].st = "wait" /\ sq.ans[i] = <<>> /\ sqs.abort
  /\ Call(i, "done") /\ UNCHANGED <<sqs, sq, role, chain, surp>>

\* The queue timeout, and the expiry of a nonce failure.
QueueTimeout(i) ==
  /\ cl[i].st \in {"enqueue", "wait"} /\ ~cl[i].gone /\ sq.ans[i] = <<>>
  /\ cl' = [cl EXCEPT ![i].gone = TRUE] /\ UNCHANGED <<sqs, sq, role, chain, surp>>
FailureExpiry(i) ==
  /\ i \in ToSet(sq.fails) /\ ~cl[i].late
  /\ cl' = [cl EXCEPT ![i].late = TRUE] /\ UNCHANGED <<sqs, sq, role, chain, surp>>
-----------------------------------------------------------------------------
(* The thread of createBlock.                                              *)
Thread(s) == sq' = s /\ UNCHANGED <<sqs, cl, chain, surp>>

Size(q) == FoldLeft(LAMBDA n, i : n + sqs.size[i], 0, q)

\* An item taken from a queue joins the block, ends the gathering, or is refused.
Take(s, i) ==
  IF cl[i].gone THEN Return(s, i, "ctx")
  ELSE IF sqs.size[i] > MaxTxDataSize THEN Return(s, i, "oversized")
  ELSE IF Size(s.items) + sqs.size[i] > MaxTxDataSize THEN [s EXCEPT !.retry = Append(@, i), !.pc = "check"]
  ELSE [s EXCEPT !.items = Append(@, i)]

\* The start of createBlock.
StartBlock ==
  /\ sq.pc = "idle"
  /\ Thread([ExpireFailures(sq) EXCEPT !.pc = "gather", !.items = <<>>]) /\ UNCHANGED role

\* One turn of the loop that gathers the items.
Gather ==
  /\ sq.pc = "gather"
  /\ \/ /\ sq.retry # <<>> /\ UNCHANGED role
        /\ Thread(Take([sq EXCEPT !.retry = Tail(@)], sq.retry[1]))
     \/ /\ sq.retry = <<>> /\ sq.queue # <<>> /\ UNCHANGED role
        /\ Thread(Take([sq EXCEPT !.queue = Tail(@)], sq.queue[1]))
     \/ /\ sq.retry = <<>> /\ sq.items = <<>> /\ sq.fails # <<>> /\ cl[sq.fails[1]].late /\ UNCHANGED role
        /\ Thread(ExpireFailures(sq))
     \/ /\ sq.retry = <<>> /\ sq.items = <<>> /\ role.note
        /\ role' = [role EXCEPT !.note = FALSE]
        /\ Thread(IF role.fwd # 0 THEN ClearFailures(sq) ELSE sq)
     \/ /\ sq.retry = <<>> /\ sq.queue = <<>> /\ sq.items # <<>> /\ UNCHANGED role
        /\ Thread([sq EXCEPT !.pc = "check"])

Precheck ==
  /\ sq.pc = "check"
  /\ Thread([PrecheckNonces(BeginNewBlock(sq)) EXCEPT !.pc = "role"]) /\ UNCHANGED role

\* handleInactive, from before the block ("role") or after ErrRetrySequencer
\* ("again"): it waits while paused, and takes the forwarder there is.
HandleInactive ==
  /\ sq.pc \in {"role", "again"} /\ ~role.pause /\ UNCHANGED role
  /\ Thread(IF role.fwd # 0 THEN [sq EXCEPT !.pc = "forward", !.fwd = role.fwd]
            ELSE IF sq.pc = "role" THEN [sq EXCEPT !.pc = "sequence"]
            ELSE [sq EXCEPT !.pc = "idle", !.retry = @ \o sq.items, !.items = <<>>])

\* What the forwarder answers for each item.
ForwardResults(s, res) ==
  FoldLeft(LAMBDA t, i : IF res[i] = "none" THEN [t EXCEPT !.retry = Append(@, i)] ELSE Return(t, i, res[i]),
           s, s.items)
ForwardItems ==
  /\ sq.pc = "forward" /\ UNCHANGED role
  /\ \E res \in [ToSet(sq.items) -> Forwarded(sq.fwd)] :
       Thread([ClearFailures(ForwardResults(sq, res)) EXCEPT !.pc = "idle", !.items = <<>>])

\* The background forwarding of an evicted nonce failure.
BackgroundForward ==
  \E b \in sq.bg : \E r \in Forwarded(b[2]) :
    Thread(Return([sq EXCEPT !.bg = @ \ {b}], b[1], IF r = "none" THEN "failed" ELSE r)) /\ UNCHANGED role

\* StopAndWait once the thread has ended: what is in the queues is forwarded when there is a
\* forwarder, its results are logged only; the items of a block that was not made are gone.
Stopped(s) ==
  LET left == IF role.fwd = 0 THEN <<>> ELSE s.queue \o s.retry \o s.fails
      Kept(q) == IF role.fwd = 0 THEN q ELSE <<>>
  IN [s EXCEPT !.pc = "stopped", !.queue = Kept(@), !.retry = Kept(@), !.fails = Kept(@), !.items = <<>>,
               !.dropped = @ \cup ToSet(left \o s.items)]

\* SequenceTransactions under createBlocksMutex, and what createBlock makes
\* of its result.  The L1 time is too far off: the items are dropped.  The
\* block cannot be produced.  We are not the chosen sequencer.  The insert lock
\* is taken: another attempt.  The stop cancels the write: the items go to the
\* retry queue and the thread ends.  The streamer has a message more than there are
\* blocks, or cannot write.  The message is written and appendBlock fails: the
\* streamer will make the block.  The message and its block are written.
Fates == {"ok", "gas", "failed"}
Sequence ==
  /\ sq.pc = "sequence" /\ ~sq.mutex /\ UNCHANGED <<cl, role, surp>>
  /\ \/ /\ sqs.faults > 0 /\ UNCHANGED chain
        /\ sqs' = [sqs EXCEPT !.faults = @ - 1]
        /\ sq' = [sq EXCEPT !.pc = "idle", !.items = <<>>, !.dropped = @ \cup ToSet(sq.items)]
     \/ /\ sqs.panics > 0 /\ UNCHANGED chain
        /\ sqs' = [sqs EXCEPT !.panics = @ - 1]
        /\ sq' = [ReturnAll(sq, sq.items, "failed") EXCEPT !.pc = "idle", !.items = <<>>, !.mutex = TRUE]
     \/ \E o \in [1 .. Len(sq.items) -> IF sqs.fates THEN Fates ELSE {"ok"}] :
          LET p == Produce(sq, o)
              made == \E k \in DOMAIN p.errs : p.errs[k] = "ok"
              block == [id |-> sqs.nextId, nonce |-> p.nonce,
                        txs |-> {sq.items[k] : k \in {x \in DOMAIN p.errs : p.errs[x] = "ok"}}]
              settled == [Settle(p.s, p.errs) EXCEPT !.pc = "idle", !.items = <<>>]
              failed == [ReturnAll(p.s, sq.items, "failed") EXCEPT !.pc = "idle", !.items = <<>>]
          IN \/ /\ ~made
                /\ sq' = settled /\ UNCHANGED <<sqs, chain>>
             \/ /\ made /\ ~role.chosen
                /\ sq' = [p.s EXCEPT !.pc = "again"] /\ UNCHANGED <<sqs, chain>>
             \/ /\ made /\ role.chosen /\ sqs.faults > 0 /\ UNCHANGED chain
                /\ sqs' = [sqs EXCEPT !.faults = @ - 1]
                /\ sq' = [p.s EXCEPT !.pc = "sequence"]
             \/ /\ made /\ role.chosen /\ sqs.stops > 0 /\ UNCHANGED chain
                /\ sqs' = [sqs EXCEPT !.stops = 0]
                /\ sq' = Stopped([p.s EXCEPT !.retry = @ \o sq.items, !.items = <<>>])
             \/ /\ made /\ role.chosen /\ (sq.written # NoMessage \/ sqs.faults > 0) /\ UNCHANGED chain
                /\ sqs' = [sqs EXCEPT !.faults = IF sq.written # NoMessage THEN @ ELSE @ - 1]
                /\ sq' = failed
             \/ /\ made /\ role.chosen /\ sq.written = NoMessage /\ sqs.faults > 0 /\ UNCHANGED chain
                /\ sqs' = [sqs EXCEPT !.faults = @ - 1]
                /\ sq' = [failed EXCEPT !.written = block, !.torn = @ \cup block.txs]
             \/ /\ made /\ role.chosen /\ sq.written = NoMessage
                /\ chain' = Append(chain, block)
                /\ sqs' = [sqs EXCEPT !.nextId = @ + 1]
                /\ sq' = [settled EXCEPT !.nc = CacheFinalize(@, HeadBlock.id, block.id),
                                         !.included = @ \cup block.txs]
-----------------------------------------------------------------------------
(* The coordinator, the other writers of the chain, and the shutdown.      *)

\* The streamer makes the block of a message whose block is missing (ExecuteNextMsg).
DigestWritten ==
  /\ sq.written # NoMessage /\ ~sq.mutex
  /\ chain' = Append(chain, [sq.written EXCEPT !.id = sqs.nextId])
  /\ sqs' = [sqs EXCEPT !.nextId = @ + 1]
  /\ sq' = [sq EXCEPT !.written = NoMessage, !.included = @ \cup sq.written.txs]
  /\ UNCHANGED <<cl, role, surp>>

\* Pause, Activate and ForwardTo.  When the new forwarder cannot be
\* initialised there is neither a forwarder nor a pause.
Pause == role' = [role EXCEPT !.pause = TRUE, !.fwd = 0]
Activate == role' = [role EXCEPT !.pause = FALSE, !.fwd = 0]
ForwardTo ==
  \/ role' = [role EXCEPT !.pause = FALSE, !.fwd = sqs.nextFwd, !.note = TRUE]
  \/ role' = [role EXCEPT !.pause = FALSE, !.fwd = 0]
Coordinator ==
  /\ sqs.roles > 0
  /\ sqs' = [sqs EXCEPT !.roles = @ - 1, !.nextFwd = @ + 1]
  /\ \/ "pause" \in sqs.moves /\ Pause
     \/ "activate" \in sqs.moves /\ Activate
     \/ "forward" \in sqs.moves /\ ForwardTo
     \/ "chosen" \in sqs.moves /\ role' = [role EXCEPT !.chosen = ~@]
  /\ UNCHANGED <<cl, sq, chain, surp>>

\* A delayed message of the same sender is sequenced, which needs every message to have its
\* block, or the streamer reorgs, from a message without a block on as well.
ForeignBlock ==
  /\ sqs.foreign > 0
  /\ \/ /\ sq.written = NoMessage
        /\ chain' = Append(chain, [id |-> sqs.nextId, nonce |-> HeadBlock.nonce + 1, txs |-> {}])
     \/ Len(chain) > 1 /\ chain' = SubSeq(chain, 1, Len(chain) - 1)
  /\ sqs' = [sqs EXCEPT !.foreign = @ - 1, !.nextId = @ + 1]
  /\ sq' = [sq EXCEPT !.written = NoMessage]
  /\ UNCHANGED <<cl, role, surp>>

\* The update of the expected surplus takes the write lock; a writer that
\* waits holds back new readers.
SurplusLock ==
  /\ sqs.surplus /\ sqs.updates > 0 /\ ~surp.waiting
  /\ surp' = [surp EXCEPT !.waiting = TRUE] /\ sqs' = [sqs EXCEPT !.updates = @ - 1]
  /\ UNCHANGED <<cl, sq, role, chain>>
\* updateExpectedSurplus fails, or gives a value.
SurplusUpdate ==
  /\ surp.waiting /\ surp.readers = 0
  /\ \E u, low \in BOOLEAN : surp' = [surp EXCEPT !.waiting = FALSE, !.updated = u, !.low = low]
  /\ UNCHANGED <<sqs, cl, sq, role, chain>>

\* StopAndWait: the thread ends between two blocks, where it waits for an item, or in a pause.
StopAndWait ==
  /\ sqs.stops > 0 /\ sqs' = [sqs EXCEPT !.stops = 0]
  /\ \/ sq.pc = "idle" \/ (sq.pc = "gather" /\ sq.retry = <<>> /\ sq.items = <<>>)
     \/ sq.pc \in {"role", "again"} /\ role.pause
  /\ sq' = Stopped(sq)
  /\ UNCHANGED <<cl, role, chain, surp>>
-----------------------------------------------------------------------------
SeqInit ==
  /\ sqs \in SeqScenarios
  /\ cl = [i \in Subs |-> [st |-> "new", fwd |-> 0, gone |-> FALSE, late |-> FALSE]]
  /\ sq = [queue |-> <<>>, retry |-> <<>>, fails |-> <<>>, items |-> <<>>, bg |-> {}, ans |-> [i \in Subs |-> <<>>],
           pc |-> "idle", fwd |-> 0, nc |-> NoCache(-1), mutex |-> FALSE,
           dropped |-> {}, included |-> {}, refused |-> {}, written |-> NoMessage, torn |-> {}]
  /\ role = [pause |-> sqs.paused, fwd |-> 0, note |-> FALSE, chosen |-> TRUE]
  /\ chain = <<[id |-> 0, nonce |-> 0, txs |-> {}]>>
  /\ surp = [low |-> FALSE, updated |-> TRUE, readers |-> 0, waiting |-> FALSE]

ThreadNext ==
  \/ StartBlock \/ Gather \/ Precheck \/ HandleInactive \/ ForwardItems \/ BackgroundForward \/ Sequence
SeqNext ==
  \/ ThreadNext
  \/ \E i \in Subs : \/ Publish(i) \/ PublishForward(i) \/ Enqueue(i) \/ Abort(i)
                     \/ QueueTimeout(i) \/ FailureExpiry(i)
  \/ Coordinator \/ DigestWritten \/ ForeignBlock \/ SurplusLock \/ SurplusUpdate \/ StopAndWait

\* The sequencer's thread has nothing to do.
ThreadWaits ==
  \/ sq.pc = "gather" /\ sq.retry = <<>> /\ sq.queue = <<>> /\ sq.items = <<>> /\ ~role.note
     /\ ~(sq.fails # <<>> /\ cl[sq.fails[1]].late)
  \/ sq.pc \in {"role", "again"} /\ role.pause
  \/ sq.pc = "sequence" /\ sq.mutex
  \/ sq.pc = "stopped"

SeqSpec == SeqInit /\ [][SeqNext]_seqVars
-----------------------------------------------------------------------------
(* Properties.                                                             *)
InPlaces(i) ==
  LET q == sq.queue \o sq.retry \o sq.fails \o sq.items \o SetToSeq({b[1] : b \in sq.bg})
  IN Cardinality({k \in DOMAIN q : q[k] = i})

\* A submission in txQueue is in one place until it has its result: the queue,
\* the retry queue, the nonce failures, the block that is built or a background
\* forwarding, and after its result it is in none.  A second place would be a
\* second result on a closed channel, none a caller that hears nothing.  The
\* exceptions are the return without an answer when the L1 clock is too far off,
\* the items StopAndWait forwards, and those of a block that a stop finds paused.
OnePlace ==
  \A i \in Subs :
    /\ InPlaces(i) <= 1
    /\ sq.ans[i] # <<>> \/ i \in sq.dropped \/ cl[i].st \notin {"wait", "done"} => InPlaces(i) = 0
    /\ cl[i].st = "wait" /\ sq.ans[i] = <<>> /\ i \notin sq.dropped => InPlaces(i) = 1

\* No resultChan gets a second result (returnResult closes it).
AnsweredOnce == \A i \in Subs : Len(sq.ans[i]) <= 1

\* A caller that is told its transaction failed does not find it in a block, unless its message
\* was written and appending the block is what failed; then the transaction still gets into the
\* chain.  One that is told it succeeded does, unless transactions are forwarded.  What is in the
\* chain waits in no queue (sequenceTransactionsWithBlockMutex, createBlock).
TruthfulResult ==
  \A i \in Subs : /\ i \in sq.included \ sq.torn => \A k \in DOMAIN sq.ans[i] : sq.ans[i][k] = "ok"
                  /\ ToSet(sq.ans[i]) = {"ok"} /\ "forward" \notin sqs.moves => i \in sq.included
                  /\ i \in sq.included => i \notin ToSet(sq.retry \o sq.queue \o sq.fails \o sq.items)

\* As long as only the sequencer makes blocks, a transaction is refused or set
\* aside by the nonce check only if its nonce is not the account's nonce.
NonceCheckRight == sqs.foreign0 = 0 => \A r \in sq.refused : Nonce(r[1]) # r[2]

\* Every submission in the queue gets a result, or was dropped as above.
QueueAnswers ==
  \A i \in 1 .. 3 : (i \in Subs /\ cl[i].st = "wait")
                     ~> (i \in Subs /\ (sq.ans[i] # <<>> \/ i \in sq.dropped \/ cl[i].st = "done" \/ sq.mutex \/ sq.pc = "stopped"))

\* "if expected surplus is lower than this value, new incoming transactions
\* will be denied": a submission is denied or taken, not held for ever.
SurplusDecides == \A i \in 1 .. 3 : (i \in Subs /\ cl[i].st = "new") ~> (i \in Subs /\ cl[i].st # "new")

-----------------------------------------------------------------------------
(***************************************************************************)
(* What stands before the sequencer on a node that does not sequence: the  *)
(* checks of TxPreChecker (execution/gethexec/tx_pre_checker.go) and the   *)
(* RedisTxForwarder that follows the chosen sequencer (forwarder.go).      *)
(***************************************************************************)

CONSTANTS
  FwUrls,        \* the sequencers' URLs
  FwSaturated,   \* the errors from which the retry interval is the update interval
  FwScenarios,   \* static URL and the budget of changes around the forwarder
  TxGas,         \* params.TxGas
  PcInputs       \* transactions and states for PreCheckTx

VARIABLES
  fwq,    \* the scenario
  rf,     \* the forwarder: currentTarget, errors and the TxForwarder
  redis,  \* what the coordinator's keys say: up, chosen and recommended sequencer
  reach,  \* the URLs that answer
  pcx     \* a transaction at the pre-checker

fwVars == <<fwq, rf, redis, reach>>
None == ""
-----------------------------------------------------------------------------
(* RedisTxForwarder.                                                       *)

\* retryAfterError (the errors count up to saturation) and noError.
RetryAfterError(f) == [f EXCEPT !.errors = IF @ < FwSaturated THEN @ + 1 ELSE @]
NoError(f) == [f EXCEPT !.errors = 0]

\* shouldFallbackToStatic.
ShouldFallback(f) ==
  f.target = None \/ (f.errors + 1 >= FwSaturated /\ fwq.fallback # None /\ fwq.fallback # f.target)

\* TxForwarder.Initialize: no client for an unreachable URL is an error, none
\* for an empty URL is not.
InitializeFails(url) == url # None /\ url \notin reach
NoForwarder == [target |-> "nil", enabled |-> FALSE]
NewForwarder(url) == [target |-> url, enabled |-> url # None]

\* setForwarder: the old one is disabled and replaced.
Install(f, url) == [f EXCEPT !.target = url, !.fwd = NewForwarder(url)]

\* The loop of update that initialises the new forwarder.
Dial(f, url, next) ==
  LET done(g, n) == IF n = "error" THEN RetryAfterError(g) ELSE NoError(g) IN
  IF ~InitializeFails(url) THEN done(Install(f, url), next)
  ELSE IF ShouldFallback(f) /\ url # fwq.fallback
  THEN IF InitializeFails(fwq.fallback) THEN RetryAfterError(f) ELSE done(Install(f, fwq.fallback), "error")
  ELSE RetryAfterError(f)

\* CurrentChosenSequencer, else RecommendSequencerWantingLockout.
RedisUrl == IF ~redis.up THEN None ELSE IF redis.chosen # None THEN redis.chosen ELSE redis.wants

Switch(f, url, next) ==
  IF url = f.target THEN (IF next = "error" THEN RetryAfterError(f) ELSE NoError(f)) ELSE Dial(f, url, next)

\* update.
Update ==
  /\ rf' = IF ~fwq.redis
           THEN IF fwq.fallback = None THEN RetryAfterError(rf) ELSE Switch(rf, fwq.fallback, "none")
           ELSE IF RedisUrl # None THEN Switch(rf, RedisUrl, "none")
           ELSE IF ShouldFallback(rf) /\ fwq.fallback # None THEN Switch(rf, fwq.fallback, "error")
           ELSE RetryAfterError(rf)
  /\ UNCHANGED <<fwq, redis, reach>>

\* Redis and the sequencers change.
Elsewhere ==
  /\ fwq.changes > 0 /\ fwq' = [fwq EXCEPT !.changes = @ - 1]
  /\ \/ \E up \in BOOLEAN, c, w \in FwUrls \cup {None} : redis' = [up |-> up, chosen |-> c, wants |-> w] /\ UNCHANGED reach
     \/ \E u \in FwUrls : reach' = (IF u \in reach THEN reach \ {u} ELSE reach \cup {u}) /\ UNCHANGED redis
  /\ UNCHANGED rf

FwInit ==
  /\ fwq \in FwScenarios
  /\ rf = [target |-> None, errors |-> 0, fwd |-> NoForwarder]
  /\ redis = [up |-> TRUE, chosen |-> None, wants |-> None]
  /\ reach = FwUrls
FwNext == Update \/ Elsewhere
\* CallIterativelySafe keeps calling update.
-----------------------------------------------------------------------------
(* PreCheckTx.                                                             *)
Strictness == {0, 10, 20, 30}

\* The block that is RequiredStateAge old, at most RequiredStateMaxBlocks
\* back; times are those of the blocks from genesis to the head.
OldHeader(times, now, age, max) ==
  LET back[n \in 1 .. Len(times)] ==
        IF now - times[n] < age /\ (max = 0 \/ Len(times) - n < max) /\ n > 1 THEN back[n - 1] ELSE n
  IN back[Len(times)]

FeeFloor(x, strict) == IF strict < 20 THEN x.minFee ELSE x.baseFee

NonceTooHigh(x, strict) == strict >= 30 /\ x.nonce > x.stateNonce

\* The error, or "ok".
PreCheckTx(x, strict) ==
  CASE strict < 10 -> "ok"
    [] x.gas < TxGas -> "intrinsic"
    [] ~x.type -> "type"
    [] x.feeCap < FeeFloor(x, strict) -> "feecap"
    [] x.nonce < x.stateNonce -> "nonce"
    [] x.gas < x.intrinsic -> "intrinsic"
    [] strict < 20 -> "ok"
    [] x.cond /\ ~x.condNow -> "condition"
    [] x.cond /\ OldHeader(x.times, x.now, x.age, x.max) # Len(x.times) /\ ~x.condOld -> "condition"
    [] ~x.funds -> "funds"
    [] NonceTooHigh(x, strict) -> "nonce"
    [] x.gas < x.intrinsic + x.dataGas -> "intrinsic"
    [] OTHER -> "ok"

\* TxPreChecker.PublishTransaction: the publisher behind it gets what passes.
PcPublish ==
  /\ pcx.st = "new"
  /\ pcx' = [pcx EXCEPT !.st = IF PreCheckTx(pcx.x, pcx.strict) = "ok" THEN "published" ELSE "refused"]

PcInit == pcx \in [st : {"new"}, x : PcInputs, strict : Strictness]
PcNext == PcPublish
-----------------------------------------------------------------------------
(* Properties.                                                             *)

\* With a static URL the forwarder that is in use is enabled, whatever could not
\* be reached on the way (PublishTransaction does not answer ErrNoSequencer).
ForwarderUsable == fwq.fallback # None => rf.fwd.enabled \/ rf.fwd = NoForwarder

\* When Redis names one sequencer and it answers, transactions go to it.
FollowsChosen ==
  \A u \in FwUrls : <>[](fwq.redis /\ redis.up /\ redis.chosen = u /\ u \in reach) => <>[](rf.fwd.target = u)

\* What the current state would make of the transaction (external).
Succeeds(x) == /\ x.type /\ x.funds /\ x.nonce = x.stateNonce /\ x.feeCap >= x.baseFee
               /\ x.gas >= x.intrinsic + x.dataGas /\ (x.cond => x.condNow)

\* The strictness levels keep what their help text says: at 10 nothing is
\* refused that the current state would execute, at 30 what is published
\* would be executed, and a higher level refuses what a lower one does.
StrictnessLevels ==
  /\ pcx.strict <= 10 /\ pcx.st = "refused" => ~Succeeds(pcx.x)
  /\ pcx.strict = 30 /\ pcx.st = "published" => Succeeds(pcx.x)
  /\ pcx.st = "published" => \A s \in Strictness : s < pcx.strict => PreCheckTx(pcx.x, s) = "ok"

\* The old state of the conditions is the newest that is old enough, unless
\* the search has reached genesis or its limit.
OldStateNewest ==
  LET x == pcx.x  n == OldHeader(x.times, x.now, x.age, x.max) IN
  /\ \A m \in n + 1 .. Len(x.times) : x.now - x.times[m] < x.age
  /\ x.now - x.times[n] >= x.age \/ n = 1 \/ (x.max > 0 /\ Len(x.times) - n = x.max)

\* A transaction gets one answer, and it is the truth: from the pre-checker, which refuses what
\* its strictness says on the right old state, and from the sequencer, whose submission is in
\* one place until it is answered (PreCheckTx, createBlock, returnResult).
SubmissionsTruthful ==
  /\ OnePlace /\ AnsweredOnce /\ TruthfulResult /\ NonceCheckRight
  /\ StrictnessLevels /\ OldStateNewest
=============================================================================
