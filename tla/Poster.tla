------------------------------- MODULE Poster -------------------------------
(***************************************************************************)
(* Batch posters (arbnode/batch_poster.go) over their data posters         *)
(* (arbnode/dataposter/data_poster.go) and the queue of transactions that  *)
(* they share in Redis (arbnode/dataposter/redis), or that one of them     *)
(* keeps in its database or in memory.  Every poster has two threads: one  *)
(* builds batches and hands them to the data poster, the other prunes the  *)
(* queue and sends its transactions again, at higher fees.  Whether the    *)
(* Redis lock is free is any answer: nothing here may depend on it.        *)
(* A transaction has weight one, and its fee is the number of its          *)
(* replacements.                                                           *)
(***************************************************************************)
EXTENDS Integers, FiniteSets, Sequences

CONSTANTS
  Posters,       \* the processes
  MaxQueued,     \* config.MaxQueuedTransactions, zero for no limit
  MaxMempool,    \* config.MaxMempoolTransactions, zero for no limit
  PosterBudgets, \* the scenarios: how often each event of the outside may happen
  NoBatch        \* b.building == nil

VARIABLES
  log,       \* the streamer's messages: its i-th is <<i, how often it was reorged>>
  queue,     \* the stored queue: a function from nonces to items
  mempool,   \* the transactions that were broadcast
  l1,        \* the transactions of the sender on the parent chain, by nonce
  fin,       \* how many of them are final
  inbox,     \* inbox[p]: how many batches the inbox tracker of p has
  building,  \* building[p]
  stale,     \* stale[p]: the streamer was reorged under building[p]
  dpNonce,   \* dpNonce[p]: the nonce field of the data poster
  bt,        \* bt[p]: where the batch poster thread of p is
  dt,        \* dt[p]: where the data poster thread of p is
  halted,    \* halted[p]: batchReverted
  quota      \* what is left of the scenario

posterVars == <<log, queue, mempool, l1, fin, inbox, building, stale, dpNonce, bt, dt, halted, quota>>

Quotas == [posters : SUBSET Posters, persistent : BOOLEAN, das : BOOLEAN, lag : BOOLEAN,
           msg : Nat, hold : Nat, rep : Nat, lost : Nat, crash : Nat, l1reorg : Nat, reorg : Nat]

\* A queue that does not persist is in the memory of one process.
ASSUME BudgetsAssumption ==
  /\ PosterBudgets \subseteq Quotas
  /\ \A q \in PosterBudgets : q.persistent \/ \A p, r \in q.posters : p = r

BtIdle == [pc |-> "idle"]
DtIdle == [pc |-> "idle", todo |-> {}]

PosterInit ==
  /\ log = <<>> /\ queue = <<>> /\ mempool = {} /\ l1 = <<>> /\ fin = 0
  /\ inbox = [p \in Posters |-> 0] /\ building = [p \in Posters |-> NoBatch]
  /\ stale = [p \in Posters |-> FALSE] /\ dpNonce = [p \in Posters |-> 0]
  /\ bt = [p \in Posters |-> BtIdle] /\ dt = [p \in Posters |-> DtIdle]
  /\ halted = [p \in Posters |-> FALSE]
  /\ quota \in PosterBudgets

Spend(field) == quota[field] > 0 /\ quota' = [quota EXCEPT ![field] = @ - 1]

-----------------------------------------------------------------------------
\* The queue.  FetchLast is the item of the highest nonce.
LastNonce == CHOOSE n \in DOMAIN queue : \A m \in DOMAIN queue : m <= n
FetchContents(from, max) ==
  {[nonce |-> n, prev |-> queue[n]] : n \in {m \in DOMAIN queue : m >= from /\ m < from + max}}
Prune(q, until) == [n \in {m \in DOMAIN q : m >= until} |-> q[n]]

\* A variant that stores the item whatever is there.
PutBlind(nonce, prev, item) == TRUE

\* Put succeeds when the stored item is the one that the caller saw: prev has that item, or is
\* empty where it is nil in the code.
PutOK(nonce, prev, item) == prev = {queue[n] : n \in DOMAIN queue \cap {nonce}}
MarkedSent(item) == [batch |-> item.batch, fee |-> item.fee, rep |-> item.rep, sent |-> TRUE]
Stored(nonce, item) == [n \in DOMAIN queue \cup {nonce} |-> IF n = nonce THEN item ELSE queue[n]]

\* The sequencer inbox accepts a batch that starts where the last one ended.
Accepts(done, batch) ==
  batch.seq = Len(done) /\ batch.from = (IF done = <<>> THEN 0 ELSE done[Len(done)].to)
Accepted(txs) ==
  LET done[i \in 0..Len(txs)] ==
        IF i = 0 THEN <<>>
        ELSE IF Accepts(done[i - 1], txs[i].batch) THEN Append(done[i - 1], txs[i].batch) ELSE done[i - 1]
  IN  done[Len(txs)]
HasRevert(txs) == Len(Accepted(txs)) < Len(txs)
Position(batches) ==
  [count |-> IF batches = <<>> THEN 0 ELSE batches[Len(batches)].to, seq |-> Len(batches)]
PositionAfter(batch) == [count |-> batch.to, seq |-> batch.seq + 1]

\* canPostWithNonce: no limit where it is zero.  The limit on the weight is not zero, so that
\* the nonce is compared with the parent chain's.
CanPostWithNonce(nonce) ==
  /\ MaxQueued > 0 => Cardinality(DOMAIN queue) < MaxQueued
  /\ MaxMempool > 0 => nonce < MaxMempool + Len(l1)
  /\ Len(l1) <= nonce

\* What GetNextNonceAndMeta may return: the successor of the last item of the queue or, when
\* the queue is empty, the nonce and the position at the final block, or at a recent one when
\* that is not available and the queue persists.  No element is an error.
NextNonceAndMeta(p) ==
  IF DOMAIN queue # {}
  THEN {x \in {[nonce |-> LastNonce + 1, pos |-> PositionAfter(queue[LastNonce].batch)]} :
          CanPostWithNonce(x.nonce)}
  ELSE {[nonce |-> IF n > dpNonce[p] THEN n ELSE dpNonce[p],
         pos |-> Position(Accepted(SubSeq(l1, 1, n)))] :
          n \in {m \in fin..(IF quota.persistent THEN Len(l1) ELSE fin) :
                   Len(Accepted(SubSeq(l1, 1, m))) <= inbox[p]}}

DpFree(p) == bt[p].pc \notin {"put", "send", "mark"} /\ dt[p].pc = "idle"

-----------------------------------------------------------------------------

\* The batch under construction is started anew when it does not start at the position.
StartBuilding(p, pos) ==
  IF building[p] = NoBatch \/ building[p].start # pos.count
  THEN [start |-> pos.count, data |-> <<>>] ELSE building[p]

\* The batch is complete.
TakeBatch(p, x, to, data) ==
  bt' = [bt EXCEPT ![p] =
          [pc |-> IF quota.das THEN "das" ELSE "post", nonce |-> x.nonce, pos |-> x.pos,
           batch |-> [seq |-> x.pos.seq, from |-> x.pos.count, to |-> to, data |-> data]]]

\* One poll in which this poster could not take the lock.
PollWithoutLock(p) ==
  /\ bt[p].pc = "idle" /\ building[p] # NoBatch
  /\ building' = [building EXCEPT ![p] = NoBatch]
  /\ stale' = [stale EXCEPT ![p] = FALSE]
  /\ UNCHANGED <<log, queue, mempool, l1, fin, inbox, dpNonce, bt, dt, halted, quota>>

\* maybePostSequencerBatch up to the batch's bytes: the position, the messages from there up
\* to the one that does not fit or is too new, and whether it is time to post.
MaybePostSequencerBatch(p) ==
  /\ bt[p].pc = "idle" /\ DpFree(p) /\ ~halted[p]
  /\ \E x \in NextNonceAndMeta(p) :
       LET b == StartBuilding(p, x.pos)
           at == b.start + Len(b.data)
       IN /\ inbox[p] <= x.pos.seq
          /\ Len(log) > x.pos.count
          /\ \E to \in at..(IF at < Len(log) THEN Len(log) ELSE at) :
               LET data == b.data \o SubSeq(log, at + 1, to) IN
               /\ data # <<>>
               /\ building' = [building EXCEPT ![p] = [b EXCEPT !.data = data]]
               /\ stale' = [stale EXCEPT ![p] = @ /\ b = building[p]]
               /\ \/ bt' = bt /\ building' # building /\ Spend("hold")
                  \/ UNCHANGED quota /\ TakeBatch(p, x, to, data)
  /\ dpNonce' = [dpNonce EXCEPT ![p] = IF DOMAIN queue = {} /\ fin > @ THEN fin ELSE @]
  /\ UNCHANGED <<log, queue, mempool, l1, fin, inbox, dt, halted>>

\* An error ends the poll and drops the batch under construction; so does success.
EndPoll(p) ==
  /\ bt' = [bt EXCEPT ![p] = BtIdle]
  /\ building' = [building EXCEPT ![p] = NoBatch]
  /\ stale' = [stale EXCEPT ![p] = FALSE]

\* With a DAS writer: the lock, the position once more, and the store.
PostToDAS(p) ==
  /\ bt[p].pc = "das" /\ DpFree(p)
  /\ \/ /\ [nonce |-> bt[p].nonce, pos |-> bt[p].pos] \in NextNonceAndMeta(p)
        /\ bt' = [bt EXCEPT ![p] = [pc |-> "post", nonce |-> @.nonce, pos |-> @.pos, batch |-> @.batch]]
        /\ UNCHANGED <<building, stale>>
     \/ EndPoll(p)
  /\ UNCHANGED <<log, queue, mempool, l1, fin, inbox, dpNonce, dt, halted, quota>>

\* PostTransaction up to the signed transaction: only the nonce is compared again.
PostTransaction(p) ==
  /\ bt[p].pc = "post" /\ DpFree(p)
  /\ IF \E x \in NextNonceAndMeta(p) : x.nonce = bt[p].nonce
     THEN /\ bt' = [bt EXCEPT ![p] = [pc |-> "put", nonce |-> bt[p].nonce,
                      item |-> [batch |-> bt[p].batch, fee |-> 0, rep |-> 0, sent |-> FALSE]]]
          /\ UNCHANGED <<building, stale>>
     ELSE EndPoll(p)
  /\ UNCHANGED <<log, queue, mempool, l1, fin, inbox, dpNonce, dt, halted, quota>>

\* The first saveTx of sendTx.  The answer of Redis may be lost after the item was stored.
SavePosted(p) ==
  /\ bt[p].pc = "put"
  /\ \/ /\ PutOK(bt[p].nonce, {}, bt[p].item)
        /\ queue' = Stored(bt[p].nonce, bt[p].item)
        /\ \/ /\ bt' = [bt EXCEPT ![p] = [pc |-> "send", nonce |-> @.nonce, item |-> @.item]] /\ UNCHANGED <<building, stale, quota>>
           \/ EndPoll(p) /\ Spend("lost")
     \/ /\ ~PutOK(bt[p].nonce, {}, bt[p].item)
        /\ EndPoll(p) /\ UNCHANGED <<queue, quota>>
  /\ UNCHANGED <<log, mempool, l1, fin, inbox, dpNonce, dt, halted>>

\* SendTransaction: the parent chain's node takes it, knows it already, or the call fails.
SendPosted(p) ==
  /\ bt[p].pc = "send"
  /\ \/ /\ mempool' = mempool \cup
               {[nonce |-> bt[p].nonce, fee |-> bt[p].item.fee, batch |-> bt[p].item.batch]}
        /\ bt' = [bt EXCEPT ![p] = [pc |-> "mark", nonce |-> @.nonce, item |-> @.item]]
        /\ UNCHANGED <<building, stale, quota>>
     \/ EndPoll(p) /\ Spend("lost") /\ UNCHANGED mempool
  /\ UNCHANGED <<log, queue, l1, fin, inbox, dpNonce, dt, halted>>

\* The second saveTx of sendTx.
MarkPosted(p) ==
  /\ bt[p].pc = "mark"
  /\ queue' = IF PutOK(bt[p].nonce, {bt[p].item}, bt[p].item)
              THEN Stored(bt[p].nonce, MarkedSent(bt[p].item)) ELSE queue
  /\ EndPoll(p)
  /\ UNCHANGED <<log, mempool, l1, fin, inbox, dpNonce, dt, halted, quota>>

-----------------------------------------------------------------------------
\* A variant that also prunes the last final transaction.
UpdateNoncePrunesAll(p) ==
  IF fin > dpNonce[p]
  THEN queue' = Prune(queue, fin) /\ dpNonce' = [dpNonce EXCEPT ![p] = fin]
  ELSE UNCHANGED <<queue, dpNonce>>

\* updateNonce: the queue is pruned up to the last final transaction, which stays.
UpdateNonce(p) ==
  IF fin > dpNonce[p]
  THEN queue' = Prune(queue, fin - 1) /\ dpNonce' = [dpNonce EXCEPT ![p] = fin]
  ELSE UNCHANGED <<queue, dpNonce>>

\* How many items one iteration looks at.
MaxTxsToRbf == IF MaxMempool = 0 THEN 512 ELSE MaxMempool

\* One iteration of Start begins: the nonce, then the items that are not yet in a block; those
\* that are sent and will not be replaced need nothing.
DataPosterPoll(p) ==
  LET todo == {x \in FetchContents(Len(l1), MaxTxsToRbf) : ~x.prev.sent \/ quota.rep > 0} IN
  /\ DpFree(p)
  /\ UpdateNonce(p)
  /\ dt' = [dt EXCEPT ![p] = [pc |-> IF todo = {} THEN "idle" ELSE "item", todo |-> todo]]
  /\ UNCHANGED <<log, mempool, l1, fin, inbox, building, stale, bt, halted, quota>>

\* The iteration goes on with the items that are left.
NextItem(todo) == [pc |-> IF todo = {} THEN "idle" ELSE "item", todo |-> todo]

Replacement(prev, fee) ==
  [batch |-> prev.batch, fee |-> fee, rep |-> prev.rep + 1, sent |-> prev.sent /\ fee = prev.fee]
HoldItem(p, x, item) ==
  dt' = [dt EXCEPT ![p] = [pc |-> "send", todo |-> dt[p].todo \ {x}, nonce |-> x.nonce, item |-> item]]
SkipItem(p, x) == dt' = [dt EXCEPT ![p] = NextItem(dt[p].todo \ {x})]

\* replaceTx with a higher fee or with a later time only, or the re-send of an item that is
\* not marked as sent; sendTx stores the item first when it changed.  Items come in the order
\* of their nonces.
SaveItem(p) ==
  /\ dt[p].pc = "item"
  /\ \E x \in dt[p].todo :
       /\ \A y \in dt[p].todo : x.nonce <= y.nonce
       /\ \/ /\ Spend("rep")
             /\ \E fee \in {x.prev.fee, x.prev.fee + 1} :
                  LET item == Replacement(x.prev, fee) IN
                  IF PutOK(x.nonce, {x.prev}, item) THEN queue' = Stored(x.nonce, item) /\ HoldItem(p, x, item)
                  ELSE UNCHANGED queue /\ SkipItem(p, x)
          \/ /\ UNCHANGED <<queue, quota>>
             /\ IF ~x.prev.sent THEN HoldItem(p, x, x.prev) ELSE SkipItem(p, x)
  /\ UNCHANGED <<log, mempool, l1, fin, inbox, building, stale, dpNonce, bt, halted>>

SendItem(p) ==
  /\ dt[p].pc = "send"
  /\ \/ /\ mempool' = mempool \cup {[nonce |-> dt[p].nonce, fee |-> dt[p].item.fee, batch |-> dt[p].item.batch]}
        /\ dt' = [dt EXCEPT ![p] = [pc |-> "mark", todo |-> @.todo, nonce |-> @.nonce, item |-> @.item]] /\ UNCHANGED quota
     \/ dt' = [dt EXCEPT ![p] = NextItem(@.todo)] /\ Spend("lost") /\ UNCHANGED mempool
  /\ UNCHANGED <<log, queue, l1, fin, inbox, building, stale, dpNonce, bt, halted>>

MarkItem(p) ==
  /\ dt[p].pc = "mark"
  /\ queue' = IF ~dt[p].item.sent /\ PutOK(dt[p].nonce, {dt[p].item}, dt[p].item)
              THEN Stored(dt[p].nonce, MarkedSent(dt[p].item)) ELSE queue
  /\ dt' = [dt EXCEPT ![p] = NextItem(@.todo)]
  /\ UNCHANGED <<log, mempool, l1, fin, inbox, building, stale, dpNonce, bt, halted, quota>>

\* pollForReverts.
PollForReverts(p) ==
  /\ ~halted[p] /\ HasRevert(l1)
  /\ halted' = [halted EXCEPT ![p] = TRUE]
  /\ UNCHANGED <<log, queue, mempool, l1, fin, inbox, building, stale, dpNonce, bt, dt, quota>>

\* A crash and a restart.  A queue in memory is lost.
PosterCrash(p) ==
  /\ Spend("crash")
  /\ bt' = [bt EXCEPT ![p] = BtIdle] /\ dt' = [dt EXCEPT ![p] = DtIdle]
  /\ building' = [building EXCEPT ![p] = NoBatch] /\ stale' = [stale EXCEPT ![p] = FALSE]
  /\ dpNonce' = [dpNonce EXCEPT ![p] = 0] /\ halted' = [halted EXCEPT ![p] = FALSE]
  /\ queue' = IF quota.persistent THEN queue ELSE <<>>
  /\ UNCHANGED <<log, mempool, l1, fin, inbox>>

-----------------------------------------------------------------------------
\* The streamer gets a message.
NewMessage ==
  /\ Spend("msg")
  /\ log' = Append(log, <<Len(log) + 1, 0>>)
  /\ UNCHANGED <<queue, mempool, l1, fin, inbox, building, stale, dpNonce, bt, dt, halted>>

\* The streamer replaces messages that are in no accepted batch.
LogReorg ==
  /\ Spend("reorg")
  /\ \E k \in (Position(Accepted(l1)).count + 1)..Len(log) :
       log' = [i \in 1..Len(log) |-> IF i < k THEN log[i] ELSE <<i, log[i][2] + 1>>]
  /\ stale' = [p \in Posters |-> building[p] # NoBatch]
  /\ UNCHANGED <<queue, mempool, l1, fin, inbox, building, dpNonce, bt, dt, halted>>

\* The inbox readers follow the parent chain at once, or late where the scenario says so.
InboxFollows == inbox' = IF quota.lag THEN inbox ELSE [p \in Posters |-> Len(Accepted(l1'))]

\* The parent chain includes a broadcast transaction of the next nonce.
Include ==
  /\ \E tx \in mempool : tx.nonce = Len(l1) /\ l1' = Append(l1, tx)
  /\ InboxFollows
  /\ UNCHANGED <<log, queue, mempool, fin, building, stale, dpNonce, bt, dt, halted, quota>>

\* A transaction becomes final.  That takes many minutes, so no poster is still between the
\* check of that nonce and its store.
PosterFinalize ==
  /\ fin < Len(l1) /\ fin' = fin + 1
  /\ \A p \in Posters : bt[p].pc = "put" => bt[p].nonce > fin
  /\ UNCHANGED <<log, queue, mempool, l1, inbox, building, stale, dpNonce, bt, dt, halted, quota>>

PosterL1Reorg ==
  /\ Len(l1) > fin /\ Spend("l1reorg")
  /\ \E k \in fin..(Len(l1) - 1) : l1' = SubSeq(l1, 1, k)
  /\ InboxFollows
  /\ UNCHANGED <<log, queue, mempool, fin, building, stale, dpNonce, bt, dt, halted>>

\* The inbox reader of p catches up with the parent chain.
InboxRead(p) ==
  /\ quota.lag /\ inbox[p] # Len(Accepted(l1))
  /\ inbox' = [inbox EXCEPT ![p] = Len(Accepted(l1))]
  /\ UNCHANGED <<log, queue, mempool, l1, fin, building, stale, dpNonce, bt, dt, halted, quota>>

PosterStep(p) ==
  \/ PollWithoutLock(p) \/ MaybePostSequencerBatch(p) \/ PostToDAS(p) \/ PostTransaction(p)
  \/ SavePosted(p) \/ SendPosted(p) \/ MarkPosted(p)
  \/ DataPosterPoll(p) \/ SaveItem(p) \/ SendItem(p) \/ MarkItem(p)
  \/ PollForReverts(p) \/ InboxRead(p) \/ PosterCrash(p)

PosterNext ==
  \/ \E p \in quota.posters : PosterStep(p)
  \/ NewMessage \/ LogReorg \/ Include \/ PosterFinalize \/ PosterL1Reorg

PosterSpec == PosterInit /\ [][PosterNext]_posterVars

-----------------------------------------------------------------------------
\* The transactions of the queue have consecutive nonces, and every batch starts where the
\* batch of the nonce before it ended, although two posters build and store batches at once
\* and only the nonce is compared when a batch is posted (PostTransaction, Put).
QueueChained ==
  \A n \in DOMAIN queue :
    (n + 1 <= LastNonce) =>
      n + 1 \in DOMAIN queue /\ queue[n + 1].batch.seq = queue[n].batch.seq + 1
                             /\ queue[n + 1].batch.from = queue[n].batch.to

\* All the transactions that were ever broadcast with one nonce carry the same batch, so
\* replacing by fee never posts a different batch, and whichever is included is the stored one.
OneBatchPerNonce ==
  quota.persistent => \A t, u \in mempool : t.nonce = u.nonce => t.batch = u.batch

\* A crash at any point of sendTx leaves no broadcast transaction that the queue has
\* forgotten: what was broadcast is stored, at that fee or a higher one, until it is final.
SentIsStored ==
  quota.persistent => \A t \in mempool :
    IF t.nonce \in DOMAIN queue
    THEN queue[t.nonce].batch = t.batch /\ queue[t.nonce].fee >= t.fee
    ELSE t.nonce < fin - 1

\* While the queue persists no batch is refused by the sequencer inbox, whatever the parent
\* chain reorganizes (getNextNonceAndMaybeMeta).
NoBatchReverts == quota.persistent => ~HasRevert(l1)

\* A queue that persists keeps a reference point: it reaches at least up to the last
\* transaction in a block (updateNonce).
ReferenceKept == quota.persistent /\ l1 # <<>> => DOMAIN queue # {} /\ LastNonce + 1 >= Len(l1)

\* A stored batch has the streamer's messages of its range, unless the streamer was reorged.
BatchesFollowLog ==
  [][\A n \in DOMAIN queue' \ DOMAIN queue :
       LET b == queue'[n].batch IN
       (\A p \in Posters : ~stale[p]) => b.data = SubSeq(log, b.from + 1, b.to)]_posterVars

\* The stored queue is one chain of batches, and whatever was broadcast belongs to it, although
\* two posters build, store and send at once and may crash in between (PostTransaction, sendTx).
QueueSound == QueueChained /\ OneBatchPerNonce /\ SentIsStored

\* The batches of a queue that persists are taken by the sequencer inbox and hold the messages
\* of the streamer (maybePostSequencerBatch, getNextNonceAndMaybeMeta).
BatchesAccepted == [](NoBatchReverts /\ ReferenceKept) /\ BatchesFollowLog

-----------------------------------------------------------------------------
(* Why QueueSound holds.  Who has seen a stored item claims that its nonce *)
(* has this batch: the mempool, and the threads between two steps.         *)

Claim(nonce, item) == [nonce |-> nonce, fee |-> item.fee, batch |-> item.batch]
BtClaims(p) == {Claim(bt[p].nonce, bt[p].item) : x \in {bt[p].pc} \cap {"send", "mark"}}
DtClaims(p) ==
  {Claim(x.nonce, x.prev) : x \in dt[p].todo} \cup {Claim(dt[p].nonce, dt[p].item) : x \in {dt[p].pc} \cap {"send", "mark"}}
Claims == mempool \cup UNION {BtClaims(p) \cup DtClaims(p) : p \in Posters}

\* The types of the state, as far as the invariant needs them.
BtTypeOK(p) ==
  /\ bt[p].pc \in {"idle", "das", "post", "put", "send", "mark"}
  /\ bt[p].pc # "idle" => p \in quota.posters /\ bt[p].nonce \in Nat
  /\ bt[p].pc \in {"put", "send", "mark"} => bt[p].item.fee \in Nat
DtTypeOK(p) ==
  /\ dt[p].pc \in {"idle", "item", "send", "mark"}
  /\ \A x \in dt[p].todo : x.nonce \in Nat /\ x.prev.fee \in Nat
  /\ dt[p].pc \in {"send", "mark"} => dt[p].nonce \in Nat /\ dt[p].item.fee \in Nat
QuotaOK == quota \in Quotas /\ (quota.persistent \/ \A p, r \in quota.posters : p = r)
ChainOK == l1 \in Seq({l1[i] : i \in DOMAIN l1}) /\ fin \in 0..Len(l1)
StoreOK == queue = [n \in DOMAIN queue |-> queue[n]] /\ DOMAIN queue \subseteq Nat /\ \A n \in DOMAIN queue : queue[n].fee \in Nat
PosterTypeOK ==
  /\ QuotaOK /\ ChainOK /\ StoreOK
  /\ dpNonce \in [Posters -> Nat] /\ \A p \in Posters : dpNonce[p] <= fin
  /\ \A t \in mempool : t.nonce \in Nat /\ t.fee \in Nat
  /\ bt = [p \in Posters |-> bt[p]] /\ dt = [p \in Posters |-> dt[p]]
  /\ \A p \in Posters : BtTypeOK(p) /\ DtTypeOK(p)

Links(a, b) == b.seq = a.seq + 1 /\ b.from = a.to

\* The queue has no holes, starts no later than the final transactions end, and is linked.
QueueInv ==
  /\ DOMAIN queue = {} \/ \E lo, hi \in DOMAIN queue : lo <= fin /\ DOMAIN queue = lo..hi
  /\ \A n \in DOMAIN queue : n + 1 \in DOMAIN queue => Links(queue[n].batch, queue[n + 1].batch)

\* A batch on its way to the queue: it is for a nonce that was taken since, or follows the last.
OnItsWay(nonce, batch) ==
  IF DOMAIN queue = {} THEN nonce <= fin /\ (quota.persistent => nonce = 0)
  ELSE (\E m \in DOMAIN queue : nonce <= m) \/ (nonce - 1 \in DOMAIN queue /\ Links(queue[nonce - 1].batch, batch))

BtInv(p) ==
  /\ bt[p].pc \in {"das", "post"} => OnItsWay(bt[p].nonce, bt[p].batch)
  /\ bt[p].pc = "put" => OnItsWay(bt[p].nonce, bt[p].item.batch) /\ bt[p].nonce >= fin

\* A claim is stored, or its nonce was pruned.
ClaimStored(c) ==
  IF c.nonce \in DOMAIN queue THEN queue[c.nonce].batch = c.batch /\ queue[c.nonce].fee >= c.fee
  ELSE c.nonce < fin - 1

ClaimsAgree ==
  /\ \A c \in Claims : ClaimStored(c)
  /\ \A c, d \in Claims : c.nonce = d.nonce => c.batch = d.batch

\* The queue reaches up to the last transaction in a block.
Anchored == Len(l1) = 0 \/ \E m \in DOMAIN queue : m + 1 >= Len(l1)

PosterInv ==
  /\ PosterTypeOK /\ QueueInv
  /\ \A p \in Posters : BtInv(p)
  /\ quota.persistent => ClaimsAgree /\ Anchored
=============================================================================
