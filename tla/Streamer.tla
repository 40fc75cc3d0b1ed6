------------------------------ MODULE Streamer ------------------------------
(***************************************************************************)
(* The transaction streamer (arbnode/transaction_streamer.go) and the      *)
(* execution engine (execution/gethexec/executionengine.go) of one node.   *)
(*                                                                         *)
(* The streamer keeps the messages in a database, in memory a queue of     *)
(* feed messages that do not follow the database yet, and lets the         *)
(* execution engine make one block per message.  A message is its identity *)
(* and the number of delayed messages read so far; the block made from it  *)
(* is the message itself, on top of the blocks before it.  Positions count *)
(* from 0, so position p is index p + 1.                                   *)
(*                                                                         *)
(* insertionMutex is held by the operation in ins.  createBlocksMutex is   *)
(* held by maker.  reorgMutex is held for writing only inside reorg, which *)
(* ends before its caller writes the batch that deletes the messages.      *)
(***************************************************************************)
EXTENDS Integers, SequencesExt

CONSTANTS
  Users,            \* messages of users
  Heights, Kinds,   \* a delayed message has the height of its L1 block
  MaxLen,           \* bound on the number of messages
  ResequenceDepth,  \* MaxReorgResequenceDepth
  MaxQueueSize,     \* MaxBroadcasterQueueSize
  None

VARIABLES
  db,          \* the messages of the database
  tracker,     \* the inbox tracker's part of the same database
  queue,       \* broadcasterQueuedMessages
  queuePos,    \* broadcasterQueuedMessagesPos
  queueReorg,  \* broadcasterQueuedMessagesActiveReorg
  blocks,      \* the blockchain: the message of each block
  ins,         \* the reorg in progress under insertionMutex, or NoIns
  maker,       \* who holds createBlocksMutex: "none", "seq" or "reseq"
  making,      \* the message written whose block is not appended yet, or None
  reseq,       \* the messages the resequencing thread has still to do
  torn         \* history: a reorg changed the blocks and its messages were not
               \* replaced before something else happened

streamer == <<db, tracker, queue, queuePos, queueReorg>>
engine   == <<blocks, maker, making, reseq>>

DelayedIds == [height : Heights, kind : Kinds]

Messages == [id : Users \cup DelayedIds, dr : 0 .. MaxLen]

IsDelayed(m) == m.id \in DelayedIds

Keep(s, n) == SubSeq(s, 1, n)
Drop(s, n) == SubSeq(s, n + 1, Len(s))

NoIns == [st |-> "free"]

\* reorgMutex is write-locked while exec.Reorg runs.
ReorgLocked == ins.st = "exec"

(***************************************************************************)
(* countDuplicateMessages: how many of msgs the database already has at    *)
(* pos, and whether the next one contradicts it.                           *)
(***************************************************************************)
Duplicates(pos, msgs) ==
  LET most == Max({0, Min({Len(msgs), Len(db) - pos})})
  IN  CHOOSE k \in 0 .. most :
        /\ \A i \in 1 .. k : msgs[i] = db[pos + i]
        /\ k < most => msgs[k + 1] # db[pos + k + 1]

Contradicts(pos, msgs) ==
  LET k == Duplicates(pos, msgs) IN k < Len(msgs) /\ pos + k < Len(db)

\* getPrevPrevDelayedRead
DelayedRead(d, pos) == IF pos = 0 THEN 0 ELSE d[pos].dr

(***************************************************************************)
(* addMessagesAndEndBatchImpl up to its first write: which messages go     *)
(* where, q being the feed queue.  Confirmed messages are followed by what *)
(* the queue has after them.                                               *)
(***************************************************************************)
Plan(pos, confirmed, msgs, q) ==
  LET dups1   == IF confirmed THEN Duplicates(pos, msgs) ELSE 0
      start1  == pos + dups1
      new     == Drop(msgs, dups1)
      hasNew  == confirmed /\ new # <<>>
      after   == pos + Len(msgs)
      use     == IF q.reorg THEN start1 <= q.pos ELSE q.pos <= after
      reached == use /\ after >= q.pos
      queued  == IF reached THEN Drop(q.msgs, after - q.pos) ELSE <<>>
      all     == new \o queued
      dups2   == IF hasNew THEN 0 ELSE Duplicates(start1, all)
  IN  [start |-> start1 + dups2, rest |-> Drop(all, dups2),
       reorg |-> confirmed /\ Contradicts(pos, msgs),
       feedReorg |-> ~hasNew /\ Contradicts(start1, all),
       clear |-> use,
       clearLen |-> IF reached THEN after - q.pos + Len(queued) ELSE 0]

\* The delayed count may only stay or grow by one, from the message before.
DelayedInOrder(p) ==
  /\ p.start <= Len(db)
  /\ \A i \in 1 .. Len(p.rest) :
       LET last == IF i = 1 THEN DelayedRead(db, p.start) ELSE p.rest[i - 1].dr
       IN  p.rest[i].dr - last \in {0, 1}

Queue == [msgs |-> queue, pos |-> queuePos, reorg |-> queueReorg]

SetQueue(q) == queue' = q.msgs /\ queuePos' = q.pos /\ queueReorg' = q.reorg

\* Feed messages that arrived behind the ones used stay in the queue.
Cleared(q, p) ==
  IF ~p.clear THEN q
  ELSE IF Len(q.msgs) > p.clearLen
  THEN [msgs |-> Drop(q.msgs, p.clearLen), pos |-> q.pos + p.clearLen, reorg |-> FALSE]
  ELSE [msgs |-> <<>>, pos |-> 0, reorg |-> FALSE]

(***************************************************************************)
(* AddBroadcastMessages.  Nothing here waits, so the call is one step.     *)
(***************************************************************************)
Enqueued(pos, msgs) ==
  LET conflict == Contradicts(pos, msgs)
      fresh == [msgs |-> msgs, pos |-> pos, reorg |-> conflict]
  IN  IF queue = <<>> \/ (conflict /\ ~queueReorg) \/ queuePos >= pos THEN fresh
      ELSE IF queuePos + Len(queue) # pos THEN fresh
      ELSE [Queue EXCEPT !.msgs = IF MaxQueueSize = 0 \/ Len(queue) <= MaxQueueSize
                                  THEN @ \o msgs ELSE @]

\* A variant that lets the feed replace stored messages.
AddBroadcastMessagesOverwrites(from, feed) ==
  LET dups == Duplicates(from, feed)
      q    == Enqueued(from + dups, Drop(feed, dups))
      p    == Plan(q.pos, FALSE, <<>>, q)
      adds == q.pos <= Len(db) /\ DelayedInOrder(p) /\ p.rest # <<>>
  IN  /\ ins.st = "free"
      /\ dups < Len(feed)
      /\ db' = IF adds THEN Keep(db, p.start) \o p.rest ELSE db
      /\ SetQueue(IF adds THEN Cleared(q, p) ELSE q)
      /\ UNCHANGED <<tracker, ins, engine, torn>>

AddBroadcastMessages(from, feed) ==
  LET dups == Duplicates(from, feed)
      q    == Enqueued(from + dups, Drop(feed, dups))
      p    == Plan(q.pos, FALSE, <<>>, q)
      adds == /\ ~q.reorg /\ q.pos <= Len(db)
              /\ ~p.feedReorg /\ DelayedInOrder(p) /\ p.rest # <<>>
  IN  /\ ins.st = "free"
      /\ dups < Len(feed)
      /\ db' = IF adds THEN Keep(db, p.start) \o p.rest ELSE db
      /\ SetQueue(IF adds THEN Cleared(q, p) ELSE q)
      /\ UNCHANGED <<tracker, ins, engine, torn>>

(***************************************************************************)
(* reorg: the messages from count on are removed.  Those that may be       *)
(* sequenced again are the messages of users, and delayed messages in      *)
(* their order that the tracker and L1 (onL1) still have.                  *)
(***************************************************************************)
OldMessages(count, onL1) ==
  LET target == Min({Len(db), count + ResequenceDepth})
      ok(m, last) == /\ m.dr = last + 1
                     /\ m.dr <= Len(tracker.delayed)
                     /\ tracker.delayed[m.dr] = m.id
                     /\ m.id \in onL1
      step(acc, m) == IF ~IsDelayed(m) THEN [acc EXCEPT !.msgs = Append(@, m)]
                      ELSE IF ok(m, acc.last)
                      THEN [last |-> acc.last + 1, msgs |-> Append(acc.msgs, m)]
                      ELSE acc
  IN  FoldLeft(step, [last |-> DelayedRead(db, count), msgs |-> <<>>],
               SubSeq(db, count + 1, target)).msgs

\* The call takes insertionMutex and goes as far as the lock of exec.Reorg.  trk
\* is what the caller's batch writes to the tracker's part.
StartReorg(p, trk, kind, onL1) ==
  /\ ins.st = "free" /\ p.start > 0
  /\ ins' = [st |-> "exec", kind |-> kind, plan |-> p, trk |-> trk,
             old |-> OldMessages(p.start, onL1)]
  /\ UNCHANGED <<streamer, engine, torn>>

\* Errors of AddMessagesAndEndBatch, which then writes nothing.
AddFails(pos, msgs) ==
  LET p == Plan(pos, TRUE, msgs, Queue)
  IN  /\ Duplicates(pos, msgs) < Len(msgs)
      /\ ~p.feedReorg
      /\ ~DelayedInOrder(p) \/ (p.reorg /\ p.start = 0)

(***************************************************************************)
(* AddMessagesAndEndBatch with confirmed messages: the messages are all    *)
(* known, which is seen without a lock, or they are added, or they start a *)
(* reorg.                                                                  *)
(***************************************************************************)
AddConfirmed(pos, msgs, trk, onL1) ==
  LET p == Plan(pos, TRUE, msgs, Queue)
      known == Duplicates(pos, msgs) = Len(msgs)
  IN  /\ known \/ ins.st = "free"
      /\ IF known \/ p.feedReorg
         THEN tracker' = trk
              /\ UNCHANGED <<db, queue, queuePos, queueReorg, ins, engine, torn>>
         ELSE IF AddFails(pos, msgs) THEN UNCHANGED <<streamer, ins, engine, torn>>
         ELSE IF p.reorg THEN StartReorg(p, trk, "add", onL1)
         ELSE /\ db' = Keep(db, p.start) \o p.rest
              /\ tracker' = trk
              /\ SetQueue(Cleared(Queue, p))
              /\ UNCHANGED <<ins, engine, torn>>

\* ReorgToAndEndBatch
ReorgTo(count, trk, onL1) ==
  StartReorg([start |-> count, rest |-> <<>>, clear |-> FALSE, clearLen |-> 0],
             trk, "reorg", onL1)

(***************************************************************************)
(* ExecutionEngine.Reorg.  When there are old messages createBlocksMutex   *)
(* passes to the thread that sequences them again.  A block that is not    *)
(* there yet leaves the chain as it is.                                    *)
(***************************************************************************)
ExecReorg ==
  /\ ins.st = "exec" /\ maker = "none"
  /\ IF Len(blocks) < ins.plan.start
     THEN UNCHANGED <<blocks, maker, reseq>>
     ELSE /\ blocks' = Keep(blocks, ins.plan.start) \o ins.plan.rest
          /\ reseq' = ins.old
          /\ maker' = IF ins.old = <<>> THEN "none" ELSE "reseq"
  /\ ins' = [ins EXCEPT !.st = "delete"]
  /\ UNCHANGED <<streamer, making, torn>>

\* reorg returned and its caller writes the batch.
ReorgDelete ==
  /\ ins.st = "delete"
  /\ db' = Keep(db, ins.plan.start)
  /\ IF ins.kind = "reorg"
     THEN tracker' = ins.trk /\ ins' = NoIns
     ELSE UNCHANGED tracker /\ ins' = [ins EXCEPT !.st = "write"]
  /\ UNCHANGED <<queue, queuePos, queueReorg, engine, torn>>

\* writeMessages with the tracker's batch: the new messages, their count and
\* the batches become durable at once.
ReorgWrite ==
  /\ ins.st = "write"
  /\ db' = db \o ins.plan.rest
  /\ tracker' = ins.trk
  /\ SetQueue(Cleared(Queue, ins.plan))
  /\ ins' = NoIns
  /\ UNCHANGED <<engine, torn>>

\* createBlockFromNextMessage: the chain with the block msg makes on top of its head.
WithBlockOf(msg) == Append(blocks, msg)

\* digestMessageWithBlockMutex: message num only on top of the block of num - 1.
DigestMessage(num, msg) ==
  /\ maker = "none" /\ num = Len(blocks)
  /\ blocks' = WithBlockOf(msg)

(***************************************************************************)
(* executeNextMsg.  It holds reorgMutex for reading.  After a reorg,       *)
(* before the deletion, it still finds the old messages.                   *)
(***************************************************************************)
ExecuteNextMsg ==
  /\ ~ReorgLocked
  /\ Len(blocks) < Len(db)
  /\ DigestMessage(Len(blocks), db[Len(blocks) + 1])
  /\ torn' = (torn \/ (ins.st = "delete" /\ Len(blocks) >= ins.plan.start))
  /\ UNCHANGED <<streamer, ins, maker, making, reseq>>

(***************************************************************************)
(* sequenceTransactionsWithBlockMutex and                                  *)
(* sequenceDelayedMessageWithBlockMutex: WriteMessageFromSequencer writes  *)
(* the message, if insertionMutex is free and the head is the last         *)
(* message; the block is appended after that.                              *)
(***************************************************************************)
HeadDelayed == DelayedRead(blocks, Len(blocks))

CanWrite == ins.st = "free" /\ Len(db) = Len(blocks) /\ Len(db) < MaxLen

WriteMessageFromSequencer(m) ==
  /\ CanWrite
  /\ db' = Append(db, m)
  /\ making' = m
  /\ UNCHANGED <<tracker, queue, queuePos, queueReorg, ins, blocks, torn>>

\* Takes createBlocksMutex; an insertionMutex that is taken makes it release it and
\* try again later.
SequencerWrapper == maker = "none"

SequenceTransactions(u) ==
  /\ SequencerWrapper
  /\ WriteMessageFromSequencer([id |-> u, dr |-> HeadDelayed])
  /\ maker' = "seq"
  /\ UNCHANGED reseq

SequenceDelayedMessage(id, seqNum) ==
  /\ SequencerWrapper /\ seqNum = HeadDelayed
  /\ WriteMessageFromSequencer([id |-> id, dr |-> seqNum + 1])
  /\ maker' = "seq"
  /\ UNCHANGED reseq

AppendBlock ==
  /\ making # None
  /\ blocks' = WithBlockOf(making)
  /\ making' = None
  /\ maker' = IF maker = "seq" THEN "none" ELSE maker
  /\ UNCHANGED <<streamer, ins, reseq, torn>>

(***************************************************************************)
(* resequenceReorgedMessages.  A delayed message that is not the next one  *)
(* is dropped, and so is one that cannot be written; a user's message that *)
(* cannot be written ends the loop.                                        *)
(***************************************************************************)
Resequence ==
  /\ maker = "reseq" /\ making = None
  /\ IF reseq = <<>>
     THEN maker' = "none" /\ UNCHANGED <<streamer, ins, blocks, making, reseq, torn>>
     ELSE LET m == Head(reseq)
              as == [id |-> m.id, dr |-> IF IsDelayed(m) THEN m.dr ELSE HeadDelayed]
          IN  /\ UNCHANGED maker
              /\ \/ /\ IsDelayed(m) => m.dr = HeadDelayed + 1
                    /\ WriteMessageFromSequencer(as)
                    /\ reseq' = Tail(reseq)
                 \/ /\ ~CanWrite \/ (IsDelayed(m) /\ m.dr # HeadDelayed + 1)
                    /\ reseq' = IF IsDelayed(m) THEN Tail(reseq) ELSE <<>>
                    /\ UNCHANGED <<streamer, ins, blocks, making, torn>>

(***************************************************************************)
(* The process ends and starts again: the database stays, the last blocks  *)
(* may not have reached the disk.                                          *)
(***************************************************************************)
StreamerRestart ==
  /\ \E n \in 1 .. Len(blocks) : blocks' = Keep(blocks, n)
  /\ queue' = <<>> /\ queuePos' = 0 /\ queueReorg' = FALSE
  /\ ins' = NoIns /\ maker' = "none" /\ making' = None /\ reseq' = <<>>
  /\ torn' = (torn \/ ins.st \in {"delete", "write"})
  /\ UNCHANGED <<db, tracker>>

StreamerTypeOK ==
  /\ db \in Seq(Messages) /\ blocks \in Seq(Messages) /\ queue \in Seq(Messages)
  /\ queuePos \in Nat /\ queueReorg \in BOOLEAN
  /\ ins.st \in {"free", "exec", "delete", "write"}
  /\ maker \in {"none", "seq", "reseq"} /\ making \in Messages \cup {None}
  /\ reseq \in Seq(Messages) /\ torn \in BOOLEAN

StreamerInit(genesis, trk) ==
  /\ db = genesis /\ blocks = genesis /\ tracker = trk
  /\ queue = <<>> /\ queuePos = 0 /\ queueReorg = FALSE
  /\ ins = NoIns /\ maker = "none" /\ making = None /\ reseq = <<>>
  /\ torn = FALSE

=============================================================================
