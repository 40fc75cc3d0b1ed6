------------------------------- MODULE Inbox --------------------------------
(***************************************************************************)
(* What a node reads from L1 and what it does with it: the delayed inbox   *)
(* and the sequencer inbox (arbnode/delayed.go, sequencer_inbox.go), the   *)
(* inbox tracker (inbox_tracker.go), the inbox reader (inbox_reader.go),   *)
(* the delayed sequencer (delayed_sequencer.go), with the transaction      *)
(* streamer and the execution engine of module Streamer.                   *)
(*                                                                         *)
(* L1 is a chain of blocks; a block has at most one delayed message and    *)
(* one sequencer batch.  An accumulator commits to everything before it,   *)
(* so two accumulators are equal exactly when the sequences are.  L1 may   *)
(* replace blocks above the finalized height at any time, between any two  *)
(* requests of the node.                                                   *)
(***************************************************************************)
EXTENDS Streamer

CONSTANTS
  MaxBlocks,    \* bound on the height of L1
  BackStep,     \* how many blocks getPrevBlockForReorg goes back (10)
  Budgets       \* the budgets a behaviour may start with

VARIABLES
  l1,         \* the blocks of L1: [d : a delayed message or None, b : a batch or None]
  final,      \* the finalized height
  hardReorg,  \* HardReorg of the reader's configuration
  rd,         \* the inbox reader's thread
  dseq,       \* delayed messages the delayed sequencer has gathered
  left        \* how often it may still happen: mine, reorg, feed, sequence, crash

node == <<streamer, engine, ins, torn>>
vars == <<node, l1, final, hardReorg, rd, dseq, left>>

First == 1   \* firstMessageBlock

Spend(what) == left[what] > 0 /\ left' = [left EXCEPT ![what] = @ - 1]

Concat(s, Op(_)) == FoldLeft(LAMBDA acc, x : acc \o Op(x), <<>>, s)

\* The delayed messages and the batches of the blocks up to height h.
DelayedAt(h) == Concat(Keep(l1, h), LAMBDA x : IF x.d = None THEN <<>> ELSE <<x.d>>)
BatchesAt(h) == Concat(Keep(l1, h), LAMBDA x : IF x.b = None THEN <<>> ELSE <<x.b>>)

OnL1 == ToSet(DelayedAt(Len(l1)))

\* GetMessageCount, GetBatchCount and the two GetAccumulator of the inboxes, at height h.
\* An accumulator stands for what it commits to.
DelayedCount(h) == Len(DelayedAt(h))
BatchCount(h) == Len(BatchesAt(h))
DelayedAcc(n, h) == Keep(DelayedAt(h), n)
BatchAcc(n, h) == Keep(BatchesAt(h), n)

\* The inboxes' accumulators of what the tracker has.
HasDelayedAcc(acc) == IsPrefix(acc, tracker.delayed)
OurBatches == [i \in 1 .. Len(tracker.batches) |-> tracker.batches[i].b]

\* The messages a batch holds: those of users, then the delayed ones it reads.
MessagesOf(b, prevDelayed, delayed) ==
  [i \in 1 .. Len(b.users) |-> [id |-> b.users[i], dr |-> prevDelayed]]
  \o [i \in 1 .. b.after - prevDelayed |->
        [id |-> delayed[prevDelayed + i], dr |-> prevDelayed + i]]

(***************************************************************************)
(* L1.                                                                     *)
(***************************************************************************)
Mine ==
  /\ Spend("mine")
  /\ Len(l1) < MaxBlocks
  /\ \E d \in {None, [height |-> Len(l1) + 1, kind |-> left.reorg]},
        users \in {<<>>} \cup {<<u>> : u \in Users}, read \in 0 .. MaxBlocks :
       LET delayed == DelayedAt(Len(l1)) \o (IF d = None THEN <<>> ELSE <<d>>)
           before  == Last(BatchesAt(Len(l1))).after
           batch   == [users |-> users, after |-> read,
                       block |-> Len(l1) + 1, acc |-> Keep(delayed, read)]
       IN  /\ read \in {before, Len(delayed)}
           /\ d = None => users # <<>> \/ read # before
           /\ l1' = Append(l1, [d |-> d, b |-> IF users = <<>> /\ read = before
                                               THEN None ELSE batch])
  /\ UNCHANGED <<node, final, hardReorg, rd, dseq>>

L1Reorg ==
  /\ Spend("reorg")
  /\ \E h \in final .. Len(l1) - 1 : l1' = Keep(l1, h)
  /\ UNCHANGED <<node, final, hardReorg, rd, dseq>>

Finalize ==
  /\ left.mine = 0 /\ left.reorg = 0 /\ final < Len(l1)
  /\ final' = Len(l1)
  /\ UNCHANGED <<node, l1, hardReorg, rd, dseq, left>>

(***************************************************************************)
(* InboxTracker.  setDelayedCountReorgAndWriteBatch: the delayed messages  *)
(* become delayed, and the batches that read more than those are undone.   *)
(***************************************************************************)
SequencedBeyond(n) == {p \in tracker.sequenced : p.after > n}

FirstUndone(n) ==
  (CHOOSE p \in SequencedBeyond(n) : \A q \in SequencedBeyond(n) : p.after <= q.after).batch

CountBefore(n) == IF n = 0 THEN 0 ELSE tracker.batches[n].count

SetDelayedFails(delayed, can) == SequencedBeyond(Len(delayed)) # {} /\ ~can

SetDelayed(delayed) ==
  LET n == FirstUndone(Len(delayed))
  IN  IF SequencedBeyond(Len(delayed)) = {}
      THEN /\ tracker' = [tracker EXCEPT !.delayed = delayed]
           /\ UNCHANGED <<db, queue, queuePos, queueReorg, ins, engine, torn>>
      ELSE ReorgTo(CountBefore(n),
                   [delayed |-> delayed, batches |-> Keep(tracker.batches, n),
                    sequenced |-> tracker.sequenced \ SequencedBeyond(Len(delayed))],
                   OnL1)

\* ReorgDelayedTo, to fewer delayed messages than the tracker has.
ReorgDelayedTo(n) == SetDelayed(Keep(tracker.delayed, n))

\* AddDelayedMessages: ds are the delayed messages after the ones in before.
AddDelayedKnown(before, ds) == ~hardReorg /\ HasDelayedAcc(before \o ds)
AddDelayedFails(before) == ~HasDelayedAcc(before)

\* ReorgBatchesTo
ReorgBatchesTo(n) ==
  LET last == IF n = 0 THEN 0 ELSE tracker.batches[n].b.after
  IN  ReorgTo(CountBefore(n),
              [tracker EXCEPT !.batches = Keep(@, n),
                              !.sequenced = {p \in @ : p.after <= last}], OnL1)

\* AddSequencerBatches: bs follow the batches in before.
AddBatchesFails(before) == ~IsPrefix(before, OurBatches)
DelayedMismatch(bs) == \E i \in 1 .. Len(bs) : ~HasDelayedAcc(bs[i].acc)

ReadBefore(before) == IF before = <<>> THEN 0 ELSE Last(before).after

\* Folds the batches bs into their metadata, their messages and the index from
\* delayed counts to the batch that reads them.
BatchFold(before, bs) ==
  LET n == Len(before)
      step(acc, b) ==
        LET msgs == MessagesOf(b, acc.read, tracker.delayed)
        IN  [read |-> b.after, msgs |-> acc.msgs \o msgs,
             batches |-> Append(acc.batches,
                                [b |-> b, count |-> CountBefore(n) + Len(acc.msgs) + Len(msgs)]),
             sequenced |-> acc.sequenced \cup
               (IF b.after > acc.read THEN {[after |-> b.after, batch |-> Len(acc.batches)]}
                ELSE {})]
  IN  FoldLeft(step, [read |-> ReadBefore(before), msgs |-> <<>>,
                      batches |-> Keep(tracker.batches, n),
                      sequenced |-> {p \in tracker.sequenced : p.after <= ReadBefore(before)}],
               bs)

AddedTracker(before, bs) ==
  LET f == BatchFold(before, bs)
  IN  [tracker EXCEPT !.batches = f.batches, !.sequenced = f.sequenced]

(***************************************************************************)
(* FindInboxBatchContainingMessage: a binary search for the batch that     *)
(* holds message pos, NotFound when no batch does yet.                     *)
(***************************************************************************)
NotFound == -1

FindInboxBatchContainingMessage(pos) ==
  LET n == Len(tracker.batches)
      search[low \in 0 .. n, high \in 0 .. n] ==
        LET mid   == (low + high) \div 2
            count == tracker.batches[mid + 1].count
            on(l, h) == IF l = h THEN h ELSE search[l, h]
        IN  IF count < pos THEN on(mid + 1, high)
            ELSE IF count = pos THEN mid + 1
            ELSE IF count = pos + 1 \/ mid = low THEN mid
            ELSE on(low, mid)
  IN  IF tracker.batches[n].count <= pos THEN NotFound ELSE search[0, n - 1]

(***************************************************************************)
(* InboxReader.run.  Each step is one request to L1 and what follows it.   *)
(* A call of the tracker that reorgs the streamer is over when ins is free *)
(* again.                                                                  *)
(***************************************************************************)
NoRead == [pc |-> "start", from |-> First, cur |-> 0, to |-> 0, missD |-> FALSE,
           missB |-> FALSE, reD |-> FALSE, reB |-> FALSE, batches |-> <<>>,
           before |-> <<>>, delayed |-> <<>>, beforeD |-> <<>>]

reader == <<l1, final, hardReorg, dseq, left>>

ReadyToRead == ins.st = "free"

\* getNextBlockToRead
ReaderStart ==
  /\ rd.pc = "start" /\ ReadyToRead
  /\ rd' = [NoRead EXCEPT !.pc = "poll",
                          !.from = IF tracker.delayed = <<>> THEN First
                                   ELSE Last(tracker.delayed).height]
  /\ UNCHANGED <<node, reader>>

\* A header arrives; it may be behind from, when the delay ran out.
ReaderPoll ==
  /\ rd.pc = "poll" /\ ReadyToRead
  /\ rd' = [rd EXCEPT !.pc = "delayed", !.cur = Len(l1)]
  /\ UNCHANGED <<node, reader>>

\* run returns an error: Start calls it again.
Fail == rd' = NoRead

\* getPrevBlockForReorg
NoOlderMessages == rd.from <= First
PrevBlockForReorg == Max({First, rd.from - BackStep})

\* Between two rounds of the loop only the position and the flags matter.
Round(pc, from) ==
  rd' = [NoRead EXCEPT !.pc = pc, !.from = from, !.cur = IF pc = "loop" THEN rd.cur ELSE 0,
                       !.missD = pc = "loop" /\ rd.missD, !.missB = pc = "loop" /\ rd.missB,
                       !.reD = pc = "loop" /\ rd.reD, !.reB = pc = "loop" /\ rd.reB]

\* A variant that forgets ReorgDelayedTo.
ReaderCheckDelayedOnly ==
  LET there == DelayedCount(rd.cur)
      ours  == Len(tracker.delayed)
      n     == Min({ours, there})
  IN  /\ rd.pc = "delayed" /\ ReadyToRead
      /\ IF rd.cur > Len(l1) THEN Fail
         ELSE rd' = [rd EXCEPT !.pc = "batches", !.missD = ours < there,
                               !.reD = Keep(tracker.delayed, n) # DelayedAcc(n, rd.cur)]
      /\ UNCHANGED <<node, reader>>

\* The count of delayed messages, ReorgDelayedTo, and the accumulator.
ReaderCheckDelayed ==
  LET there == DelayedCount(rd.cur)
      ours  == Len(tracker.delayed)
      n     == Min({ours, there})
      next  == [rd EXCEPT !.pc = "batches", !.missD = ours < there,
                          !.reD = Keep(tracker.delayed, n) # DelayedAcc(n, rd.cur)]
  IN  /\ rd.pc = "delayed" /\ ReadyToRead
      /\ IF rd.cur > Len(l1) THEN Fail /\ UNCHANGED node
         ELSE IF ours <= there THEN rd' = next /\ UNCHANGED node
         ELSE IF SetDelayedFails(Keep(tracker.delayed, n), hardReorg) THEN Fail /\ UNCHANGED node
         ELSE rd' = next /\ ReorgDelayedTo(n)
      /\ UNCHANGED reader

\* The count of batches, ReorgBatchesTo, and the accumulator.
ReaderCheckBatches ==
  LET there == BatchCount(rd.cur)
      ours  == Len(tracker.batches)
      n     == Min({ours, there})
      missB == ours < there
      reB   == Keep(OurBatches, n) # BatchAcc(n, rd.cur)
      idle  == ~rd.missD /\ ~rd.reD /\ ~missB /\ ~reB
  IN  /\ rd.pc = "batches" /\ ReadyToRead
      /\ IF rd.cur > Len(l1) THEN Fail /\ UNCHANGED node
         ELSE /\ IF idle THEN Round("poll", rd.cur + 1)
                 ELSE rd' = [rd EXCEPT !.pc = "loop", !.missB = missB, !.reB = reB]
              /\ IF ours > there /\ hardReorg THEN ReorgBatchesTo(n) ELSE UNCHANGED node
      /\ UNCHANGED reader

\* The head of the inner loop and LookupBatchesInRange.
ReaderLookupBatches ==
  LET past == rd.from > rd.cur
      reD  == rd.reD \/ (past /\ rd.missD)
      reB  == rd.reB \/ (past /\ rd.missB)
      from == IF past THEN rd.cur ELSE rd.from
  IN  /\ rd.pc = "loop" /\ ReadyToRead
      /\ IF past /\ ~reD /\ ~reB THEN Round("poll", rd.from)
         ELSE IF rd.cur > Len(l1) THEN Fail
         ELSE \E to \in from .. rd.cur :
                /\ to = from => from = rd.cur
                /\ rd' = [rd EXCEPT !.pc = "lookup", !.from = from, !.to = to,
                                    !.reD = reD, !.reB = reB,
                                    !.before = BatchesAt(from - 1),
                                    !.batches = Drop(BatchesAt(to), Len(BatchesAt(from - 1)))]
      /\ UNCHANGED <<node, reader>>

\* Leading batches the tracker has are skipped.
SkipKnown(before, bs) ==
  CHOOSE k \in 0 .. Len(bs) :
    /\ IsPrefix(before \o Keep(bs, k), OurBatches)
    /\ k < Len(bs) => ~IsPrefix(before \o Keep(bs, k + 1), OurBatches)

\* LookupMessagesInRange, and what the two answers say about a reorg.
ReaderLookupDelayed ==
  LET beforeD == DelayedAt(rd.from - 1)
      ds      == Drop(DelayedAt(rd.to), Len(beforeD))
      last    == rd.to >= rd.cur
      reB     == IF rd.batches # <<>> THEN ~IsPrefix(rd.before, OurBatches)
                 ELSE rd.reB \/ (rd.missB /\ last)
      skip    == IF rd.batches # <<>> /\ ~reB THEN SkipKnown(rd.before, rd.batches) ELSE 0
      reD     == IF ds # <<>> THEN ~HasDelayedAcc(beforeD)
                 ELSE rd.reD \/ (rd.missD /\ last)
  IN  /\ rd.pc = "lookup" /\ ReadyToRead
      /\ IF rd.to > Len(l1) THEN Fail
         ELSE rd' = [rd EXCEPT !.pc = IF reD \/ reB THEN "next" ELSE "addDelayed",
                               !.reB = reB, !.missB = @ /\ rd.batches = <<>>,
                               !.reD = reD, !.missD = @ /\ ds = <<>>,
                               !.before = @ \o Keep(rd.batches, skip),
                               !.batches = Drop(@, skip),
                               !.delayed = ds, !.beforeD = beforeD]
      /\ UNCHANGED <<node, reader>>

\* addMessages: first the delayed messages,
ReaderAddDelayed ==
  LET all == rd.beforeD \o rd.delayed
  IN  /\ rd.pc = "addDelayed" /\ ReadyToRead
      /\ IF rd.delayed = <<>> \/ AddDelayedKnown(rd.beforeD, rd.delayed)
         THEN rd' = [rd EXCEPT !.pc = "addBatches"] /\ UNCHANGED node
         ELSE IF AddDelayedFails(rd.beforeD) THEN Fail /\ UNCHANGED node
         ELSE rd' = [rd EXCEPT !.pc = "addBatches"] /\ SetDelayed(all)
      /\ UNCHANGED reader

\* then the batches.
ReaderAddBatches ==
  LET msgs == BatchFold(rd.before, rd.batches).msgs
      prev == CountBefore(Len(rd.before))
  IN  /\ rd.pc = "addBatches" /\ ReadyToRead
      /\ IF rd.batches = <<>> THEN rd' = [rd EXCEPT !.pc = "next"] /\ UNCHANGED node
         ELSE IF AddBatchesFails(rd.before) THEN Fail /\ UNCHANGED node
         ELSE IF DelayedMismatch(rd.batches)
         THEN rd' = [rd EXCEPT !.pc = "next", !.reD = TRUE] /\ UNCHANGED node
         ELSE /\ AddConfirmed(prev, msgs, AddedTracker(rd.before, rd.batches), OnL1)
              /\ IF AddFails(prev, msgs) THEN Fail ELSE rd' = [rd EXCEPT !.pc = "next"]
      /\ UNCHANGED reader

\* Further back, or on to the next blocks.
ReaderNext ==
  /\ rd.pc = "next" /\ ReadyToRead
  /\ IF ~(rd.reD \/ rd.reB) THEN Round("loop", rd.to + 1)
     ELSE IF NoOlderMessages THEN Fail
     ELSE Round("loop", PrevBlockForReorg)
  /\ UNCHANGED <<node, reader>>

Reader ==
  \/ ReaderStart \/ ReaderPoll \/ ReaderCheckDelayed \/ ReaderCheckBatches
  \/ ReaderLookupBatches \/ ReaderLookupDelayed \/ ReaderAddDelayed
  \/ ReaderAddBatches \/ ReaderNext

(***************************************************************************)
(* DelayedSequencer.sequenceWithoutLockout: the delayed messages the       *)
(* tracker has in finalized blocks, if the last one's accumulator is L1's; *)
(* then they are sequenced one after the other.                            *)
(***************************************************************************)
DelayedSequencerGather ==
  LET have == {n \in HeadDelayed + 1 .. Len(tracker.delayed) :
                 \A i \in HeadDelayed + 1 .. n : tracker.delayed[i].height <= final}
  IN  /\ dseq = <<>> /\ have # {}
      /\ LET n == Max(have) IN
           /\ n <= DelayedCount(final) /\ HasDelayedAcc(DelayedAcc(n, final))
           /\ dseq' = [i \in 1 .. n - HeadDelayed |->
                         [id |-> tracker.delayed[HeadDelayed + i], num |-> HeadDelayed + i - 1]]
      /\ UNCHANGED <<node, l1, final, hardReorg, rd, left>>

\* A message that cannot be sequenced ends the attempt with an error.
DelayedSequencerSequence ==
  /\ dseq # <<>>
  /\ \/ SequenceDelayedMessage(Head(dseq).id, Head(dseq).num) /\ dseq' = Tail(dseq)
     \/ /\ maker = "none" /\ (Head(dseq).num # HeadDelayed \/ ~CanWrite)
        /\ dseq' = <<>> /\ UNCHANGED node
  /\ UNCHANGED <<l1, final, hardReorg, rd, left>>

(***************************************************************************)
(* Everything else: the feed, the sequencer, a restart.                    *)
(***************************************************************************)
FeedMessages(pos) ==
  {[id |-> u, dr |-> DelayedRead(db, pos)] : u \in Users}
  \cup {[id |-> DelayedAt(Len(l1))[n], dr |-> n] :
          n \in {DelayedRead(db, pos) + 1} \cap 1 .. Len(DelayedAt(Len(l1)))}

Feed ==
  /\ Spend("feed")
  /\ \E pos \in 1 .. Len(db) : \E m \in FeedMessages(pos) : \E at \in pos .. pos + 1 :
       at < MaxLen /\ AddBroadcastMessages(at, <<m>>)
  /\ UNCHANGED <<l1, final, hardReorg, rd, dseq>>

Sequence ==
  /\ Spend("sequence")
  /\ \E u \in Users : SequenceTransactions(u)
  /\ UNCHANGED <<l1, final, hardReorg, rd, dseq>>

NodeStep ==
  /\ ExecReorg \/ ReorgDelete \/ ReorgWrite \/ ExecuteNextMsg \/ AppendBlock \/ Resequence
  /\ UNCHANGED <<l1, final, hardReorg, rd, dseq, left>>

Restart ==
  /\ Spend("crash")
  /\ StreamerRestart
  /\ rd' = NoRead /\ dseq' = <<>>
  /\ UNCHANGED <<l1, final, hardReorg>>

Init ==
  /\ left \in Budgets
  /\ LET d == [height |-> 1, kind |-> left.reorg]
         b == [users |-> <<>>, after |-> 1, block |-> 1, acc |-> <<d>>]
     IN  /\ l1 = <<[d |-> d, b |-> b]>>
         /\ StreamerInit(<<[id |-> d, dr |-> 1]>>,
                         [delayed |-> <<d>>, batches |-> <<[b |-> b, count |-> 1]>>,
                          sequenced |-> {[after |-> 1, batch |-> 0]}])
  /\ final = 1 /\ hardReorg = left.hard
  /\ rd = NoRead /\ dseq = <<>>

Next ==
  \/ Mine \/ L1Reorg \/ Finalize \/ Reader \/ NodeStep
  \/ DelayedSequencerGather \/ DelayedSequencerSequence
  \/ Feed \/ Sequence \/ Restart

Spec == Init /\ [][Next]_vars

\* The threads run: the reader polls, the streamer's loop executes, whoever holds a
\* mutex goes on.  Weak fairness of Reader, NodeStep and Finalize, with what enables
\* them and what they change written out.
NodeBusy ==
  \/ ins.st = "exec" /\ maker = "none"
  \/ ins.st \in {"delete", "write"}
  \/ ~ReorgLocked /\ maker = "none" /\ Len(blocks) < Len(db)
  \/ making # None \/ maker = "reseq"

Fairness ==
  /\ []<>~ReadyToRead \/ []<><<rd' # rd>>_vars
  /\ []<>~NodeBusy \/ []<><<ins' # ins \/ engine' # engine>>_vars
  /\ WF_vars(Finalize)

FairSpec == Spec /\ Fairness

-----------------------------------------------------------------------------
(***************************************************************************)
(* Properties.                                                             *)
(***************************************************************************)

\* Every variable keeps its type.
TypeOK ==
  /\ StreamerTypeOK
  /\ tracker.delayed \in Seq(DelayedIds)
  /\ \A i \in 1 .. Len(tracker.batches) : tracker.batches[i].count \in Nat
  /\ rd.pc \in {"start", "poll", "delayed", "batches", "loop", "lookup",
                "addDelayed", "addBatches", "next"}
  /\ final \in 1 .. Len(l1) /\ hardReorg \in BOOLEAN

\* What the database will hold when the reorg in progress has written its batches.
DbAfterReorg ==
  IF ins.st \in {"delete", "write"} THEN Keep(db, ins.plan.start) \o ins.plan.rest ELSE db

\* The chain is made from the stored messages: block n is message n, whatever
\* executeNextMsg, the sequencer, the resequencing thread and the reorgs of the
\* inbox reader interleave to, as long as no reorg was torn (see torn).
BlocksFollowMessages == ~torn => IsPrefix(blocks, DbAfterReorg)

\* executeNextMsg never makes a block from a message that a reorg has removed from
\* the chain already: reorgMutex is there to keep them apart.
NoBlockFromRemovedMessage ==
  [][NodeStep /\ ins.st = "delete" /\ Len(blocks) >= ins.plan.start
       => Len(blocks') <= Len(blocks)]_vars

\* The messages the batches of the tracker stand for.
BatchMessages ==
  FoldLeft(LAMBDA acc, b : [read |-> b.after, msgs |-> acc.msgs \o MessagesOf(b, acc.read, b.acc)],
           [read |-> 0, msgs |-> <<>>], OurBatches).msgs

\* Messages confirmed by a batch stay as the batch says, with the counts the tracker
\* recorded: neither the feed nor the sequencers change them, and a reorg of the
\* tracker and of the messages becomes visible at once (AddSequencerBatches hands
\* its database batch to the streamer).  While an add replaces messages the two
\* writes are apart.
ConfirmedMessagesKept ==
  ~torn /\ ins.st # "write" =>
    /\ IsPrefix(BatchMessages, db)
    /\ tracker.batches # <<>> => Last(tracker.batches).count = Len(BatchMessages)

\* The index from a delayed count to the batch that reads it has exactly the batches
\* that read delayed messages: setDelayedCountReorgAndWriteBatch undoes the right ones.
DelayedIndexExact ==
  tracker.sequenced =
    {[after |-> OurBatches[i].after, batch |-> i - 1] :
       i \in {j \in 1 .. Len(OurBatches) :
               OurBatches[j].after > (IF j = 1 THEN 0 ELSE OurBatches[j - 1].after)}}

\* FindInboxBatchContainingMessage returns the batch whose messages start at or before pos and
\* end after it, for every position, however the batches came, went and grew: its search
\* relies on every batch holding a message.
BatchesFound ==
  tracker.batches # <<>> =>
    \A pos \in 0 .. Len(db) + 1 :
      LET holds == {n \in 1 .. Len(tracker.batches) :
                      pos \in CountBefore(n - 1) .. tracker.batches[n].count - 1}
      IN  {FindInboxBatchContainingMessage(pos)} =
            IF holds = {} THEN {NotFound} ELSE {n - 1 : n \in holds}

\* Messages, batches, the index of the delayed messages and blocks agree, and a message is found
\* in its batch, whichever of the threads of the inbox and of the streamer ran in between
\* (AddSequencerBatches, addMessagesAndEndBatchImpl, executeNextMsg,
\* FindInboxBatchContainingMessage).
InboxSound ==
  TypeOK /\ BlocksFollowMessages /\ ConfirmedMessagesKept /\ DelayedIndexExact /\ BatchesFound

\* The tracker has what L1 has, the messages of the batches are stored, and every
\* message is executed.
AgreesWithL1 ==
  /\ tracker.delayed = DelayedAt(Len(l1))
  /\ OurBatches = BatchesAt(Len(l1))
  /\ IsPrefix(BatchMessages, db)
  /\ blocks = db

AheadOfL1 ==
  \/ Len(tracker.delayed) > Len(DelayedAt(Len(l1)))
  \/ Len(tracker.batches) > Len(BatchesAt(Len(l1)))

\* However L1 reorganizes between the reader's requests, once it stops the node ends
\* up with L1's inboxes and executes them.  Without HardReorg a node that saw more
\* than the new L1 has keeps it until L1 has grown past it.  Feed messages left in
\* the queue that read fewer delayed messages than the batches before them make
\* addMessagesAndEndBatchImpl fail until the feed replaces them.
CatchesUpWithL1 ==
  <>[](torn \/ (~hardReorg /\ AheadOfL1) \/ queue # <<>> \/ AgreesWithL1)

-----------------------------------------------------------------------------
(* The scenarios that TLC explores.                                        *)

Budget(h, m, r, f, s, c) ==
  [hard |-> h, mine |-> m, reorg |-> r, feed |-> f, sequence |-> s, crash |-> c]

MCBudgets ==
  {Budget(TRUE, 2, 1, 0, 1, 0), Budget(TRUE, 2, 1, 0, 0, 1), Budget(FALSE, 2, 1, 0, 0, 0),
   Budget(FALSE, 1, 0, 2, 0, 0), Budget(FALSE, 1, 0, 1, 1, 0)}
=============================================================================
