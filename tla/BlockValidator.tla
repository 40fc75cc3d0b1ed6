--------------------------- MODULE BlockValidator ---------------------------
(***************************************************************************)
(* The block validator (staker/block_validator.go and                      *)
(* staker/stateless_block_validator.go): entries are created from the      *)
(* streamer's messages and the tracker's batches, recorded, sent to the    *)
(* validation servers and accepted in order, by three threads that share   *)
(* the reorg lock, while the inbox reader replaces batches, the staker     *)
(* moves the validated position and the process restarts.                  *)
(*                                                                         *)
(* A block hash is the sequence of the messages that led to it.  Batches   *)
(* hold the messages themselves.  The machine's run of an entry computes   *)
(* the end from the entry's start and its copy of the batch; a message in  *)
(* Divergent is one that node and machine execute differently.             *)
(***************************************************************************)
EXTENDS Naturals, SequencesExt, FiniteSetsExt

CONSTANTS
  MaxMsgs,       \* the length of the log
  ForwardBlocks, PrerecordedBlocks,   \* the configuration's distances
  MaxRuns,       \* room of the validation servers
  BvBudgets      \* the messages, and how often each fault and outside event may happen

VARIABLES
  tb,        \* the tracker's batches, batch 0 first
  sm, ex,    \* the streamer's messages, and those of them that are executed
  upd,       \* the inbox reader's replacement of batches
  bv,        \* the validator's positions
  lastValid, \* lastValidGS and its copy in the database
  vals,      \* validations: position to status and entry
  rec,       \* the recording thread
  adv,       \* the validation thread
  stk,       \* the staker's thread that reports the latest staked state
  bvq        \* what is left of the budget; history: what lastValid has outlived

bvVars == <<tb, sm, ex, upd, bv, lastValid, vals, rec, adv, stk, bvq>>

Idle == [pc |-> "idle"]
\* The messages, and those the node executes differently from the machine.
Contents == bvq.contents
Divergent == bvq.divergent
FirstContent(q) == CHOOSE m \in q.contents \ q.divergent : TRUE
Cut(s, n) == SubSeq(s, 1, n)
BvSpend(k) == bvq[k] > 0 /\ bvq' = [bvq EXCEPT ![k] = @ - 1]
-----------------------------------------------------------------------------
\* The tracker and the streamer as the validator reads them.
BatchMsgCount(b, n) == FoldLeft(LAMBDA c, m : c + Len(m), 0, Cut(b, n + 1))
GS(hash, batch, pos) == [hash |-> hash, batch |-> batch, pos |-> pos]
Processed == Min({Len(sm), Len(ex)})

\* FindInboxBatchContainingMessage and GlobalStatePositionsAtCount: the position after the
\* message at count - 1; no element when no batch holds it.
PositionsAtCount(b, count) ==
  IF count = 1 THEN {GS(<<>>, 1, 0)}
  ELSE {IF BatchMsgCount(b, n) = count THEN GS(<<>>, n + 1, 0)
        ELSE GS(<<>>, n, count - BatchMsgCount(b, n - 1)) :
          n \in {m \in 1 .. Len(b) - 1 : BatchMsgCount(b, m - 1) < count
                                         /\ count <= BatchMsgCount(b, m)}}
GSAtCount(b, x, count) == {[g EXCEPT !.hash = Cut(x, count)] : g \in PositionsAtCount(b, count)}

\* GlobalStateToMsgCount: the count of a global state once the chain has caught up with it; no
\* element before, and when the state is not in the chain.
GlobalStateToMsgCount(gs) ==
  LET known == Len(tb) >= gs.batch + (IF gs.pos = 0 THEN 0 ELSE 1)
      count == BatchMsgCount(tb, gs.batch - 1) + gs.pos
  IN {c \in IF known THEN {count} ELSE {} :
        /\ gs.pos > 0 => c <= BatchMsgCount(tb, gs.batch)
        /\ Processed >= c /\ Cut(ex, c) = gs.hash}

\* getLatestStakedState: the state at count, when it is the one of the latest staked assertion
\* and the chain has caught up with it.  Nobody stakes on a block the machine computes differently.
LatestStakedState(count) ==
  {gs \in UNION {GSAtCount(tb, ex, c) : c \in {count} \cap 1 .. Processed} :
     count \in GlobalStateToMsgCount(gs) /\ \A i \in DOMAIN gs.hash : gs.hash[i] \notin Divergent}
-----------------------------------------------------------------------------
\* readBatch, under the conditions of createNextValidationEntry.
BatchToUse ==
  IF bv.next.pos = 0 \/ bv.reread
  THEN {[data |-> tb[bv.next.batch + 1], count |-> BatchMsgCount(tb, bv.next.batch)] :
          x \in {y \in {0} : Len(tb) > bv.next.batch}}
  ELSE {[data |-> bv.batch, count |-> bv.count]}

\* newValidationEntry.
NewValidationEntry(pos, end, data) ==
  [status |-> "Created", start |-> bv.next, end |-> end, data |-> data, msg |-> sm[pos + 1], run |-> "none"]

\* createNextValidationEntry.  The batch that was read is kept also when its count is illegal.
CreateNextValidationEntry ==
  /\ bv.up
  /\ bv.created <= bv.validated + ForwardBlocks
  /\ bv.created < Processed
  /\ \E b \in BatchToUse :
       LET pos == bv.created
           end == IF pos + 1 < b.count
                  THEN GS(Cut(ex, pos + 1), bv.next.batch, bv.next.pos + 1)
                  ELSE GS(Cut(ex, pos + 1), bv.next.batch + 1, 0)
           read == [bv EXCEPT !.batch = b.data, !.count = b.count, !.reread = FALSE]
       IN IF pos + 1 > b.count
          THEN bv' = read /\ UNCHANGED vals
          ELSE /\ vals' = [p \in DOMAIN vals \cup {pos} |->
                             IF p = pos THEN NewValidationEntry(pos, end, b.data) ELSE vals[p]]
               /\ bv' = [read EXCEPT !.next = end, !.created = pos + 1]
  /\ UNCHANGED <<tb, sm, ex, upd, lastValid, rec, adv, stk, bvq>>
-----------------------------------------------------------------------------
\* sendNextRecordRequests up to PrepareForRecord, which runs without the lock.
RecordUntil == Min({bv.validated + PrerecordedBlocks - 1, bv.created - 1})
PrepareForRecord ==
  /\ bv.up /\ rec = Idle
  /\ RecordUntil >= bv.recordSent
  /\ rec' = [pc |-> "prepare", pos |-> bv.recordSent, until |-> RecordUntil, created |-> bv.created]
  /\ UNCHANGED <<tb, sm, ex, upd, bv, lastValid, vals, adv, stk, bvq>>

PrepareFails ==
  /\ rec.pc = "prepare" /\ BvSpend("fault")
  /\ rec' = Idle
  /\ UNCHANGED <<tb, sm, ex, upd, bv, lastValid, vals, adv, stk>>

\* The second half: nothing is sent when there was a reorg meanwhile.
SendsFrom == {p \in {rec.pos} : bv.created >= rec.created /\ bv.recordSent >= p}

\* isMemoryLimitExceeded ends the loop before any of the requests up to end.
MemoryLimitExceeded(end, last) == last \in rec.pos .. end - 1 /\ BvSpend("fault")

SendRecord(e) == [e EXCEPT !.status = "RecordSent"]

\* The requests go out in order, up to the first entry that is missing or not in status
\* Created.
SendNextRecordRequests ==
  /\ rec.pc = "prepare"
  /\ rec' = Idle
  /\ IF SendsFrom = {} THEN UNCHANGED <<bv, vals, bvq>>
     ELSE LET ok(p) == p \in DOMAIN vals /\ vals[p].status = "Created"
              bad == {p \in rec.pos .. rec.until : ~ok(p)}
              end == IF bad = {} THEN rec.until + 1 ELSE Min(bad)
          IN \E last \in rec.pos .. end :
               /\ \/ last = end /\ UNCHANGED bvq
                  \/ MemoryLimitExceeded(end, last)
               /\ vals' = [p \in DOMAIN vals |->
                             IF p \in rec.pos .. last - 1 THEN SendRecord(vals[p]) ELSE vals[p]]
               /\ bv' = IF last > rec.pos THEN [bv EXCEPT !.recordSent = last] ELSE bv
  /\ UNCHANGED <<tb, sm, ex, upd, lastValid, adv, stk>>

\* The thread of sendRecord: ValidationEntryRecord executes the message again on top of the
\* node's block and compares the hash.
RecordDone(p) ==
  /\ p \in DOMAIN vals /\ vals[p].status = "RecordSent"
  /\ vals' = [vals EXCEPT ![p].status =
                IF Len(ex) >= p /\ Append(Cut(ex, p), vals[p].msg) = vals[p].end.hash
                THEN "Prepared" ELSE "RecordFailed"]
  /\ UNCHANGED <<tb, sm, ex, upd, bv, lastValid, rec, adv, stk, bvq>>

RecordFails(p) ==
  /\ p \in DOMAIN vals /\ vals[p].status = "RecordSent" /\ BvSpend("fault")
  /\ vals' = [vals EXCEPT ![p].status = "RecordFailed"]
  /\ UNCHANGED <<tb, sm, ex, upd, bv, lastValid, rec, adv, stk>>
-----------------------------------------------------------------------------
\* possiblyFatal: with failure-is-fatal the node goes down.
PossiblyFatal(v) == [v EXCEPT !.stopped = @ \/ bvq.fatal]

\* Reorg(count) under the write lock.  The entries from count on go; the validated position
\* only moves back.
ReorgIgnored(count) == ~bv.up \/ bv.created < count
ReorgErrs(count) ==
  count <= 1 \/ (~ReorgIgnored(count) /\ (Len(ex) < count \/ GSAtCount(tb, ex, count) = {}))

WriteLastValidated(gs) == lastValid' = gs

ReorgLastValid(count, gs) == IF bv.validated > count THEN gs ELSE lastValid
ReorgValidator(count) ==
  IF ReorgErrs(count) THEN bv' = PossiblyFatal(bv) /\ UNCHANGED <<lastValid, vals>>
  ELSE IF ReorgIgnored(count) THEN UNCHANGED <<bv, lastValid, vals>>
  ELSE \E gs \in GSAtCount(tb, ex, count) :
         /\ vals' = [p \in {q \in DOMAIN vals : q < count} |-> vals[p]]
         /\ bv' = [bv EXCEPT !.next = gs, !.reread = TRUE, !.created = count,
                             !.recordSent = Min({@, count}), !.validated = Min({@, count})]
         /\ WriteLastValidated(ReorgLastValid(count, gs))

\* What the machine computes from an entry's start and batch.
RunEnd(e) ==
  IF e.start.pos + 1 > Len(e.data) THEN GS(<<>>, 0, 0)
  ELSE LET m == e.data[e.start.pos + 1]
           h == IF m \in Divergent THEN <<>> ELSE Append(e.start.hash, m)
       IN IF e.start.pos + 1 = Len(e.data) THEN GS(h, e.start.batch + 1, 0)
          ELSE GS(h, e.start.batch, e.start.pos + 1)

InFlight == {p \in DOMAIN vals : vals[p].run = "launched"}

\* advanceValidations begins: the rooms are counted once.
AdvanceStart ==
  /\ bv.up /\ adv = Idle
  /\ bv.validated < bv.recordSent
  /\ adv' = [pc |-> "loop", pos |-> bv.validated, room |-> MaxRuns - Cardinality(InFlight)]
  /\ UNCHANGED <<tb, sm, ex, upd, bv, lastValid, vals, rec, stk, bvq>>

AdvanceTo(p) == adv' = [adv EXCEPT !.pos = p + 1]
AdvanceReorg(p) == adv' = [pc |-> "reorg", pos |-> p, room |-> 0]

StartsRight(e) == e.start = lastValid

RunAgrees(e) == e.run = "done" /\ RunEnd(e) = e.end

\* A finished run of the entry at the validated position.
AcceptValidation(p) ==
  LET e == vals[p] IN
  CASE ~StartsRight(e) -> AdvanceReorg(p) /\ UNCHANGED <<bv, lastValid, vals>>
    [] StartsRight(e) /\ e.run = "launched" -> AdvanceTo(p) /\ UNCHANGED <<bv, lastValid, vals>>
    [] StartsRight(e) /\ e.run # "launched" /\ ~RunAgrees(e) ->
         bv' = PossiblyFatal(bv) /\ AdvanceReorg(p) /\ UNCHANGED <<lastValid, vals>>
    [] OTHER -> /\ WriteLastValidated(e.end)
                /\ bv' = [bv EXCEPT !.validated = p + 1]
                /\ vals' = [q \in DOMAIN vals \ {p} |-> vals[q]]
                /\ AdvanceTo(p)

\* One turn of the loop of advanceValidations; between two turns the lock is released.
AdvanceValidations ==
  /\ adv.pc = "loop"
  /\ LET p == adv.pos IN
     CASE p >= bv.recordSent \/ p \notin DOMAIN vals -> adv' = Idle /\ UNCHANGED <<bv, lastValid, vals>>
       [] p < bv.recordSent /\ p \in DOMAIN vals /\ vals[p].status = "RecordFailed" ->
            AdvanceReorg(p) /\ UNCHANGED <<bv, lastValid, vals>>
       [] p < bv.recordSent /\ p \in DOMAIN vals /\ vals[p].status = "ValidationSent" /\ p = bv.validated ->
            AcceptValidation(p)
       [] OTHER ->
            /\ IF adv.room = 0 THEN adv' = Idle /\ UNCHANGED vals
               ELSE IF vals[p].status = "Prepared"
               THEN /\ vals' = [vals EXCEPT ![p].status = "SendingValidation", ![p].run = "launched"]
                    /\ adv' = [adv EXCEPT !.pos = p + 1, !.room = @ - 1]
               ELSE AdvanceTo(p) /\ UNCHANGED vals
            /\ UNCHANGED <<bv, lastValid>>
  /\ UNCHANGED <<tb, sm, ex, upd, rec, stk, bvq>>

\* iterativeValidationProgress: the entry found bad is reorged out after the lock was released.
AdvanceReorgs ==
  /\ adv.pc = "reorg"
  /\ ReorgValidator(adv.pos)
  /\ adv' = Idle
  /\ UNCHANGED <<tb, sm, ex, upd, rec, stk, bvq>>

\* The thread that advanceValidations starts with the runs, and a validation server.
MarkSent(p) ==
  /\ p \in DOMAIN vals /\ vals[p].status = "SendingValidation"
  /\ vals' = [vals EXCEPT ![p].status = "ValidationSent"]
  /\ UNCHANGED <<tb, sm, ex, upd, bv, lastValid, rec, adv, stk, bvq>>

RunDone(p) ==
  /\ p \in DOMAIN vals /\ vals[p].run = "launched"
  /\ vals' = [vals EXCEPT ![p].run = "done"]
  /\ UNCHANGED <<tb, sm, ex, upd, bv, lastValid, rec, adv, stk, bvq>>

RunFails(p) ==
  /\ p \in DOMAIN vals /\ vals[p].run = "launched" /\ BvSpend("fault")
  /\ vals' = [vals EXCEPT ![p].run = "failed"]
  /\ UNCHANGED <<tb, sm, ex, upd, bv, lastValid, rec, adv, stk>>
-----------------------------------------------------------------------------
\* validGSIsNew.
ValidGSIsNew(gs) == lastValid.batch < gs.batch \/ (lastValid.batch = gs.batch /\ lastValid.pos < gs.pos)

\* A variant that leaves the position of the next entry behind the staked one.
StakedPositionsKept(count, gs) ==
  [bv EXCEPT !.recordSent = Max({@, count}), !.validated = count, !.created = Max({@, count})]

StakedPositions(count, gs) ==
  [bv EXCEPT !.created = Max({@, count}), !.recordSent = Max({@, count}), !.validated = count,
             !.next = IF bv.created < count THEN gs ELSE @,
             !.reread = @ \/ bv.created < count]

\* The staker's thread reads the latest staked state and checks it against the chain without
\* the validator's lock (getLatestStakedState); UpdateLatestStaked then takes the lock.
GetLatestStakedState(count) ==
  /\ stk = Idle /\ BvSpend("stake")
  /\ \E gs \in LatestStakedState(count) : stk' = [pc |-> "update", count |-> count, gs |-> gs, reorged |-> FALSE]
  /\ UNCHANGED <<tb, sm, ex, upd, bv, lastValid, vals, rec, adv>>

\* Nothing happens when the validator is past count, or the message before count is gone.
StakedIgnored(count, gs) ==
  \/ count <= bv.validated
  \/ IF bv.up THEN Len(sm) < count ELSE ~ValidGSIsNew(gs)

UpdateLatestStaked ==
  /\ stk.pc = "update"
  /\ LET count == stk.count
         gs == stk.gs
     IN  IF StakedIgnored(count, gs) THEN UNCHANGED <<bv, lastValid, vals, adv, bvq>>
         ELSE /\ WriteLastValidated(gs)
              /\ bvq' = [bvq EXCEPT !.outlived = @ \/ stk.reorged]
              /\ IF ~bv.up THEN UNCHANGED <<bv, vals, adv>>
                 ELSE /\ vals' = [p \in {q \in DOMAIN vals : q >= count} |-> vals[p]]
                      /\ bv' = StakedPositions(count, gs)
                      /\ adv' = IF adv.pc = "loop" THEN [adv EXCEPT !.pos = count] ELSE adv
  /\ stk' = Idle
  /\ UNCHANGED <<tb, sm, ex, upd, rec>>

\* checkValidatedGSCaughtUp.
CheckValidatedGSCaughtUp ==
  /\ ~bv.up
  /\ \E count \in GlobalStateToMsgCount(lastValid) :
       bv' = [bv EXCEPT !.up = TRUE, !.next = lastValid, !.reread = TRUE, !.created = count,
                        !.recordSent = count, !.validated = count]
  /\ UNCHANGED <<tb, sm, ex, upd, lastValid, vals, rec, adv, stk, bvq>>

\* NewBlockValidator after a restart: only lastValidGS is in the database.
NewValidator == [up |-> FALSE, stopped |-> FALSE, created |-> 0, recordSent |-> 0, validated |-> 0,
                 next |-> GS(<<>>, 0, 0), batch |-> <<>>, count |-> 0, reread |-> FALSE]
\* The staker's Initialize may have it start from the latest staked state (InitAssumeValid).
InitAssumeValid(gs) == IF ValidGSIsNew(gs) THEN gs ELSE lastValid

BvRestart ==
  /\ BvSpend("crash")
  /\ bv' = NewValidator /\ vals' = << >> /\ rec' = Idle /\ adv' = Idle /\ stk' = Idle /\ upd' = Idle
  /\ \/ UNCHANGED lastValid
     \/ \E count \in 1 .. Processed : \E gs \in LatestStakedState(count) :
          WriteLastValidated(InitAssumeValid(gs))
  /\ UNCHANGED <<tb, sm, ex>>
-----------------------------------------------------------------------------
\* The inbox reader adds a batch at position n, over the batches from n on
\* (AddSequencerBatches): the validator is told first.
NewBatch(n, msgs) ==
  /\ upd = Idle
  /\ n \in 2 .. Len(tb)
  /\ BatchMsgCount(tb, n - 1) + Len(msgs) <= MaxMsgs
  /\ IF n = Len(tb) THEN UNCHANGED bvq
     ELSE /\ msgs # tb[n + 1]
          /\ BvSpend(IF Len(msgs) = Len(tb[n + 1]) THEN "reorg" ELSE "shift")
  /\ upd' = [pc |-> "add", n |-> n, msgs |-> msgs]
  /\ bv' = [bv EXCEPT !.reread = @ \/ bv.next.batch >= n]
  /\ UNCHANGED <<tb, sm, ex, lastValid, vals, rec, adv, stk>>

\* The log with the batch's messages, and how much of the old one it keeps.
NewLog == FlattenSeq(Cut(tb, upd.n)) \o upd.msgs
Kept(new) == Max({i \in 0 .. Min({Len(new), Len(sm)}) : Cut(new, i) = Cut(sm, i)})

\* reorg, called by AddMessagesAndEndBatch when a message differs: the execution first, then the validator.
\* Its own race with the execution is the subject of Streamer.
ReorgStreamer ==
  /\ upd.pc = "add" /\ Kept(NewLog) < Min({Len(NewLog), Len(sm)})
  /\ ex' = Cut(ex, Min({Len(ex), Kept(NewLog)}))
  /\ upd' = [upd EXCEPT !.pc = "validator"]
  /\ UNCHANGED <<tb, sm, bv, lastValid, vals, rec, adv, stk, bvq>>

ReorgCallsValidator ==
  /\ upd.pc = "validator"
  /\ ReorgValidator(Kept(NewLog))
  /\ upd' = [upd EXCEPT !.pc = IF ReorgErrs(Kept(NewLog)) THEN "add" ELSE "write"]
  /\ stk' = IF stk.pc = "update" /\ stk.count > Kept(NewLog) THEN [stk EXCEPT !.reorged = TRUE] ELSE stk
  /\ bvq' = [bvq EXCEPT !.outlived = @ \/ (~bv.up /\ Len(lastValid.hash) > Kept(NewLog))]
  /\ UNCHANGED <<tb, sm, ex, rec, adv>>

\* A batch of another length replaces one that the validator, or the staker's report, is past
\* the start of.
Redivides ==
  /\ upd.n < Len(tb) /\ Len(upd.msgs) # Len(tb[upd.n + 1])
  /\ \E gs \in {bv.next, lastValid} \cup (IF stk = Idle THEN {} ELSE {stk.gs}) :
       gs.batch > upd.n \/ (gs.batch = upd.n /\ gs.pos > 0)

\* Batch and messages are written together.
WriteBatch ==
  /\ \/ upd.pc = "write"
     \/ upd.pc = "add" /\ Kept(NewLog) = Min({Len(NewLog), Len(sm)})
  /\ tb' = Append(Cut(tb, upd.n), upd.msgs)
  /\ sm' = IF Kept(NewLog) = Len(NewLog) THEN sm ELSE NewLog
  /\ upd' = Idle
  /\ bvq' = [bvq EXCEPT !.redivided = @ \/ Redivides]
  /\ UNCHANGED <<ex, bv, lastValid, vals, rec, adv, stk>>

\* A message of the feed, and the execution of the next message.
FeedMessage(m) ==
  /\ upd = Idle /\ Len(sm) < MaxMsgs
  /\ BvSpend("feed")
  /\ sm' = Append(sm, m)
  /\ UNCHANGED <<tb, ex, upd, bv, lastValid, vals, rec, adv, stk>>

ExecuteMessage ==
  /\ upd.pc \in {"idle", "add"} /\ Len(ex) < Len(sm)
  /\ ex' = Append(ex, sm[Len(ex) + 1])
  /\ UNCHANGED <<tb, sm, upd, bv, lastValid, vals, rec, adv, stk, bvq>>
-----------------------------------------------------------------------------
\* The validator has passed the first message, which is alone in batch 1.
BvInit ==
  \E q \in BvBudgets : LET first == FirstContent(q) IN
    /\ tb = <<<<"init">>, <<first>>>>
    /\ sm = <<"init", first>> /\ ex = sm
    /\ upd = Idle /\ rec = Idle /\ adv = Idle /\ stk = Idle /\ vals = << >>
    /\ lastValid = GS(sm, 2, 0)
    /\ bv = [NewValidator EXCEPT !.up = TRUE, !.created = 2, !.recordSent = 2, !.validated = 2,
                                 !.next = GS(sm, 2, 0), !.reread = TRUE]
    /\ bvq = q

BvPositions == 0 .. MaxMsgs
BvThreads ==
  \/ CreateNextValidationEntry \/ PrepareForRecord \/ SendNextRecordRequests
  \/ AdvanceStart \/ AdvanceValidations \/ AdvanceReorgs \/ CheckValidatedGSCaughtUp \/ UpdateLatestStaked
  \/ \E p \in BvPositions : RecordDone(p) \/ MarkSent(p) \/ RunDone(p)
BvNode == ReorgStreamer \/ ReorgCallsValidator \/ WriteBatch \/ ExecuteMessage
BvFaults ==
  \/ PrepareFails \/ BvRestart
  \/ \E p \in BvPositions : RecordFails(p) \/ RunFails(p) \/ GetLatestStakedState(p)
\* What is replaced later has the first content: only whether a message is the one that was
\* there before makes a difference.
BvInputs ==
  \/ \E m \in Contents : FeedMessage(m)
  \/ \E n \in 2 .. MaxMsgs, msgs \in TupleOf(Contents, 1) \cup TupleOf(Contents, 2) :
       /\ n = Len(tb) /\ bvq.reorg + bvq.shift > 0 => ToSet(msgs) = {FirstContent(bvq)}
       /\ NewBatch(n, msgs)
BvNext == ~bv.stopped /\ (BvThreads \/ BvNode \/ BvFaults \/ BvInputs)

BvSpec == BvInit /\ [][BvNext]_bvVars

\* Whether a thread of the node can go on: none of them waits for ever when it can, and a run or
\* a recording that was started ends.
BvCanMove(thread) ==
  /\ ~bv.stopped
  /\ CASE thread = "node" -> upd # Idle \/ Len(ex) < Len(sm)
       [] thread = "create" -> /\ bv.up /\ bv.created <= bv.validated + ForwardBlocks
                               /\ bv.created < Processed
                               /\ \E b \in BatchToUse : bv.created < b.count
       [] thread = "record" -> rec # Idle \/ (bv.up /\ RecordUntil >= bv.recordSent)
       [] thread = "advance" -> adv # Idle \/ (bv.up /\ bv.validated < bv.recordSent)
       [] thread = "servers" -> \E p \in DOMAIN vals :
                                  vals[p].status \in {"RecordSent", "SendingValidation"} \/ vals[p].run = "launched"
       [] thread = "start" -> ~bv.up /\ GlobalStateToMsgCount(lastValid) # {}
-----------------------------------------------------------------------------
\* The positions are ordered, there is an entry for every position between the validated and
\* the created one, and exactly the entries below recordSent were sent to the recorder: no
\* thread ever looks for an entry in vain or passes one over, whatever reorgs, stakes and
\* retries do while a thread works without the lock (sendNextRecordRequests, UpdateLatestStaked).
EntriesComplete ==
  bv.up => /\ bv.validated <= bv.recordSent /\ bv.recordSent <= bv.created
           /\ DOMAIN vals = bv.validated .. bv.created - 1
           /\ \A p \in DOMAIN vals : vals[p].status = "Created" <=> p >= bv.recordSent

\* What was validated is a block of the node's chain, and its batch position is the tracker's,
\* unless a replacement of batches is under way (writeLastValidated, Reorg).  The block is not
\* once a reorg came between the staker's check and UpdateLatestStaked, or while a restarted
\* validator waited for the chain; the position is not once batches were divided anew.
LastValidOnChain ==
  bv.up /\ upd.pc \in {"idle", "add"} /\ ~bvq.outlived =>
    /\ lastValid.hash = Cut(ex, bv.validated)
    /\ ~bvq.redivided => lastValid \in GSAtCount(tb, ex, bv.validated)

\* Every entry starts with the block the one before it ends with, the first with the last valid
\* one, and the next to be created with the end of the last: no gap is validated over.  Until
\* batches are divided anew the batch positions are chained as well.  A last valid block that a
\* reorg took away unnoticed (see LastValidOnChain) breaks the chain.
EntriesChained ==
  bv.up /\ ~bvq.outlived =>
    LET start(p) == IF p = bv.created THEN bv.next ELSE vals[p].start
        end(p) == IF p = bv.validated THEN lastValid ELSE vals[p - 1].end
    IN \A p \in bv.validated .. bv.created :
         start(p).hash = end(p).hash /\ (~bvq.redivided => start(p) = end(p))

\* A block that the machine computes differently is never part of a validated state
\* (advanceValidations compares every run with the entry's end).
NoDivergentBlock == \A i \in DOMAIN lastValid.hash : lastValid.hash[i] \notin Divergent

\* What the validator has created, recorded and validated is one chain of states without a gap,
\* it lies on the node's chain, and it holds no block that the machine computes differently.
ValidatedSound == EntriesComplete /\ LastValidOnChain /\ EntriesChained /\ NoDivergentBlock

\* Once the outside is quiet, the validator reaches the last executed message that is in a
\* batch, although recordings and runs failed and were retried, unless a block diverges or the
\* failure was fatal (iterativeValidationProgress: "if not fatal - retry"), a reorg took away
\* the last valid block unnoticed, or batches it is past were divided anew.
ValidatorCatchesUp ==
  <>[](\/ bv.stopped \/ bvq.outlived \/ bvq.redivided
       \/ \E i \in DOMAIN ex : ex[i] \in Divergent
       \/ bv.up /\ bv.validated >= Min({Len(ex), BatchMsgCount(tb, Len(tb) - 1)}))
=============================================================================
