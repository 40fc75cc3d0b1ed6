----------------------------- MODULE Challenge ------------------------------
(***************************************************************************)
(* One interactive challenge: our challenge manager (challenge_manager.go, *)
(* block_challenge_backend.go, execution_challenge_bakend.go) against an   *)
(* opponent who may claim anything the contract accepts.  The manager      *)
(* reads the finalized state of the contract, which lags behind, and may   *)
(* be rebuilt after a restart.                                             *)
(*                                                                         *)
(* A hash is abstracted to whether it is the one we compute; positions,    *)
(* batches and step counts are kept.                                       *)
(***************************************************************************)
EXTENDS Integers, SequencesExt, FiniteSetsExt

CONSTANTS MaxBisectionDegree, ChalScenarios

VARIABLES
  ch,    \* the challenge contract: mode, turn, start, len, segs, blockStep
  fin,   \* the contract at the latest finalized block
  man,   \* the manager: execution backend, narrowed range, whether the last Act failed
  chq    \* the scenario and what is left of its budget; history: what went wrong

chVars == <<ch, fin, man, chq>>

NoBackend == -1
BatchEnd(b) == IF b = 0 THEN chq.batches[1] ELSE chq.batches[b + 1]   \* GetBatchMessageCount
BatchCountBefore(b) == IF b = 0 THEN 0 ELSE BatchEnd(b - 1)
StartMsg == BatchCountBefore(chq.startBatch) + chq.startPos
StepsOf(msg) == 4 + (msg % 2)          \* the machine's steps for the message (external)
TooFarAt == BatchEnd(chq.maxBatches - 1) - StartMsg + 1

\* NewChallengeManager and NewBlockChallengeBackend.
NewManager ==
  [exec |-> NoBackend, steps |-> 0, startGs |-> [batch |-> chq.startBatch, pos |-> chq.startPos],
   high |-> chq.endBatch, start |-> 0, err |-> FALSE, behind |-> FALSE]
-----------------------------------------------------------------------------
\* A variant that excludes the middle when the batch is at or below it.
FindBatchExcludes(m, count) ==
  IF count = 0 THEN 0
  ELSE LET search[r \in (0 .. 9) \X (-1 .. 9)] ==
             LET low == r[1]  high == r[2]  mid == (low + high) \div 2 IN
             IF high < low THEN -1
             ELSE IF BatchEnd(mid) < count THEN search[<<mid + 1, high>>]
             ELSE IF BatchEnd(mid) = count THEN mid + 1
             ELSE search[<<low, mid - 1>>]
       IN search[<<m.startGs.batch, m.high>>]
\* findBatchAfterMessageCount; -1 is an error.
FindBatch(m, count) ==
  IF count = 0 THEN 0
  ELSE LET search[r \in (0 .. 9) \X (-1 .. 9)] ==
             LET low == r[1]  high == r[2]  mid == (low + high) \div 2 IN
             IF high < low THEN -1
             ELSE IF BatchEnd(mid) < count THEN search[<<mid + 1, high>>]
             ELSE IF BatchEnd(mid) = count THEN mid + 1
             ELSE IF mid = low THEN mid
             ELSE search[<<low, mid>>]
       IN search[<<m.startGs.batch, m.high>>]

\* FindGlobalStateFromMessageCount and GetInfoAtStep: the batch and the position in it.
GetInfoAtStep(m, step) ==
  LET count == StartMsg + step
      b == FindBatch(m, count)
  IN IF step >= TooFarAt THEN [ok |-> TRUE, far |-> TRUE, batch |-> 0, pos |-> 0]
     ELSE IF b = -1 \/ BatchCountBefore(b) > count THEN [ok |-> FALSE, far |-> FALSE, batch |-> 0, pos |-> 0]
     ELSE [ok |-> TRUE, far |-> FALSE, batch |-> b, pos |-> count - BatchCountBefore(b)]

\* BlockChallengeBackend.SetRange, which narrows the search.  It leaves startPosition at 0, so a
\* range that starts at 0 must start with the state the last range started with; start is the
\* position of that state.
SetRange(m, from, to) ==
  LET s == GetInfoAtStep(m, from)  e == GetInfoAtStep(m, to)
      gs == [batch |-> s.batch, pos |-> s.pos] IN
  IF ~s.ok \/ ~e.ok \/ (from = 0 /\ m.startGs # gs) THEN [m EXCEPT !.err = TRUE]
  ELSE [m EXCEPT !.startGs = gs, !.start = from, !.high = IF e.far THEN @ ELSE e.batch]
-----------------------------------------------------------------------------
\* The positions of the segments (resolveStateHash, bisect): the last one ends the range.
SegmentPositions(start, len, degree) ==
  [i \in 1 .. degree + 1 |-> IF i = degree + 1 THEN start + len ELSE start + (i - 1) * (len \div degree)]
SegmentsOf(c) == SegmentPositions(c.start, c.len, Len(c.segs) - 1)

\* ScanChallengeState: the last segment that starts where both agree; 0 is an error.
Scan(c) ==
  LET wrong == {i \in DOMAIN c.segs : ~c.segs[i]}
  IN IF wrong = {} \/ Min(wrong) = 1 THEN 0 ELSE Min(wrong) - 1

\* The contract's answer to a bisection of segment i (external): the start is kept, the end must
\* differ, and what is bisected must be the current state.
Bisected(c, i, segs) ==
  LET p == SegmentsOf(c) IN
  [c EXCEPT !.start = p[i], !.len = p[i + 1] - p[i], !.segs = segs,
            !.turn = IF c.turn = "me" THEN "other" ELSE "me"]

\* bisect: a short range has as many segments as steps.
Degree(len) == Min({MaxBisectionDegree, len})

\* createExecutionBackend: the machine for the message at a step of the dispute.
CreateExecutionBackend(m, step) ==
  IF m.exec = StartMsg + step THEN m
  ELSE IF ~GetInfoAtStep(m, step + 1).ok THEN [m EXCEPT !.err = TRUE, !.exec = NoBackend]
  ELSE [m EXCEPT !.exec = StartMsg + step, !.steps = StepsOf(StartMsg + step)]

\* LoadExecChallengeIfExists: with the step of the event.
LoadExec(m) ==
  IF fin.mode # "exec" THEN [m EXCEPT !.exec = NoBackend]
  ELSE IF m.exec # NoBackend THEN m
  ELSE CreateExecutionBackend(m, fin.blockStep)

\* IssueExecChallenge: the disputed block and the number of steps of the backend's machine.  The
\* claimed end is that of the block, where a machine with too few steps would not be yet.
IssueExecChallenge(m, position) ==
  [mode |-> "exec", turn |-> "other", start |-> 0, len |-> m.steps,
   segs |-> <<TRUE, m.steps >= StepsOf(StartMsg + position)>>, blockStep |-> position, sent |-> m.steps]
CanIssueExec(m, position) == GetInfoAtStep(m, position).ok /\ GetInfoAtStep(m, position + 1).ok

\* IssueOneStepProof: the proof of a right step ends the challenge.
Won == [mode |-> "won", turn |-> "none", start |-> 0, len |-> 0, segs |-> <<>>, blockStep |-> 0, sent |-> 0]
\* What the contract makes of a transaction built from state seen: another current state refuses it.
Submit(seen, next) == IF ch = seen THEN next ELSE ch

\* latestConfirmedBlock: what the manager acts on.
LatestConfirmed == fin

\* IsMyTurn.
IsMyTurn == ch.turn = "me" /\ LatestConfirmed.turn = "me"

\* ScanChallengeState with our backend: a machine for another message differs from the start on.
NextMove(m) == IF m.exec \in {NoBackend, StartMsg + fin.blockStep} THEN Scan(fin) ELSE 0

\* How Act ends: with an error, or with a transaction.
ActFails(m) == man' = [m EXCEPT !.err = TRUE] /\ UNCHANGED <<ch, chq>>
ActSends(m, next) == man' = m /\ ch' = Submit(fin, next) /\ UNCHANGED chq

\* A segment i of several steps is bisected, in the narrowed range.
ActBisects(m, i, from, to) ==
  \E n \in {IF m.exec = NoBackend THEN SetRange(m, from, to) ELSE m} :
    IF n.err THEN ActFails(n)
    ELSE ActSends(n, Bisected(fin, i, [k \in 1 .. Degree(to - from) + 1 |-> TRUE]))

\* A segment of one block is challenged.  createExecutionBackend is given the number of the
\* segment, which is the position only as long as the range starts at 0.
ActIssuesExec(m, i, position) ==
  \E n \in {CreateExecutionBackend(m, i - 1)} :
    /\ man' = [n EXCEPT !.err = @ \/ ~CanIssueExec(n, position)]
    /\ ch' = IF man'.err THEN ch ELSE Submit(fin, IssueExecChallenge(n, position))
    /\ chq' = [chq EXCEPT !.misplaced = @ \/ fin.start > 0]

ActOnSegment(m, i) ==
  \E p \in {SegmentsOf(fin)} :
    IF p[i] + 1 # p[i + 1] THEN ActBisects(m, i, p[i], p[i + 1])
    ELSE IF m.exec # NoBackend THEN ActSends(m, Won)
    ELSE ActIssuesExec(m, i, p[i])

\* ChallengeManager.Act.
ChallengeAct ==
  /\ ch.mode # "won" /\ fin.mode # "won"
  /\ \E m \in {LoadExec([man EXCEPT !.err = FALSE, !.behind = man.start > fin.start])} :
       IF m.err THEN ActFails(m)
       ELSE IF ~IsMyTurn THEN ActSends(m, ch)
       ELSE \E n \in {IF m.exec = NoBackend THEN SetRange(m, fin.start, fin.start + fin.len) ELSE m} :
              IF n.err \/ NextMove(n) = 0 THEN ActFails(n) ELSE ActOnSegment(n, NextMove(n))
  /\ UNCHANGED fin

\* The opponent: a bisection of a segment whose end it disputes, an execution challenge with a
\* number of steps of its own, or its time runs out.
OtherBisects ==
  /\ ch.turn = "other"
  /\ \E i \in 1 .. Len(ch.segs) - 1 :
       LET p == SegmentsOf(ch)  d == Degree(p[i + 1] - p[i]) IN
       /\ p[i] + 1 < p[i + 1]
       /\ \E mid \in [1 .. d - 1 -> BOOLEAN], end \in IF ch.segs[i + 1] THEN {FALSE} ELSE BOOLEAN :
            ch' = Bisected(ch, i, <<TRUE>> \o mid \o <<end>>)
  /\ UNCHANGED <<fin, man, chq>>
OtherChallengesExecution ==
  /\ ch.turn = "other" /\ ch.mode = "block"
  /\ \E i \in 1 .. Len(ch.segs) - 1, steps \in 2 .. 3 :
       LET p == SegmentsOf(ch) IN
       /\ p[i] + 1 = p[i + 1]
       /\ ch' = [mode |-> "exec", turn |-> "me", start |-> 0, len |-> steps, segs |-> <<TRUE, FALSE>>,
                 blockStep |-> p[i], sent |-> 0]
  /\ UNCHANGED <<fin, man, chq>>
OtherTimesOut ==
  /\ ch.turn = "other" /\ ch' = Won
  /\ UNCHANGED <<fin, man, chq>>

Finalize == fin # ch /\ fin' = ch /\ UNCHANGED <<ch, man, chq>>
\* A reorganization of the parent chain takes back what is not final.
ParentReorg ==
  /\ chq.reorgs > 0 /\ ch # fin /\ ch' = fin
  /\ chq' = [chq EXCEPT !.reorgs = @ - 1, !.takenBack = man.start > fin.start]
  /\ UNCHANGED <<fin, man>>
ManagerRestart ==
  /\ chq.crashes > 0 /\ man' = NewManager
  /\ chq' = [chq EXCEPT !.crashes = @ - 1, !.takenBack = FALSE] /\ UNCHANGED <<ch, fin>>
-----------------------------------------------------------------------------
ChalInit ==
  /\ chq \in ChalScenarios
  /\ ch = [mode |-> "block", turn |-> IF chq.asserter THEN "other" ELSE "me", start |-> 0, len |-> chq.blocks,
           segs |-> <<TRUE, chq.asserter>>, blockStep |-> 0, sent |-> 0]
  /\ fin = ch /\ man = NewManager

ChalNext == \/ ChallengeAct \/ OtherBisects \/ OtherChallengesExecution \/ OtherTimesOut
            \/ Finalize \/ ParentReorg \/ ManagerRestart
ChalSpec == ChalInit /\ [][ChalNext]_chVars
-----------------------------------------------------------------------------
\* On a challenge it is in the right about the manager finds the segment to contest, and its
\* search the batch of every position, also after the range was narrowed and after a restart;
\* Act fails only when it acts on a state from before the bisection that last narrowed its range,
\* or after it gave an execution challenge the wrong message (Act, ScanChallengeState,
\* findBatchAfterMessageCount, SetRange).
ManagerFindsItsWay == man.err => man.behind \/ chq.misplaced

\* In an execution challenge our backend runs the message of the disputed block, whoever began it,
\* and the execution challenge we begin has the steps of that message; except one that we begin
\* when the blocks in dispute no longer start at the first (createExecutionBackend, Act).
BackendRunsDisputed ==
  /\ fin.mode = "exec" /\ man.exec # NoBackend /\ (fin.sent # 0 => ~chq.misplaced) =>
       man.exec = StartMsg + fin.blockStep
  /\ ch.sent # 0 /\ ~chq.misplaced => ch.sent = StepsOf(StartMsg + ch.blockStep)

\* The right side wins: every move shrinks the dispute until the one step proof, whatever the
\* opponent claims, with finality that lags and moves that a reorganization takes back (Act),
\* unless the execution challenge was given the wrong message, or a bisection was taken back
\* after it narrowed the manager's range and the manager is not restarted.
ChallengeWon == <>(ch.mode = "won") \/ <>[](chq.misplaced \/ chq.takenBack)

-----------------------------------------------------------------------------
(***************************************************************************)
(* The cache of machines of an execution run (machine_cache.go,            *)
(* execution_run.go, machine.go): machines at regular steps, built with    *)
(* doubling intervals, re-spaced for the range in dispute, and the last    *)
(* machine handed out.  A machine is its step count; it halts at Steps.    *)
(***************************************************************************)

CONSTANTS McScenarios, McWord    \* steps, cached machines, initial interval; 2^64

VARIABLES mc, mcq
mcVars == <<mc, mcq>>

Wrap(x) == x % McWord
Steps == mcq.steps
StepTo(step, n) == Min({Steps, step + n})         \* ArbitratorMachine.Step (external)
Running(step) == step < Steps                     \* IsRunning

\* populateCache: machines at further intervals, up to the number to keep.
Populate(c) ==
  LET c0 == IF c.machines = <<>> THEN [c EXCEPT !.first = c.interval] ELSE c
      more(x, k) ==
        LET last == IF x.machines = <<>> THEN 0 ELSE Last(x.machines)
        IN IF Running(last) /\ Wrap(last + x.interval) < x.final /\ Len(x.machines) < mcq.cached
           THEN [x EXCEPT !.machines = Append(@, StepTo(last, x.interval))] ELSE x
  IN FoldLeft(more, c0, [k \in 1 .. mcq.cached |-> k])

\* Every second machine is dropped and the interval doubled.
Compress(c) ==
  [c EXCEPT !.machines = [k \in 1 .. Len(@) \div 2 |-> c.machines[2 * k]],
            !.first = c.first + c.interval, !.interval = 2 * @]

\* A round of the construction in NewMachineCache; the last one takes out the final machine.
BuildRound ==
  /\ mc.pc = "build"
  /\ LET c == Populate(mc) IN
     mc' = IF Running(Last(c.machines)) THEN Compress(c)
           ELSE [c EXCEPT !.machines = Front(@), !.final = Last(c.machines), !.pc = "ready"]
  /\ UNCHANGED mcq

\* getClosestMachine: the index, -1 for the machine at step 0 and the length for the final one.
ClosestIndex(c, step) ==
  IF step < c.first THEN -1
  ELSE IF step >= c.final THEN Len(c.machines)
  ELSE IF c.interval = 0 \/ step - c.first > Wrap(c.interval * Wrap(Len(c.machines) - 1)) THEN Len(c.machines) - 1
  ELSE (step - c.first) \div c.interval
ClosestStep(c, i) ==
  IF i = -1 THEN 0 ELSE IF i = Len(c.machines) THEN c.final ELSE c.machines[i + 1]

\* The end of the range when it reaches the final machine.
ClampEnd(c, end, interval) == IF end >= c.final THEN Wrap(c.final - interval \div 2) ELSE end

\* SetRange with setRangeLocked; an error destroys the cache (unlockBuild).
CacheSetRange(start, end) ==
  /\ mc.pc = "ready" /\ mcq.calls > 0 /\ mcq' = [mcq EXCEPT !.calls = @ - 1]
  /\ LET i0 == Wrap(end - start) \div mcq.cached
         i1 == IF i0 = 0 THEN 2 ELSE i0
         s == IF start = 0 THEN i1 \div 2 ELSE start
         e == ClampEnd(mc, end, i1)
         i2 == Wrap(e - s) \div mcq.cached
         interval == IF i2 = 0 THEN 1 ELSE i2
         k == ClosestIndex(mc, s)
     IN mc' = IF s = mc.first /\ interval = mc.interval THEN mc
              ELSE IF k = -1 /\ mc.first <= s THEN [mc EXCEPT !.pc = "panic"]
              ELSE IF k >= 0 /\ k < Len(mc.machines) /\ mc.machines[k + 1] > s THEN [mc EXCEPT !.pc = "destroyed"]
              ELSE IF k = Len(mc.machines) /\ mc.final > s THEN [mc EXCEPT !.pc = "destroyed"]
              ELSE Populate([mc EXCEPT !.machines = <<StepTo(ClosestStep(mc, k), s - ClosestStep(mc, k))>>,
                                       !.first = s, !.interval = interval])

\* The last machine is used when it is nearer and not past the step.
UseLast(c, closest, step) == c.last # -1 /\ c.last >= closest /\ c.last <= step

\* GetMachineAt, and GetStepAt that checks the position: what the caller gets.
GetMachineAt(step) ==
  /\ mc.pc = "ready"
  /\ LET k == ClosestIndex(mc, step)
         from == IF UseLast(mc, ClosestStep(mc, k), step) THEN mc.last ELSE ClosestStep(mc, k)
         at == StepTo(from, Wrap(step - from))
     IN mc' = IF k < -1 \/ (k = -1 /\ step >= mc.first) THEN [mc EXCEPT !.pc = "panic"]
              ELSE IF at > step \/ (at < step /\ Running(at)) THEN [mc EXCEPT !.got = [want |-> step, at |-> -1]]
              ELSE [mc EXCEPT !.got = [want |-> step, at |-> at], !.last = at]
  /\ UNCHANGED mcq

McInit ==
  /\ mcq \in McScenarios
  /\ mc = [pc |-> "build", machines |-> <<>>, first |-> 0, interval |-> mcq.initial, final |-> McWord - 1,
           last |-> -1, got |-> [want |-> 0, at |-> 0]]
McNext ==
  \/ BuildRound
  \/ \E s \in 0 .. Steps, e \in 1 .. Steps + 1 : s < e /\ CacheSetRange(s, e)
  \/ \E step \in 0 .. Steps + 1 : GetMachineAt(step)
McSpec == McInit /\ [][McNext]_mcVars
-----------------------------------------------------------------------------
\* The cache serves every step: however the ranges were set before, the caller gets the machine of
\* the step it asked for, or the halted one (GetMachineAt, ValidForStep), and no call breaks the
\* cache (setRangeLocked, unlockBuild).
CacheServes ==
  /\ mc.pc \in {"build", "ready"}
  /\ mc.got.at = Min({mc.got.want, Steps})

\* getClosestMachine computes an index where it should search: the machines really are one
\* interval apart from the first on, through doubling and re-spacing (populateCache).
CacheRegular ==
  mc.pc = "ready" => \A k \in DOMAIN mc.machines : mc.machines[k] = Min({Steps, mc.first + (k - 1) * mc.interval})

\* A challenge that the manager is in the right about is fought with the right machines: it
\* finds each batch and segment and runs the disputed message, with the exceptions named there, and
\* the cache hands out the machine of the step that is asked for (Act, createExecutionBackend,
\* GetMachineAt).
DisputeSound == ManagerFindsItsWay /\ BackendRunsDisputed /\ CacheServes /\ CacheRegular
=============================================================================
