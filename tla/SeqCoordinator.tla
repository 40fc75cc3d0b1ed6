--------------------------- MODULE SeqCoordinator ---------------------------
(***************************************************************************)
(* The sequencer coordinator of arbnode/seq_coordinator.go: a set of       *)
(* sequencer nodes elect, through one Redis server, the node that may      *)
(* extend the message log, and copy the log to each other through Redis.   *)
(*                                                                         *)
(* Redis holds the lease key CHOSEN, the MSG_COUNT key, one key per        *)
(* message and one "wants lockout" key per node.  Times are kept as what   *)
(* remains of them: a key expires, and a node's local lease ends, when its *)
(* remaining time reaches 0.  The unit is arbitrary and Tick may happen    *)
(* between any two steps, so a node may be arbitrarily slow.               *)
(*                                                                         *)
(* Each node runs two threads that call the coordinator: the update thread *)
(* (update, every UpdateInterval) and whichever thread is in               *)
(* WriteMessageFromSequencer (at most one: it holds insertionMutex).  Both *)
(* enter acquireLockoutAndWriteMessage, one at a time because of           *)
(* wantsLockoutMutex, and a third thread calls AvoidLockout, SeekLockout   *)
(* and StopAndWait.  A Redis WATCH/MULTI/EXEC transaction is two steps,    *)
(* the reads and the EXEC, and the EXEC is refused if a watched key was    *)
(* written, or expired, in between.                                        *)
(***************************************************************************)
EXTENDS Naturals, Sequences, FiniteSets

CONSTANTS
  Nodes,            \* the sequencers, named by their url
  Priorities,       \* PRIORITIES_KEY: a sequence of nodes, best first
  Msgs,             \* the messages that may be sequenced
  MaxMsgs,          \* bound on the number of messages in the log
  LockoutDuration,
  LockoutSpare,
  MarginOfError,    \* how early a lease is renewed
  MsgPerPoll,       \* messages read from Redis by one update
  MaxAvoid,         \* bound on nested calls of AvoidLockout
  MaxFaults,        \* bound on failed calls, crashes and shutdowns
  Prompt,           \* TRUE: every thread runs between two units of time
  SyncOutcomes,     \* what the sync monitor may answer: a set of Booleans
  None              \* no node, no message

ASSUME NodesAssumption ==
  /\ Priorities \in Seq(Nodes)
  /\ None \notin Nodes
  /\ None \notin Msgs

ASSUME BoundsAssumption ==
  /\ MaxMsgs \in Nat
  /\ LockoutDuration \in Nat /\ LockoutSpare \in Nat /\ MarginOfError \in Nat
  /\ LockoutSpare < LockoutDuration
  /\ MsgPerPoll \in Nat /\ MaxAvoid \in Nat /\ MaxFaults \in Nat
  /\ SyncOutcomes \subseteq BOOLEAN /\ Prompt \in BOOLEAN

VARIABLES
  \* Redis
  chosen,      \* value of CHOSENSEQ_KEY, None when there is none
  chosenTtl,   \* what remains of it
  msgCount,    \* MSG_COUNT_KEY, 0 when there is none
  msgs,        \* the message keys: position -> message or None
  wants,       \* node -> what remains of its wants-lockout key, 0: no key
  \* fields of each node's SeqCoordinator, and its sequencer's mode
  prevChosen,  \* prevChosenSequencer
  reported,    \* reportedWantsLockout
  lockout,     \* lockoutUntil, as what remains of it
  avoid,       \* avoidLockout
  mode,        \* Sequencer: "paused", "forward" or "active"
  log,         \* the message database: the local copy of the log
  \* control state of each node's threads
  upd,         \* the update thread: its place, chosenSeq and localMsgCount
  release,     \* its chosenOneRelease transaction: "none", "clean", "dirty"
  seq,         \* the thread in WriteMessageFromSequencer
  acq,         \* the call of acquireLockoutAndWriteMessage in progress
  faults       \* failed calls, crashes and shutdowns so far

redis == <<chosen, chosenTtl, msgCount, msgs, wants>>
node  == <<prevChosen, reported, lockout, avoid, mode, log>>
ctl   == <<upd, release, seq, acq, faults>>
vars  == <<redis, node, ctl>>

Positions == 0 .. MaxMsgs - 1
MaybeNode == Nodes \cup {None}
MaybeMsg  == Msgs \cup {None}

(***************************************************************************)
(* acq[n].st is "none" when n's wantsLockoutMutex is free, "watch" between *)
(* the reads and the EXEC ("dirty" once a watched key has changed), "post" *)
(* between the EXEC and the store of lockoutUntil.                         *)
(***************************************************************************)
NoAcq == [st |-> "none", by |-> "none", exp |-> 0, msg |-> None,
          ttl |-> 0, setWants |-> FALSE]

Acqs == [st : {"none", "watch", "dirty", "post"}, by : {"none", "seq", "update"},
         exp : 0 .. MaxMsgs, msg : MaybeMsg, ttl : 0 .. LockoutDuration,
         setWants : BOOLEAN]

NoSeq == [st |-> "idle", pos |-> 0, msg |-> None]

Seqs == [st : {"idle", "chosen", "acquire", "write"}, pos : 0 .. MaxMsgs,
         msg : MaybeMsg]

UpdatePcs == {"idle", "sleep", "update", "release", "keep", "keeping", "take", "taking",
              "took", "retryWants", "stopWants", "stopChosen", "stopRelease", "stopped"}

NoUpdate == [pc |-> "idle", next |-> None, exp |-> 0]

Updates == [pc : UpdatePcs, next : MaybeNode, exp : 0 .. MaxMsgs]

\* Redis's keys, the nodes' fields and the states of their threads keep their types.
TypeOK ==
  /\ chosen \in MaybeNode /\ chosenTtl \in 0 .. LockoutDuration
  /\ msgCount \in 0 .. MaxMsgs
  /\ msgs \in [Positions -> MaybeMsg]
  /\ wants \in [Nodes -> 0 .. LockoutDuration]
  /\ prevChosen \in [Nodes -> MaybeNode]
  /\ reported \in [Nodes -> BOOLEAN]
  /\ lockout \in [Nodes -> 0 .. LockoutDuration]
  /\ avoid \in [Nodes -> 0 .. MaxAvoid]
  /\ mode \in [Nodes -> {"paused", "forward", "active"}]
  /\ log \in [Nodes -> Seq(Msgs)]
  /\ upd \in [Nodes -> Updates]
  /\ release \in [Nodes -> {"none", "clean", "dirty"}]
  /\ seq \in [Nodes -> Seqs]
  /\ acq \in [Nodes -> Acqs]
  /\ faults \in 0 .. MaxFaults

Init ==
  /\ chosen = None /\ chosenTtl = 0
  /\ msgCount = 0
  /\ msgs = [p \in Positions |-> None]
  /\ wants = [n \in Nodes |-> 0]
  /\ prevChosen = [n \in Nodes |-> None]
  /\ reported = [n \in Nodes |-> FALSE]
  /\ lockout = [n \in Nodes |-> 0]
  /\ avoid = [n \in Nodes |-> 0]
  /\ mode = [n \in Nodes |-> "paused"]
  /\ log = [n \in Nodes |-> <<>>]
  /\ upd = [n \in Nodes |-> NoUpdate]
  /\ release = [n \in Nodes |-> "none"]
  /\ seq = [n \in Nodes |-> NoSeq]
  /\ acq = [n \in Nodes |-> NoAcq]
  /\ faults = 0

(***************************************************************************)
(* Helpers.                                                                *)
(***************************************************************************)
Minus(t, d) == IF t > d THEN t - d ELSE 0

\* A call that fails, a crash or a shutdown uses up one unit of the budget.
Fault == faults < MaxFaults /\ faults' = faults + 1
NoFault == UNCHANGED faults

CurrentlyChosen(n) == lockout[n] > 0

\* RecommendSequencerWantingLockout
Recommended ==
  LET first == {i \in 1 .. Len(Priorities) :
                  /\ wants[Priorities[i]] > 0
                  /\ \A j \in 1 .. i - 1 : wants[Priorities[j]] = 0}
  IN  IF first = {} THEN None ELSE Priorities[CHOOSE i \in first : TRUE]

\* update returned: it runs again after UpdateInterval, a fraction of the unit
\* of time.
Resting == IF Prompt THEN "sleep" ELSE "idle"

\* The locals of update are gone when it returns.
Goto(n, pc) ==
  upd' = [upd EXCEPT ![n] = IF pc \in {"keep", "keeping", "take", "taking"}
                            THEN [@ EXCEPT !.pc = pc]
                            ELSE [NoUpdate EXCEPT !.pc = pc]]

\* Every watched key was written: the other open transactions will fail.
DirtyReleases(n) ==
  [m \in Nodes |-> IF m # n /\ release[m] = "clean" THEN "dirty" ELSE release[m]]
DirtyAcqs ==
  [m \in Nodes |-> [acq[m] EXCEPT !.st = IF @ = "watch" THEN "dirty" ELSE @]]

(***************************************************************************)
(* acquireLockoutAndWriteMessage.  AcquireReads takes wantsLockoutMutex,   *)
(* fixes the end of the lease, WATCHes CHOSEN and MSG_COUNT and reads      *)
(* them.  When MSG_COUNT is ahead, a call without a message by a node that *)
(* believes it is chosen skips the transaction and goes on to "post".      *)
(***************************************************************************)
AcquireReadsForgetsHolder(n, expected, msg) ==
  IF msgCount <= expected THEN "watch" ELSE "refused"

AcquireReadsOffByOne(n, expected, msg) ==
  IF chosen \notin {None, n} \/ msgCount > expected + 1 THEN "refused" ELSE "watch"

AcquireReads(n, expected, msg) ==
  IF chosen \notin {None, n} THEN "refused"
  ELSE IF msgCount <= expected THEN "watch"
  ELSE IF msg = None /\ CurrentlyChosen(n) THEN "post"
  ELSE "refused"

StartedAcq(n, by, expected, msg) ==
  [st |-> AcquireReads(n, expected, msg), by |-> by, exp |-> expected,
   msg |-> msg, ttl |-> LockoutDuration, setWants |-> avoid[n] = 0]

\* The MULTI: CHOSEN is set or its expiry moved, MSG_COUNT and the message
\* are written.  An expiry that has passed meanwhile deletes the keys.
AcquireWrites(n) ==
  LET a == acq[n]
  IN  /\ chosen' = IF a.ttl > 0 THEN n ELSE None
      /\ chosenTtl' = a.ttl
      /\ msgCount' = IF a.msg = None THEN a.exp ELSE a.exp + 1
      /\ msgs' = IF a.msg = None THEN msgs ELSE [msgs EXCEPT ![a.exp] = a.msg]
      /\ wants' = IF a.setWants THEN [wants EXCEPT ![n] = a.ttl] ELSE wants
      /\ release' = DirtyReleases(None)

\* What the caller does with the error.
AcquireRefused(n, by) ==
  IF by = "seq"
  THEN /\ seq' = [seq EXCEPT ![n] = NoSeq]
       /\ UNCHANGED <<upd, prevChosen>>
  ELSE /\ UNCHANGED seq
       /\ IF upd[n].pc \in {"take", "taking"}
          THEN /\ Goto(n, "retryWants")
               /\ prevChosen' = [prevChosen EXCEPT ![n] = None]
          ELSE /\ Goto(n, Resting)
               /\ UNCHANGED prevChosen

\* The EXEC succeeded.
AcquireExec(n) ==
  /\ acq[n].st = "watch"
  /\ AcquireWrites(n)
  /\ acq' = [DirtyAcqs EXCEPT ![n].st = "post"]
  /\ UNCHANGED <<node, upd, seq, faults>>

\* The EXEC was refused, failed, or was applied but its reply was lost.
AcquireFails(n) ==
  /\ acq[n].st \in {"watch", "dirty"}
  /\ \/ /\ \/ acq[n].st = "dirty" /\ NoFault
           \/ Fault
        /\ acq' = [acq EXCEPT ![n] = NoAcq]
        /\ UNCHANGED <<redis, release>>
     \/ /\ Fault /\ acq[n].st = "watch"
        /\ AcquireWrites(n)
        /\ acq' = [DirtyAcqs EXCEPT ![n] = NoAcq]
  /\ AcquireRefused(n, acq[n].by)
  /\ UNCHANGED <<reported, lockout, avoid, mode, log>>

\* lockoutUntil is stored and the mutex released.
AcquirePost(n) ==
  /\ acq[n].st = "post"
  /\ reported' = [reported EXCEPT ![n] = @ \/ acq[n].setWants]
  /\ lockout' = [lockout EXCEPT ![n] = Minus(acq[n].ttl, LockoutSpare)]
  /\ acq' = [acq EXCEPT ![n] = NoAcq]
  /\ IF acq[n].by = "seq"
     THEN seq' = [seq EXCEPT ![n].st = "write"] /\ UNCHANGED upd
     ELSE /\ UNCHANGED seq
          /\ Goto(n, IF upd[n].pc = "taking" THEN "took" ELSE Resting)
  /\ UNCHANGED <<redis, prevChosen, avoid, mode, log, release, faults>>

(***************************************************************************)
(* The update thread.  It reads the recommendation, then acts on it.       *)
(***************************************************************************)
UpdateRecommend(n) ==
  /\ upd[n].pc = "idle"
  /\ upd' = [upd EXCEPT ![n].pc = "update", ![n].next = Recommended]
  /\ UNCHANGED <<redis, node, release, seq, acq, faults>>

\* Sequencer.ForwardTo: when it cannot connect, neither pauseChan nor
\* forwarder is left set.
ForwardTo(n, ok) ==
  mode' = [mode EXCEPT ![n] = IF ok THEN "forward" ELSE "active"]

\* chosenOneRelease up to its reads: the local lease ends first.
ReleaseReads(n) ==
  /\ lockout' = [lockout EXCEPT ![n] = 0]
  /\ release' = [release EXCEPT ![n] = IF chosen = n THEN "clean" ELSE "none"]

\* updateWithLockout when another node is recommended.  upd.next is then the
\* value that prevChosenSequencer gets when the release succeeds.
UpdateHandOver(n) ==
  /\ upd[n].pc = "update" /\ prevChosen[n] = n /\ upd[n].next \notin {None, n}
  /\ ReleaseReads(n)
  /\ \E ok \in BOOLEAN :
       /\ IF ok THEN NoFault ELSE Fault
       /\ ForwardTo(n, ok)
       /\ upd' = [upd EXCEPT ![n].pc = "release", ![n].next = IF ok THEN @ ELSE None]
  /\ UNCHANGED <<redis, prevChosen, reported, avoid, log, seq, acq>>

\* The DEL of CHOSEN, and where the caller goes on success.
ReleaseSucceeds(n) ==
  /\ chosen' = IF release[n] = "clean" THEN None ELSE chosen
  /\ chosenTtl' = IF release[n] = "clean" THEN 0 ELSE chosenTtl
  /\ release' = IF release[n] = "clean"
                THEN [DirtyReleases(n) EXCEPT ![n] = "none"]
                ELSE [release EXCEPT ![n] = "none"]
  /\ acq' = IF release[n] = "clean" THEN DirtyAcqs ELSE acq
  /\ UNCHANGED <<msgCount, msgs, wants>>

\* chosenOneRelease returned an error.  It returns nil if after the failed
\* EXEC the key is read as absent or as another node's, and also if that
\* second read fails.
ReleaseErrs(n) ==
  /\ \/ release[n] = "dirty" /\ NoFault /\ chosen = n
     \/ release[n] # "none" /\ Fault /\ chosen = n
  /\ release' = [release EXCEPT ![n] = "none"]
  /\ UNCHANGED <<redis, acq>>

ReleaseIgnored(n) ==
  /\ \/ release[n] = "dirty" /\ NoFault /\ chosen # n
     \/ release[n] # "none" /\ Fault
  /\ release' = [release EXCEPT ![n] = "none"]
  /\ UNCHANGED <<redis, acq>>

ReleaseReturnsNil(n) ==
  \/ release[n] # "dirty" /\ ReleaseSucceeds(n) /\ NoFault
  \/ ReleaseIgnored(n)

UpdateReleased(n) ==
  /\ upd[n].pc = "release"
  /\ \/ /\ ReleaseReturnsNil(n)
        /\ prevChosen' = [prevChosen EXCEPT ![n] = upd[n].next]
     \/ /\ ReleaseErrs(n)
        /\ UNCHANGED prevChosen
  /\ Goto(n, Resting)
  /\ UNCHANGED <<reported, lockout, avoid, mode, log, seq>>

UpdateKeepaliveSkipped(n) ==
  /\ upd[n].pc = "update" /\ prevChosen[n] = n /\ upd[n].next \in {None, n}
  /\ Goto(n, Resting)
  /\ UNCHANGED <<redis, node, release, seq, acq, faults>>

\* updateWithLockout when this node stays chosen: renew the lease if it is
\* about to end.
UpdateKeepalive(n) ==
  /\ upd[n].pc = "update" /\ prevChosen[n] = n /\ upd[n].next \in {None, n}
  /\ IF lockout[n] > MarginOfError
     THEN Goto(n, Resting)
     ELSE upd' = [upd EXCEPT ![n] = [pc |-> "keep", next |-> None,
                                     exp |-> Len(log[n])]]
  /\ UNCHANGED <<redis, node, release, seq, acq, faults>>

\* The update thread enters acquireLockoutAndWriteMessage.
UpdateAcquire(n) ==
  /\ upd[n].pc \in {"keep", "take"}
  /\ acq[n].st = "none"
  /\ LET a == StartedAcq(n, "update", upd[n].exp, None)
     IN  IF a.st = "refused"
         THEN AcquireRefused(n, "update") /\ UNCHANGED acq
         ELSE /\ acq' = [acq EXCEPT ![n] = a]
              /\ Goto(n, IF upd[n].pc = "keep" THEN "keeping" ELSE "taking")
              /\ UNCHANGED <<seq, prevChosen>>
  /\ UNCHANGED <<redis, reported, lockout, avoid, mode, log, release, faults>>

(***************************************************************************)
(* update for a node that was not chosen: follow the recommended node,     *)
(* copy messages from Redis, and try to take over if recommended.          *)
(***************************************************************************)
\* The messages between the local count and MSG_COUNT, at most MsgPerPoll of
\* them, up to the first one whose key is missing.
ReadMessages(n) ==
  LET local == Len(log[n])
      limit == IF msgCount > local + MsgPerPoll THEN local + MsgPerPoll ELSE msgCount
      ok(k) == \A p \in local .. local + k - 1 : msgs[p] # None
      size  == CHOOSE k \in 0 .. Minus(limit, local) :
                 ok(k) /\ (k = Minus(limit, local) \/ msgs[local + k] = None)
  IN  [i \in 1 .. size |-> msgs[local + i - 1]]

FollowRecommended(n, ok) ==
  IF upd[n].next \in {n, prevChosen[n]}
  THEN UNCHANGED <<prevChosen, mode>>
  ELSE /\ ForwardTo(n, ok)
       /\ prevChosen' = [prevChosen EXCEPT ![n] = IF ok THEN upd[n].next ELSE None]

\* The sequencer thread holds insertionMutex, so messages are added only
\* while it is idle.
AddMessages(n, new) ==
  /\ new # <<>> => seq[n].st = "idle"
  /\ log' = [log EXCEPT ![n] = @ \o new]

\* wantsLockoutUpdateWithMutex and wantsLockoutRelease, under the mutex.  A
\* failed call may or may not have reached Redis.
WantsUpdate(n, ok) ==
  IF avoid[n] > 0
  THEN UNCHANGED <<wants, reported>>
  ELSE /\ reported' = [reported EXCEPT ![n] = @ \/ ok]
       /\ \/ wants' = [wants EXCEPT ![n] = LockoutDuration]
          \/ ~ok /\ UNCHANGED wants

WantsRelease(n, ok) ==
  IF ~reported[n]
  THEN UNCHANGED <<wants, reported>>
  ELSE /\ reported' = [reported EXCEPT ![n] = ~ok]
       /\ \/ wants' = [wants EXCEPT ![n] = 0]
          \/ ~ok /\ UNCHANGED wants

CanTakeOver(n) == upd[n].next = n /\ Len(log'[n]) >= msgCount

\* Connecting to the recommended node, the read of a message or the write of the
\* wants key may fail; what was read before that is added.
UpdateRead(n) ==
  /\ upd[n].pc = "update" /\ prevChosen[n] # n /\ acq[n].st = "none"
  /\ \E synced, processed \in SyncOutcomes,
        ok \in [{"forward", "wants"} -> BOOLEAN], k \in 0 .. Len(ReadMessages(n)) :
       /\ IF ok["forward"] /\ ok["wants"] /\ k = Len(ReadMessages(n))
          THEN NoFault ELSE Fault
       /\ FollowRecommended(n, ok["forward"])
       /\ AddMessages(n, SubSeq(ReadMessages(n), 1, k))
       /\ ~(synced /\ processed /\ CanTakeOver(n))
       /\ IF synced /\ avoid[n] = 0
          THEN WantsUpdate(n, ok["wants"]) ELSE WantsRelease(n, ok["wants"])
  /\ Goto(n, Resting)
  /\ UNCHANGED <<chosen, chosenTtl, msgCount, msgs, lockout, avoid, release, seq,
                 acq>>

\* The read of MSG_COUNT failed: update returns early.
UpdateNoCount(n) ==
  /\ upd[n].pc = "update" /\ prevChosen[n] # n
  /\ Fault
  /\ \E ok \in BOOLEAN : FollowRecommended(n, ok)
  /\ Goto(n, Resting)
  /\ UNCHANGED <<redis, reported, lockout, avoid, log, release, seq, acq>>

\* UpdateRead, synced, processed and with everything in place to become the main sequencer.
UpdateTakeover(n) ==
  /\ upd[n].pc = "update" /\ prevChosen[n] # n
  /\ AddMessages(n, ReadMessages(n))
  /\ CanTakeOver(n)
  /\ TRUE \in SyncOutcomes
  /\ mode' = [mode EXCEPT ![n] = "paused"]
  /\ upd' = [upd EXCEPT ![n] = [pc |-> "take", next |-> None,
                                   exp |-> Len(log'[n])]]
  /\ UNCHANGED <<redis, prevChosen, reported, lockout, avoid, release, seq, acq,
                 faults>>

\* The lease was caught: the sequencer is activated.
UpdateActivate(n) ==
  /\ upd[n].pc = "took"
  /\ mode' = [mode EXCEPT ![n] = "active"]
  /\ prevChosen' = [prevChosen EXCEPT ![n] = n]
  /\ Goto(n, Resting)
  /\ UNCHANGED <<redis, reported, lockout, avoid, log, release, seq, acq, faults>>

\* After a failed takeover the node makes sure it is marked as wanting it.
UpdateRetry(n) ==
  /\ upd[n].pc = "retryWants" /\ acq[n].st = "none"
  /\ \/ WantsUpdate(n, TRUE) /\ NoFault
     \/ WantsUpdate(n, FALSE) /\ Fault
  /\ Goto(n, Resting)
  /\ UNCHANGED <<chosen, chosenTtl, msgCount, msgs, prevChosen, lockout, avoid,
                 mode, log, release, seq, acq>>

(***************************************************************************)
(* SequencingMessage, called by WriteMessageFromSequencer with the         *)
(* insertionMutex held: check the local lease, write the message to Redis, *)
(* and only then to the local database.                                    *)
(***************************************************************************)
SequenceStart(n) ==
  /\ seq[n].st = "idle" /\ CurrentlyChosen(n)
  /\ Len(log[n]) < MaxMsgs
  /\ \E m \in Msgs :
       seq' = [seq EXCEPT ![n] = [st |-> "chosen", pos |-> Len(log[n]), msg |-> m]]
  /\ UNCHANGED <<redis, node, upd, release, acq, faults>>

Stopping(n) == upd[n].pc \in {"stopWants", "stopChosen", "stopRelease", "stopped"}

SequenceAcquireUnchecked(n) ==
  /\ seq[n].st = "chosen"
  /\ seq' = [seq EXCEPT ![n].st = "write"]
  /\ UNCHANGED <<redis, node, upd, release, acq, faults>>

\* After StopAndWait the coordinator's context is cancelled and no call is made.
SequenceAcquire(n) ==
  /\ seq[n].st = "chosen" /\ acq[n].st = "none"
  /\ LET a == StartedAcq(n, "seq", seq[n].pos, seq[n].msg)
     IN  IF Stopping(n) \/ a.st = "refused"
         THEN AcquireRefused(n, "seq") /\ UNCHANGED acq
         ELSE /\ acq' = [acq EXCEPT ![n] = a]
              /\ seq' = [seq EXCEPT ![n].st = "acquire"]
              /\ UNCHANGED <<upd, prevChosen>>
  /\ UNCHANGED <<redis, reported, lockout, avoid, mode, log, release, faults>>

SequenceWrite(n) ==
  /\ seq[n].st = "write"
  /\ log' = [log EXCEPT ![n] = Append(@, seq[n].msg)]
  /\ seq' = [seq EXCEPT ![n] = NoSeq]
  /\ UNCHANGED <<redis, prevChosen, reported, lockout, avoid, mode, upd, release,
                 acq, faults>>

\* The feed: a node learns the next message from another node's database.
Feed(n) ==
  /\ seq[n].st = "idle"
  /\ \E m \in Nodes : /\ Len(log[m]) > Len(log[n])
                      /\ log' = [log EXCEPT ![n] = Append(@, log[m][Len(@) + 1])]
  /\ UNCHANGED <<redis, prevChosen, reported, lockout, avoid, mode, ctl>>

(***************************************************************************)
(* AvoidLockout, SeekLockout (by db compaction and before a shutdown) and  *)
(* StopAndWait, which retries each release a few times.                    *)
(***************************************************************************)
AvoidLockout(n) ==
  /\ acq[n].st = "none" /\ ~Stopping(n) /\ avoid[n] < MaxAvoid
  /\ avoid' = [avoid EXCEPT ![n] = @ + 1]
  /\ \/ WantsRelease(n, TRUE) /\ NoFault
     \/ WantsRelease(n, FALSE) /\ Fault
  /\ UNCHANGED <<chosen, chosenTtl, msgCount, msgs, prevChosen, lockout, mode, log,
                 upd, release, seq, acq>>

SeekLockout(n) ==
  /\ acq[n].st = "none" /\ ~Stopping(n) /\ avoid[n] > 0
  /\ avoid' = [avoid EXCEPT ![n] = @ - 1]
  /\ \E synced \in SyncOutcomes, ok \in BOOLEAN :
       /\ IF ok THEN NoFault ELSE Fault
       /\ IF synced /\ avoid'[n] = 0
          THEN /\ reported' = [reported EXCEPT ![n] = @ \/ ok]
               /\ \/ wants' = [wants EXCEPT ![n] = LockoutDuration]
                  \/ ~ok /\ UNCHANGED wants
          ELSE UNCHANGED <<wants, reported>>
  /\ UNCHANGED <<chosen, chosenTtl, msgCount, msgs, prevChosen, lockout, mode, log,
                 upd, release, seq, acq>>

StopAndWait(n) ==
  /\ upd[n].pc \in {"idle", "sleep"}
  /\ Goto(n, "stopWants")
  /\ Fault
  /\ UNCHANGED <<redis, node, release, seq, acq>>

StopWants(n) ==
  /\ upd[n].pc = "stopWants" /\ acq[n].st = "none"
  /\ \/ WantsRelease(n, TRUE) /\ NoFault
     \/ WantsRelease(n, FALSE) /\ Fault
  /\ \E pc \in IF reported'[n] THEN {"stopWants", "stopChosen"} ELSE {"stopChosen"} :
       Goto(n, pc)
  /\ UNCHANGED <<chosen, chosenTtl, msgCount, msgs, prevChosen, lockout, avoid,
                 mode, log, release, seq, acq>>

StopChosen(n) ==
  /\ upd[n].pc = "stopChosen"
  /\ ReleaseReads(n)
  /\ Goto(n, "stopRelease")
  /\ UNCHANGED <<redis, prevChosen, reported, avoid, mode, log, seq, acq, faults>>

StopReleased(n) ==
  /\ upd[n].pc = "stopRelease"
  /\ \/ ReleaseReturnsNil(n) /\ Goto(n, "stopped")
     \/ ReleaseErrs(n) /\ \E pc \in {"stopChosen", "stopped"} : Goto(n, pc)
  /\ UNCHANGED <<node, seq>>

\* The process ends, at any point or after StopAndWait, and starts again:
\* only the database is kept.
Restart(n) ==
  /\ \/ upd[n].pc = "stopped" /\ NoFault
     \/ Fault
  /\ prevChosen' = [prevChosen EXCEPT ![n] = None]
  /\ reported' = [reported EXCEPT ![n] = FALSE]
  /\ lockout' = [lockout EXCEPT ![n] = 0]
  /\ avoid' = [avoid EXCEPT ![n] = 0]
  /\ mode' = [mode EXCEPT ![n] = "paused"]
  /\ upd' = [upd EXCEPT ![n] = NoUpdate]
  /\ release' = [release EXCEPT ![n] = "none"]
  /\ seq' = [seq EXCEPT ![n] = NoSeq]
  /\ acq' = [acq EXCEPT ![n] = NoAcq]
  /\ UNCHANGED <<redis, log>>

\* One unit of time passes for every key, lease and deadline.
Tick ==
  /\ Prompt => \A n \in Nodes : /\ upd[n].pc \in {"sleep", "stopped"}
                                /\ seq[n].st = "idle" /\ acq[n].st = "none"
  /\ upd' = [n \in Nodes |-> IF upd[n].pc = "sleep" THEN NoUpdate ELSE upd[n]]
  /\ chosenTtl' = Minus(chosenTtl, 1)
  /\ chosen' = IF chosenTtl = 1 THEN None ELSE chosen
  /\ wants' = [n \in Nodes |-> Minus(wants[n], 1)]
  /\ lockout' = [n \in Nodes |-> Minus(lockout[n], 1)]
  /\ acq' = [n \in Nodes |-> [IF chosenTtl = 1 THEN DirtyAcqs[n] ELSE acq[n]
                              EXCEPT !.ttl = Minus(@, 1)]]
  /\ release' = IF chosenTtl = 1 THEN DirtyReleases(None) ELSE release
  /\ UNCHANGED <<msgCount, msgs, prevChosen, reported, avoid, mode, log, seq, faults>>

Step(n) ==
  \/ AcquireExec(n) \/ AcquireFails(n) \/ AcquirePost(n)
  \/ UpdateRecommend(n) \/ UpdateHandOver(n) \/ UpdateReleased(n)
  \/ UpdateKeepalive(n) \/ UpdateAcquire(n) \/ UpdateRead(n) \/ UpdateNoCount(n)
  \/ UpdateTakeover(n) \/ UpdateActivate(n) \/ UpdateRetry(n)
  \/ SequenceStart(n) \/ SequenceAcquire(n) \/ SequenceWrite(n) \/ Feed(n)
  \/ AvoidLockout(n) \/ SeekLockout(n)
  \/ StopAndWait(n) \/ StopWants(n) \/ StopChosen(n) \/ StopReleased(n)
  \/ Restart(n)

Next == Tick \/ \E n \in Nodes : Step(n)

Spec == Init /\ [][Next]_vars

(***************************************************************************)
(* The threads of a node that nothing stops keep running, and time passes  *)
(* even if a thread retries without end (strong fairness of Tick).         *)
(***************************************************************************)
UpdateThread(n) ==
  \/ UpdateRecommend(n) \/ UpdateHandOver(n) \/ UpdateReleased(n)
  \/ UpdateKeepalive(n) \/ UpdateAcquire(n) \/ UpdateRead(n) \/ UpdateNoCount(n)
  \/ UpdateTakeover(n) \/ UpdateActivate(n) \/ UpdateRetry(n)

AcquireThread(n) == AcquireExec(n) \/ AcquireFails(n) \/ AcquirePost(n)

SequenceThread(n) == SequenceAcquire(n) \/ SequenceWrite(n)

ShutdownThread(n) == StopWants(n) \/ StopChosen(n) \/ StopReleased(n)

Fairness ==
  /\ SF_vars(Tick)
  /\ \A n \in Nodes : /\ WF_vars(UpdateThread(n))
                      /\ WF_vars(AcquireThread(n))
                      /\ WF_vars(SequenceThread(n))
                      /\ WF_vars(ShutdownThread(n))

FairSpec == Spec /\ Fairness

(***************************************************************************)
(* Properties.                                                             *)
(***************************************************************************)
\* Every node's database is a prefix of the log in Redis, whatever leases the
\* nodes believe they hold: WriteMessageFromSequencer writes a message locally
\* only after its Redis transaction, and update copies only what is in Redis.
LogsAgree ==
  \A n \in Nodes : /\ Len(log[n]) <= msgCount
                   /\ \A i \in 1 .. Len(log[n]) : log[n][i] = msgs[i - 1]

\* The message keys below MSG_COUNT, and no others, are written: a takeover or
\* keepalive never publishes a count whose messages are missing.
LogComplete == \A p \in Positions : (msgs[p] # None) <=> (p < msgCount)

\* A sequenced message is final: no later transaction, by any node, writes its
\* key again, and MSG_COUNT never decreases.
MessagesFinal ==
  [][/\ msgCount <= msgCount'
     /\ \A p \in Positions : msgs[p] # None => msgs'[p] = msgs[p]]_vars

\* CHOSENSEQ_KEY is "Never overwritten. Expires or released only": no node
\* replaces another node's lease.
ChosenNeverOverwritten ==
  [][chosen # None => chosen' \in {chosen, None}]_vars

\* Refinement: the nodes implement one shared log, the one in Redis.
RedisLog == [i \in 1 .. msgCount |-> msgs[i - 1]]
Abstract == INSTANCE MessageLog WITH log <- RedisLog, copy <- log
ImplementsMessageLog == Abstract!Spec

\* Once failures stop, and if no node stays shut down or avoids the lockout, the
\* preferred sequencer ends up as the active one for good and keeps having every
\* message that is in Redis, whichever node held the lease and however the
\* failures left them.
PreferredTakesOver ==
  LET p == Priorities[1]
  IN  (\A n \in Nodes : []<>~Stopping(n) /\ [](avoid[n] = 0)) =>
        /\ <>[](chosen = p /\ prevChosen[p] = p /\ mode[p] = "active")
        /\ []<>(Len(log[p]) = msgCount)

\* A preferred sequencer that keeps avoiding the lockout, for a shutdown or a
\* compaction, eventually stops holding it if the others can take it.  A node
\* whose prevChosenSequencer is itself though it lost the lease only repeats
\* its keepalive and does not ask for the lease, so that is a premise.
AvoiderHandsOver ==
  LET p == Priorities[1]
  IN  (/\ <>[](avoid[p] > 0)
       /\ \A n \in Nodes \ {p} : /\ []<>~Stopping(n) /\ <>[](avoid[n] = 0)
                                 /\ []<>(prevChosen[n] # n \/ chosen = n))
      => <>[](chosen # p)

\* Once failures stop, the lease ends up where it should: with the preferred sequencer, or,
\* while that one avoids the lockout, with somebody else (update, chosenOneRelease, AvoidLockout).
LeaseMoves == PreferredTakesOver /\ AvoiderHandsOver

\* "Was, and still is, the active sequencer" (updateWithLockout): a node that keeps
\* the lease and its belief to be chosen does not stay paused or forwarding.
ChosenIsActive ==
  \A n \in Nodes : ~<>[](chosen = n /\ prevChosen[n] = n /\ mode[n] # "active")

\* A node that believes it is chosen and lacks messages that are in Redis gets
\* them: "no need to do anything" when MSG_COUNT is ahead of a keepalive.
ChosenCatchesUp ==
  \A n \in Nodes : (prevChosen[n] = n /\ Len(log[n]) < msgCount)
                     ~> (Len(log[n]) = msgCount)
-----------------------------------------------------------------------------
(***************************************************************************)
(* The inductive invariant behind the safety properties of SeqCoordinator. *)
(* A lease in Redis may expire, be taken over and be written to by another *)
(* node between any two steps of a node that still believes it is chosen.  *)
(* What keeps the logs equal is the WATCHed transaction: while it has not  *)
(* been disturbed, what the node read still holds.                         *)
(***************************************************************************)
\* A call of acquireLockoutAndWriteMessage between its reads and its EXEC that
\* no write has disturbed: CHOSEN is free or the node's own, MSG_COUNT is not
\* ahead of the count the caller expects.
Undisturbed(n) ==
  acq[n].st = "watch" => chosen \in {None, n} /\ msgCount <= acq[n].exp

\* A call by update carries no message and a count its node has reached; a call
\* by SequencingMessage carries that thread's message and position.
AcqCaller(n) ==
  /\ acq[n].st = "none" \/ acq[n].by \in {"seq", "update"}
  /\ (acq[n].st \in {"watch", "dirty"} /\ acq[n].by = "update") =>
       acq[n].msg = None /\ acq[n].exp <= Len(log[n])
  /\ (acq[n].st # "none" /\ acq[n].by = "seq") =>
       seq[n].st = "acquire" /\ acq[n].exp = seq[n].pos /\ acq[n].msg = seq[n].msg

\* The message of the sequencing thread is in Redis, at its position.
Published(n) == seq[n].pos < msgCount /\ msgs[seq[n].pos] = seq[n].msg

\* insertionMutex: the thread's position stays the end of the local log, and
\* once its transaction is applied the message is in Redis.
SeqThread(n) ==
  /\ seq[n].st # "idle" =>
       /\ seq[n].pos = Len(log[n]) /\ seq[n].pos < MaxMsgs
       /\ seq[n].msg \in Msgs
  /\ (acq[n].st = "post" /\ acq[n].by = "seq") => Published(n)
  /\ seq[n].st = "write" => Published(n)

\* localMsgCount, read by update, is not ahead of the local log.
UpdThread(n) ==
  upd[n].pc \in {"keep", "take", "keeping", "taking"} => upd[n].exp <= Len(log[n])

NodeInv(n) == Undisturbed(n) /\ AcqCaller(n) /\ SeqThread(n) /\ UpdThread(n)

\* The inductive invariant of the coordinator.
IInv == TypeOK /\ LogComplete /\ LogsAgree /\ \A n \in Nodes : NodeInv(n)
=============================================================================
