----------------------------- MODULE Lifecycle ------------------------------
(***************************************************************************)
(* How a node and its components start and stop: the threads of one        *)
(* component (StopWaiterSafe), and the order in which the node starts and  *)
(* stops the components.                                                   *)
(***************************************************************************)
EXTENDS Integers, FiniteSets, Sequences

(***************************************************************************)
(* StopWaiterSafe (util/stopwaiter) and the promises launched with it:     *)
(* threads are started, by other threads, while one or more callers stop   *)
(* the component and wait.  A lock is held for each look at the state, not *)
(* from a look to the launch.                                              *)
(***************************************************************************)

CONSTANTS SwThreads,       \* calls that launch a thread
          SwKind,          \* of a call: "thread", "promise" or "limiter" (ChanRateLimiter)
          SwStoppers       \* callers of StopAndWait

ASSUME SwAssumption == IsFiniteSet(SwThreads)

VARIABLES sw,              \* started, stopped and whether the context is cancelled
          wg,              \* the wait group's counter
          thr,             \* of a launch: where it is
          launchedLate,    \* launches that joined the wait group after the stop
          promise,         \* of a launch: "none", "pending", "ready"
          stopper          \* of a caller: "idle", "waits", "waited" or "returned" (did not wait)

swvars == <<sw, wg, thr, launchedLate, promise, stopper>>

SwInit ==
  /\ sw = [started |-> FALSE, stopped |-> FALSE, cancelled |-> FALSE] /\ wg = 0
  /\ thr = [t \in SwThreads |-> "idle"] /\ launchedLate = {}
  /\ promise = [t \in SwThreads |-> "none"] /\ stopper = [s \in SwStoppers |-> "idle"]

\* Start: start after stop is cancelled at once.
StartWaiter ==
  /\ ~sw.started
  /\ sw' = [sw EXCEPT !.started = TRUE, !.cancelled = sw.stopped]
  /\ UNCHANGED <<wg, thr, launchedLate, promise, stopper>>

\* The parent's context is cancelled.
ParentCancelled ==
  /\ sw.started /\ ~sw.cancelled /\ sw' = [sw EXCEPT !.cancelled = TRUE]
  /\ UNCHANGED <<wg, thr, launchedLate, promise, stopper>>
-----------------------------------------------------------------------------
(* Launching.                                                              *)

\* The promise of a component that is not started or is stopped is made with an error.
Refused(t) == promise' = [promise EXCEPT ![t] = "ready"]

\* LaunchPromiseThread: the context, then whether the component is stopped.
PromiseContext(t) ==
  /\ thr[t] = "idle" /\ SwKind[t] = "promise"
  /\ IF sw.started THEN thr' = [thr EXCEPT ![t] = "asks"] /\ UNCHANGED promise
     ELSE thr' = [thr EXCEPT ![t] = "refused"] /\ Refused(t)
  /\ UNCHANGED <<sw, wg, launchedLate, stopper>>

PromiseStopped(t) ==
  /\ thr[t] = "asks"
  /\ IF ~sw.stopped THEN thr' = [thr EXCEPT ![t] = "made"] /\ promise' = [promise EXCEPT ![t] = "pending"]
     ELSE thr' = [thr EXCEPT ![t] = "refused"] /\ Refused(t)
  /\ UNCHANGED <<sw, wg, launchedLate, stopper>>

\* LaunchThreadSafe: GetContextSafe, which fails before the start ...
LaunchContext(t) ==
  /\ thr[t] = IF SwKind[t] = "promise" THEN "made" ELSE "idle"
  /\ thr' = [thr EXCEPT ![t] = IF sw.started THEN "context" ELSE "refused"]
  /\ UNCHANGED <<sw, wg, launchedLate, promise, stopper>>

\* ... then Stopped, after which nothing is launched and nobody told ...
LaunchStopped(t) ==
  /\ thr[t] = "context"
  /\ thr' = [thr EXCEPT ![t] = IF sw.stopped THEN "dropped" ELSE "checked"]
  /\ UNCHANGED <<sw, wg, launchedLate, promise, stopper>>

\* wg.Add.
Joined(n) == n + 1

\* ... then the thread.
LaunchThread(t) ==
  /\ thr[t] = "checked"
  /\ thr' = [thr EXCEPT ![t] = "runs"] /\ wg' = Joined(wg)
  /\ launchedLate' = IF sw.stopped THEN launchedLate \cup {t} ELSE launchedLate
  /\ UNCHANGED <<sw, promise, stopper>>

\* wg.Done.
Left(n) == n - 1

\* The function returns, on its own or because of its context.
ThreadEnds(t) ==
  /\ thr[t] = "runs"
  /\ thr' = [thr EXCEPT ![t] = "ended"] /\ wg' = Left(wg)
  /\ promise' = [promise EXCEPT ![t] = IF SwKind[t] = "promise" THEN "ready" ELSE @]
  /\ UNCHANGED <<sw, launchedLate, stopper>>

\* ChanRateLimiter hands data on to a reader that has gone, not looking at its context.
LimiterBlocks(t) ==
  /\ thr[t] = "runs" /\ SwKind[t] = "limiter" /\ thr' = [thr EXCEPT ![t] = "blocked"]
  /\ UNCHANGED <<sw, wg, launchedLate, promise, stopper>>
-----------------------------------------------------------------------------
(* Stopping.                                                               *)

\* stopAndWaitImpl: only the call that stops the component waits.
StopAndWait(s) ==
  /\ stopper[s] = "idle"
  /\ sw' = [sw EXCEPT !.stopped = TRUE, !.cancelled = @ \/ sw.started]
  /\ stopper' = [stopper EXCEPT ![s] = IF sw.started /\ ~sw.stopped THEN "waits" ELSE "returned"]
  /\ UNCHANGED <<wg, thr, launchedLate, promise>>

\* The wait channel is closed.
Waited(s) ==
  /\ stopper[s] = "waits" /\ sw.cancelled /\ wg = 0
  /\ stopper' = [stopper EXCEPT ![s] = "waited"]
  /\ UNCHANGED <<sw, wg, thr, launchedLate, promise>>

SwLaunch(t) ==
  PromiseStopped(t) \/ LaunchContext(t) \/ LaunchStopped(t) \/ LaunchThread(t) \/ ThreadEnds(t)
SwSteps == (\E t \in SwThreads : SwLaunch(t)) \/ \E s \in SwStoppers : Waited(s)
SwNext ==
  \/ SwSteps \/ StartWaiter \/ ParentCancelled
  \/ \E t \in SwThreads : PromiseContext(t) \/ LimiterBlocks(t)
  \/ \E s \in SwStoppers : StopAndWait(s)

SwSpec == SwInit /\ [][SwNext]_swvars
-----------------------------------------------------------------------------
\* Once the call that stopped the component has waited, the only threads that run are those
\* whose launch had passed its look at stopped before the stop (LaunchThreadSafe).
WaitedMeansEnded ==
  (\E s \in SwStoppers : stopper[s] = "waited")
    => \A t \in SwThreads : thr[t] \in {"runs", "blocked"} => t \in launchedLate

\* A promise that was asked for is made, or the stop fell between the two looks at stopped:
\* then nobody ever makes it (LaunchPromiseThread).
PromisesKept ==
  \A t \in {u \in SwThreads : SwKind[u] = "promise"} : thr[t] # "idle" ~> promise[t] = "ready" \/ thr[t] = "dropped"

\* A call that waits returns, unless a rate limiter is blocked on its output (StopAndWait).
WaitsEnd ==
  (\E s \in SwStoppers : stopper[s] = "waits")
    ~> (\A s \in SwStoppers : stopper[s] # "waits") \/ \E t \in SwThreads : thr[t] = "blocked"

-----------------------------------------------------------------------------
(***************************************************************************)
(* Starting and stopping a node: Node.Start and Node.StopAndWait (arbnode) *)
(* with the execution node's, and the main program around them.  Start     *)
(* ends at the first step that fails, which may leave a part half started; *)
(* StopAndWait stops what says that it was started.                        *)
(* Feed clients are started by a thread that waits until the inbox is      *)
(* caught up.                                                              *)
(***************************************************************************)

CONSTANT LcConfigs         \* the optional parts of a node: sets of parts

VARIABLES lcParts,         \* the parts of this node
          lc,              \* "start", "run", "stop" or "stopped", the step, what the main program
                           \* has deferred: closing the chain, or stopping the node; the step that
                           \* failed, and whether the validators were dropped
          up,              \* parts that run and were not told to stop
          gone,            \* parts that were stopped
          ready,           \* steps of Start that were completed
          lateFeeds        \* the thread for the feed clients: "none", "waits" or "ended"

lcvars == <<lcParts, lc, up, gone, ready, lateFeeds>>

LcOptional == {"valNode", "das", "parentReader", "inboxReader", "broadcastServer", "coordinator", "maintenance",
               "delayedSequencer", "batchPoster", "pruner", "staker", "stateless", "blockValidator", "l1Reader",
               "feedClients", "reexecutor"}

\* The databases and the chain were opened before Start, and the data availability services
\* run since the node was created.
LcInit ==
  /\ lcParts \in LcConfigs
  /\ lc = [pc |-> "start", at |-> 1, defers |-> "chain", failed |-> "none", dropped |-> FALSE]
  /\ up = {"databases", "blockchain", "recorder"} \cup (lcParts \cap {"das"})
  /\ gone = {} /\ ready = {} /\ lateFeeds = "none"

\* The main program starts the validation node, then the node: Node.Start, with the Initialize
\* and the Start of the execution node; and last its re-executor.
StartOrder ==
  <<"valNode", "backend", "stack", "engine", "publisher", "parentReader", "initialize", "backlog", "streamer",
    "inboxReader", "broadcastServer", "coordinator", "sequencing", "maintenance", "delayedSequencer", "batchPoster",
    "pruner", "stakerInit", "stateless", "blockValidator", "staker", "l1Reader", "feedThread", "config",
    "syncMonitor", "reexecutor">>

\* The steps that may return an error.
MayFail == {"valNode", "backend", "stack", "publisher", "initialize", "backlog", "streamer", "inboxReader",
            "broadcastServer", "stakerInit", "stateless", "blockValidator"}

\* A variant that stops the streamer before the inbox reader.
StopOrderEarly ==
  <<"maintenance", "config", "handoff", "rpc", "delayedSequencer", "batchPoster", "pruner", "broadcastServer",
    "feedClients", "blockValidator", "staker", "stateless", "streamer", "inboxReader", "l1Reader", "coordinator",
    "syncMonitor", "das", "publisher", "recorder", "parentReader", "engine", "blockchain", "backend", "stack",
    "databases", "reexecutor">>
\* Node.StopAndWait, with the execution node's, then what the main program stops.  The
\* early PrepareForShutdown hands the chosen lock off; the coordinator's thread goes on.
\* The validators' spawners are told to stop and not waited for, the data availability
\* services for 2 seconds at most.  Closing the stack closes the databases.
StopOrder ==
  <<"maintenance", "config", "handoff", "rpc", "delayedSequencer", "batchPoster", "pruner", "broadcastServer",
    "feedClients", "blockValidator", "staker", "stateless", "inboxReader", "l1Reader", "streamer", "coordinator",
    "syncMonitor", "das", "publisher", "recorder", "parentReader", "engine", "blockchain", "backend", "stack",
    "databases", "reexecutor">>

ExecutionParts == {"publisher", "recorder", "parentReader", "engine", "blockchain", "backend"}

\* Whether Start takes the step; a node without a coordinator is activated at once.
Has(step) ==
  CASE step \in LcOptional -> step \in lcParts
    [] step = "sequencing" -> "coordinator" \notin lcParts
    [] step = "initialize" -> lcParts \cap {"broadcastServer", "inboxReader"} # {}
    [] step = "backlog" -> {"broadcastServer", "inboxReader"} \subseteq lcParts
    [] step = "stakerInit" -> "staker" \in lcParts
    [] step = "feedThread" -> "feedClients" \in lcParts
    [] OTHER -> TRUE

\* What runs once the step is taken.
Begins(step) ==
  IF step \in {"initialize", "backlog", "stakerInit", "feedThread"} THEN {}
  ELSE IF step = "stack" THEN {"stack", "rpc"} ELSE {step}

\* Once the node is started, stopping it is all that the main program defers.
AfterStart(at) ==
  IF at = Len(StartOrder) THEN [lc EXCEPT !.pc = "run", !.at = 1] ELSE [lc EXCEPT !.at = at + 1, !.defers = "node"]

\* The next step of Start succeeds, or the node does not have it.
StartStep ==
  LET step == StartOrder[lc.at]
  IN  /\ lc.pc = "start" /\ lc' = AfterStart(lc.at)
      /\ IF Has(step) THEN up' = up \cup Begins(step) /\ ready' = ready \cup {step} ELSE UNCHANGED <<up, ready>>
      /\ lateFeeds' = IF Has(step) /\ step = "feedThread" THEN "waits" ELSE lateFeeds
      /\ UNCHANGED <<lcParts, gone>>

\* What may run when the step has failed.  The publisher, the streamer and the inbox reader
\* start their threads before they check anything, the feed server its client manager before it
\* listens, the validators their spawners one after the other; of the validation node the second
\* spawner may fail, and the transaction publisher once the backend has started.
HalfStarted(step) ==
  CASE step \in {"publisher", "streamer", "inboxReader", "stateless"} -> {{step}}
    [] step = "broadcastServer" -> {{"clientManager"}}
    [] step \in {"valNode", "backend"} -> {{}, {step}}
    [] OTHER -> {{}}

\* A step fails and Start returns, or the validation node fails and the node is not started;
\* the main program still starts its re-executor.
StartFails ==
  LET step == StartOrder[lc.at]
  IN  /\ lc.pc = "start" /\ step \in MayFail /\ Has(step)
      /\ \E half \in HalfStarted(step) : up' = up \cup half
      /\ lc' = [lc EXCEPT !.at = Len(StartOrder), !.failed = step]
      /\ UNCHANGED <<lcParts, gone, ready, lateFeeds>>

\* The stateless validator fails on a node that does not need it: it and the block
\* validator are dropped, and with them the way to the spawners that were started.
ValidatorDropped ==
  /\ lc.pc = "start" /\ StartOrder[lc.at] = "stateless" /\ Has("stateless")
  /\ lcParts' = lcParts \ {"stateless", "blockValidator"}
  /\ lc' = [AfterStart(lc.at) EXCEPT !.dropped = TRUE]
  /\ up' = up \cup {"stateless"}
  /\ UNCHANGED <<gone, ready, lateFeeds>>

\* The inbox is caught up, perhaps only seen after the node was stopped: clients started
\* after their StopAndWait are cancelled at once, but the router's thread then runs.
FeedClientsStart ==
  /\ lateFeeds = "waits" /\ lateFeeds' = "ended"
  /\ up' = up \cup (IF "feedClients" \in gone THEN {"router"} ELSE {"router", "feedClients"})
  /\ UNCHANGED <<lcParts, lc, gone, ready>>

\* The router's thread starts a secondary client when the feeds are silent, and stops it when
\* they have been up for long.
SecondaryStarts ==
  /\ "router" \in up /\ "secondary" \notin up /\ up' = up \cup {"secondary"}
  /\ UNCHANGED <<lcParts, lc, gone, ready, lateFeeds>>

SecondaryStops ==
  /\ {"router", "secondary"} \subseteq up /\ up' = up \ {"secondary"}
  /\ UNCHANGED <<lcParts, lc, gone, ready, lateFeeds>>

\* A signal, a fatal error (a failed start among them), or the end of a reset that then quits.
StopNode ==
  /\ lc.pc = "run" /\ lc' = [lc EXCEPT !.pc = "stop"]
  /\ UNCHANGED <<lcParts, up, gone, ready, lateFeeds>>

\* Parts are stopped if they run.  The execution node's StopAndWait returns at once unless
\* its Start was called; validators that were dropped are not stopped; without the node only
\* the chain and the databases are closed.
Stops(step) ==
  IF lc.defers = "node" THEN (step \in ExecutionParts => "engine" \in ready) /\ (step = "stateless" => ~lc.dropped)
  ELSE step \in {"blockchain", "databases", "reexecutor"}

\* What the step stops: with the publisher also sequencing, with the feed clients the secondary
\* ones there are.
Ends(step) ==
  {step} \cup (IF step = "publisher" THEN {"sequencing"} ELSE IF step = "feedClients" THEN {"secondary"} ELSE {})

\* The next step of stopping.
StopStep ==
  LET step == StopOrder[lc.at]
  IN  /\ lc.pc = "stop"
      /\ IF Stops(step)
           THEN up' = up \ Ends(step) /\ gone' = gone \cup {step}
           ELSE UNCHANGED <<up, gone>>
      /\ lc' = IF lc.at = Len(StopOrder) THEN [lc EXCEPT !.pc = "stopped", !.at = 1] ELSE [lc EXCEPT !.at = @ + 1]
      /\ UNCHANGED <<lcParts, ready, lateFeeds>>

LcNext == StartStep \/ StartFails \/ ValidatorDropped \/ FeedClientsStart \/ SecondaryStarts \/ SecondaryStops \/ StopNode \/ StopStep

LcSpec == LcInit /\ [][LcNext]_lcvars
-----------------------------------------------------------------------------
\* Nothing is sequenced, by the coordinator or after being activated, before the feed
\* server runs ("must init broadcast server before trying to sequence anything", Start),
\* and the feed server takes clients only with the backlog populated.
SequencesAfterFeed ==
  "broadcastServer" \in lcParts
    => /\ up \cap {"coordinator", "sequencing"} # {} => "broadcastServer" \in up \cup gone
       /\ "broadcastServer" \in up /\ "inboxReader" \in lcParts => "backlog" \in ready

\* What nothing in the code stops: the validation node; the router of the feeds, once it was
\* started, with a secondary client that it starts later; the client manager of a feed server
\* that failed to start; the spawners of validators that were dropped; the chain, if Start failed
\* before it reached the execution node; and the data availability services, if the node was
\* never started.  Their threads end with the program's context.
Leftover ==
  {"valNode"}
  \cup (IF lateFeeds = "ended" THEN {"router", "secondary"} ELSE {})
  \cup (IF lc.failed = "broadcastServer" THEN {"clientManager"} ELSE {})
  \cup (IF lc.dropped THEN {"stateless"} ELSE {})
  \cup (IF "engine" \in ready THEN {}
        ELSE {"recorder"} \cup IF lc.defers = "node" THEN {"blockchain", "backend"} ELSE {"das"})

\* What adds messages to the streamer or posts them is stopped before it, calls that send
\* transactions end before the publisher, what uses the engine's blocks ends before the engine,
\* the states recorded are released before the chain stops, and all that uses the databases ends
\* before they are closed.  Three exceptions are in the code: the coordinator's thread, which also
\* adds messages, ends after the streamer; the main program's re-executor is stopped after the
\* node; and the router of the feeds goes on adding messages, also those of a secondary client
\* started since, to a streamer that is stopped and a database that is closed.
UsersStopFirst ==
  /\ "streamer" \in gone
       => up \cap {"inboxReader", "delayedSequencer", "feedClients", "batchPoster"} = {}
  /\ "publisher" \in gone => "rpc" \notin up
  /\ "engine" \in gone
       => up \cap {"streamer", "publisher", "sequencing", "coordinator", "blockValidator", "staker", "recorder"} = {}
  /\ "databases" \in gone => up \subseteq Leftover \cup {"reexecutor"}

\* However far Start came and whatever the step that failed had begun, nothing runs once the
\* node is stopped but what nothing stops (StopAndWait).
AllStopped == lc.pc = "stopped" => up \subseteq Leftover

\* Components start and stop in an order in which none uses one that is gone, and stopping leaves
\* none of their threads behind (Start, StopAndWait of Node and of StopWaiterSafe).
StopsInOrder == WaitedMeansEnded /\ SequencesAfterFeed /\ UsersStopFirst /\ AllStopped
=============================================================================
