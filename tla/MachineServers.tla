--------------------------- MODULE MachineServers ---------------------------
(***************************************************************************)
(* The validation servers: machines are created once per module root and   *)
(* shared (server_common.MachineLoader); a validation runs on a clone of   *)
(* the arbitrator machine (ArbitratorSpawner) or talks to a fork of the    *)
(* jit process over a connection of its own (JitMachine.prove).            *)
(***************************************************************************)
EXTENDS Integers, FiniteSets

CONSTANTS MsCalls,         \* calls of Launch
          MsRootOf,        \* of a call: the module root it asks for
          MsJit            \* roots that are served by a jit process

VARIABLES machine,         \* of a root: "none", "creating", "ready" or "failed"
          creations,       \* of a root: machines created
          call,            \* of a call: where it is
          clones,          \* clones of machines that are not destroyed
          msCount,         \* the spawner's count of running validations
          process,         \* of a jit root: "none", "runs" or "lost"
          msStopped, msFatal

msvars == <<machine, creations, call, clones, msCount, process, msStopped, msFatal>>

MsRoots == {MsRootOf[c] : c \in MsCalls}

MsInit ==
  /\ machine = [r \in MsRoots |-> "none"] /\ creations = [r \in MsRoots |-> 0]
  /\ call = [c \in MsCalls |-> "idle"] /\ clones = {} /\ msCount = 0
  /\ process = [r \in MsRoots |-> "none"] /\ msStopped = FALSE /\ msFatal = FALSE

\* Launch: the validation is counted before it is launched; a stopped spawner makes the
\* promise with an error and leaves the count (LaunchPromiseThread).
Launch(c) ==
  /\ call[c] = "idle" /\ msCount' = msCount + 1
  /\ call' = [call EXCEPT ![c] = IF msStopped THEN "refused" ELSE "promised"]
  /\ UNCHANGED <<machine, creations, clones, process, msStopped, msFatal>>

\* The second look at stopped, after which no thread is launched for the promise and nobody
\* is told (LaunchThreadSafe).
LaunchValidation(c) ==
  /\ call[c] = "promised"
  /\ call' = [call EXCEPT ![c] = IF msStopped THEN "dropped" ELSE "looks"]
  /\ UNCHANGED <<machine, creations, clones, msCount, process, msStopped, msFatal>>

\* A variant that creates a machine whenever none is ready.
NeedsCreationAlways(r) == machine[r] # "ready"
\* GetMachine: only the first to ask for the root creates it, under the lock of the map.
NeedsCreation(r) == machine[r] = "none"

GetMachine(c) ==
  LET r == MsRootOf[c]
  IN  /\ call[c] = "looks" /\ call' = [call EXCEPT ![c] = "awaits"]
      /\ IF NeedsCreation(r)
           THEN machine' = [machine EXCEPT ![r] = "creating"] /\ creations' = [creations EXCEPT ![r] = @ + 1]
           ELSE UNCHANGED <<machine, creations>>
      /\ UNCHANGED <<clones, msCount, process, msStopped, msFatal>>

\* createArbMachine or createJitMachine: no caller's context stops it, and a failure stays.
MachineCreated(r) ==
  /\ machine[r] = "creating"
  /\ \E outcome \in {"ready", "failed"} :
       /\ machine' = [machine EXCEPT ![r] = outcome]
       /\ process' = IF outcome = "ready" /\ r \in MsJit THEN [process EXCEPT ![r] = "runs"] ELSE process
  /\ UNCHANGED <<creations, call, clones, msCount, msStopped, msFatal>>

\* The clone is destroyed whatever happens.
ClonesAfter(c, good) == clones \ {c}

MsEnds(c, verdict) ==
  /\ call' = [call EXCEPT ![c] = verdict] /\ msCount' = msCount - 1
  /\ clones' = ClonesAfter(c, verdict = "valid")

\* Await: the machine, its error, or the context.
MachineAwaited(c) ==
  LET r == MsRootOf[c]
  IN  /\ call[c] = "awaits"
      /\ \/ machine[r] = "failed" /\ MsEnds(c, "error")
         \/ msStopped /\ MsEnds(c, "error")
         \/ /\ machine[r] = "ready" /\ UNCHANGED msCount
            /\ call' = [call EXCEPT ![c] = IF r \in MsJit THEN "listens" ELSE "runs"]
            /\ clones' = IF r \in MsJit THEN clones ELSE clones \cup {c}
      /\ UNCHANGED <<machine, creations, process, msStopped, msFatal>>

\* execute: the entry is loaded and the machine steps until it ends; it may fail to load,
\* be stopped or enter its error state.
ExecuteEnds(c) ==
  /\ call[c] = "runs"
  /\ \E verdict \in {"valid", "error"} : MsEnds(c, verdict)
  /\ UNCHANGED <<machine, creations, process, msStopped, msFatal>>

\* The listener's deadline, with which everything else of prove ends too.
DeadlinePasses(c) == TRUE

\* prove: the address of a new listener is written to the process, which forks and
\* connects; if it does not, the listener's deadline ends the wait.
ProveAccepts(c) ==
  /\ call[c] = "listens"
  /\ \/ process[MsRootOf[c]] = "runs" /\ call' = [call EXCEPT ![c] = "sends"] /\ UNCHANGED <<clones, msCount>>
     \/ DeadlinePasses(c) /\ MsEnds(c, "error")
  /\ UNCHANGED <<machine, creations, process, msStopped, msFatal>>

\* The inputs are sent, then the verdict is read, all before the deadline.
ProveEnds(c) ==
  /\ call[c] = "sends"
  /\ \E verdict \in {"valid", "error"} : MsEnds(c, verdict)
  /\ UNCHANGED <<machine, creations, process, msStopped, msFatal>>

\* The jit process is lost: fatal for the node, and each later validation times out.
ProcessLost(r) ==
  /\ process[r] = "runs" /\ process' = [process EXCEPT ![r] = "lost"] /\ msFatal' = TRUE
  /\ UNCHANGED <<machine, creations, call, clones, msCount, msStopped>>

\* Stop.  ForEachReadyMachine hands the machines that failed, not those that are ready, to
\* close, so that the processes run on.
StopServers ==
  /\ ~msStopped /\ msStopped' = TRUE
  /\ UNCHANGED <<machine, creations, call, clones, msCount, process, msFatal>>

MsSteps ==
  \/ \E c \in MsCalls : LaunchValidation(c) \/ GetMachine(c) \/ MachineAwaited(c) \/ ExecuteEnds(c) \/ ProveAccepts(c) \/ ProveEnds(c)
  \/ \E r \in MsRoots : MachineCreated(r)
MsNext == MsSteps \/ StopServers \/ (\E c \in MsCalls : Launch(c)) \/ \E r \in MsRoots : ProcessLost(r)

MsSpec == MsInit /\ [][MsNext]_msvars
-----------------------------------------------------------------------------
\* However many validations ask for a root at once, its machine is created once (GetMachine).
CreatedOnce == \A r \in MsRoots : creations[r] <= 1

\* A clone belongs to a validation that runs: none is left after an error or a stop.
ClonesInUse == clones = {c \in MsCalls : call[c] = "runs"}

\* Machines are created once and cloned for the validations that run (GetMachine, Launch).
MachinesSound == CreatedOnce /\ ClonesInUse

\* Every validation that was asked for comes to an end, although machines fail, processes are
\* lost and the spawner stops; unless the spawner stopped between the two looks of its launch,
\* when nobody ever answers (Launch, LaunchPromiseThread).
ValidationsEnd == []<>(\A c \in MsCalls : call[c] \in {"idle", "valid", "error", "refused", "dropped"})
=============================================================================
