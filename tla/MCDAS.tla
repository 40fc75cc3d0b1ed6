------------------------------- MODULE MCDAS -------------------------------
(***************************************************************************)
(* Data availability: the aggregator that stores with a committee, a       *)
(* member of the committee, the names and certificates of batches, the     *)
(* reading from other servers and the synchronisation from the parent      *)
(* chain.  The parts are checked side by side: a behaviour is one of the   *)
(* part it starts in.                                                      *)
(***************************************************************************)
EXTENDS DASAggregator, DASRetrieval, DASL1Sync, DASMember

VARIABLE part

MCTreeInputs == {[n \in 1 .. m |-> n] : m \in {0, 1, 3, 4, 5, 8, 9, 13, 16, 17}} \cup {[n \in 1 .. m |-> 254] : m \in {1, 8}}

MCSyKinds == <<{"none"}, {"das", "none"}, {"das"}, {"das", "old"}, {"das", "none"}, {"other"}, {"das"}>>

MbQuiet == [policies |-> [s |-> "forever", t |-> "forever"], extra |-> FALSE, inbox |-> TRUE, signer |-> <<"poster", "poster">>,
            time |-> 3, faults |-> 0, reads |-> FALSE]
MCMbScenarios ==
  {[MbQuiet EXCEPT !.policies = [s |-> p, t |-> "data"], !.time = IF p = "data" THEN 2 ELSE 3, !.signer = <<"poster">>, !.faults = 1, !.reads = TRUE] : p \in {"data", "archive"}}
  \cup {[MbQuiet EXCEPT !.policies.t = "archive", !.extra = TRUE, !.inbox = x, !.signer = <<"extra", "other">>, !.time = 0, !.faults = 1] : x \in BOOLEAN}
  \cup {MbQuiet}

MCRdWebs ==
  <<[top |-> <<"a", "LIST", "sub", "b">>, sub |-> <<"LIST", "top", "c">>],
    [top |-> <<"LIST", "sub", "LIST", "low">>, sub |-> <<"b", "LIST", "low">>, low |-> <<"c", "LIST", "sub", "d">>],
    [top |-> <<"a">>]>>
-----------------------------------------------------------------------------
dasVars == <<vars, tvars, syvars, mbvars, rdvars, part>>

DasInit ==
  /\ part \in {"store", "tree", "sync", "member", "readers"}
  /\ IF part = "store" THEN Init
     ELSE /\ stored = {} /\ backend = [s \in Services |-> "idle"] /\ responses = {} /\ i = 0 /\ signers = {}
          /\ successes = 0 /\ failures = 0 /\ ctxDone = FALSE /\ result = "refused"
  /\ IF part = "tree" THEN TreeInit ELSE batch = "none" /\ recovered = [result |-> "idle"] /\ replayed = Waiting
  /\ IF part = "sync" THEN SyInit ELSE l1 = <<>> /\ sy = Fresh(0) /\ file = -1 /\ kept = {} /\ sybudget = "none"
  /\ MbInit /\ (part # "member" => scenario = MbQuiet)
  /\ RdInit

DasNext ==
  /\ UNCHANGED part
  /\ \/ part = "store" /\ Next /\ UNCHANGED <<tvars, syvars, mbvars, rdvars>>
     \/ part = "tree" /\ TreeNext /\ UNCHANGED <<vars, syvars, mbvars, rdvars>>
     \/ part = "sync" /\ SyNext /\ UNCHANGED <<vars, tvars, mbvars, rdvars>>
     \/ part = "member" /\ MbNext /\ UNCHANGED <<vars, tvars, syvars, rdvars>>
     \/ part = "readers" /\ RdNext /\ UNCHANGED <<vars, tvars, syvars, mbvars>>

\* The threads of each part run on, and the calls they wait for end.
DasFairness ==
  /\ WF_vars(part = "store" /\ Start) /\ WF_vars(part = "store" /\ CollectDone)
  /\ \A s \in Services : WF_vars(part = "store" /\ Member(s)) /\ WF_vars(part = "store" /\ Collect(s))
  /\ WF_syvars(part = "sync" /\ SyncSteps)
  /\ WF_rdvars(part = "readers" /\ RdSteps)

DasSpec == DasInit /\ [][DasNext]_dasVars /\ DasFairness
-----------------------------------------------------------------------------
\* Calls come to an end and data arrives: Store returns, every batch of the parent chain gets
\* into the storage, and a read is answered (Store, mainThread, GetByHash).
DasProgress == StoreReturns /\ BatchesArrive /\ GetsEnd
=============================================================================
