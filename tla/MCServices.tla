----------------------------- MODULE MCServices -----------------------------
(***************************************************************************)
(* The services around the chain: the clients of a feed with their router  *)
(* and relay, the accepting and limiting of a feed's clients, the threads  *)
(* that every component stops and waits for, the reader of parent chain    *)
(* headers, the machines of validations, and the start and stop of the     *)
(* node.  The parts are checked side by side: a behaviour is one of the    *)
(* part it starts in.                                                      *)
(***************************************************************************)
EXTENDS FeedConnections, HeaderReader, MachineServers, Lifecycle

VARIABLE part

RtCalm == [relay |-> 0, messages |-> 2, breaks |-> 0, wrong |-> 0, bad |-> 0, garbled |-> 0, cleanups |-> 0,
           starts |-> 0, stops |-> 0, failures |-> 0]
MCRtScenarios ==
  {[RtCalm EXCEPT !.breaks = 1, !.wrong = 1, !.starts = 1],
   [RtCalm EXCEPT !.relay = 1, !.starts = 1, !.stops = 1],
   [RtCalm EXCEPT !.starts = 2, !.stops = 1], [RtCalm EXCEPT !.starts = 1, !.stops = 1, !.cleanups = 2],
   [RtCalm EXCEPT !.failures = 1, !.starts = 1], [RtCalm EXCEPT !.bad = 1, !.starts = 1],
   [RtCalm EXCEPT !.garbled = 1, !.breaks = 1, !.starts = 1]}

\* Two clients of one address and one of another address of its network.
MCFsKeysOf == [a |-> {"1", "1/48"}, b |-> {"1", "1/48"}, c |-> {"2", "1/48"}]
MCFsLimit == [k \in {"1", "2", "1/48"} |-> IF k = "1/48" THEN 2 ELSE 1]

MCSwKind == [t |-> "thread", p |-> "promise", l |-> "limiter"]

MCMsRootOf == [x |-> "a", y |-> "a", z |-> "j"]

MCLcConfigs ==
  {LcOptional, LcOptional \ {"coordinator", "maintenance", "valNode"},
   {"valNode", "inboxReader", "l1Reader", "feedClients", "reexecutor", "stateless", "blockValidator"}}
-----------------------------------------------------------------------------
svars == <<rtvars, fsvars, swvars, hrvars, msvars, lcvars, part>>

ServicesInit ==
  /\ part \in {"router", "server", "threads", "headers", "machines", "node"}
  /\ RtInit /\ (part # "router" => rtq.failures = 1)
  /\ FsInit /\ SwInit
  /\ HrInit /\ (part # "headers" => hrUse = {"cache"})
  /\ MsInit
  /\ LcInit /\ (part # "node" => lcParts = LcOptional)

ServicesNext ==
  /\ UNCHANGED part
  /\ \/ part = "router" /\ RtNext /\ UNCHANGED <<fsvars, swvars, hrvars, msvars, lcvars>>
     \/ part = "server" /\ FsNext /\ UNCHANGED <<rtvars, swvars, hrvars, msvars, lcvars>>
     \/ part = "threads" /\ SwNext /\ UNCHANGED <<rtvars, fsvars, hrvars, msvars, lcvars>>
     \/ part = "headers" /\ HrNext /\ UNCHANGED <<rtvars, fsvars, swvars, msvars, lcvars>>
     \/ part = "machines" /\ MsNext /\ UNCHANGED <<rtvars, fsvars, swvars, hrvars, lcvars>>
     \/ part = "node" /\ LcNext /\ UNCHANGED <<rtvars, fsvars, swvars, hrvars, msvars>>

\* The threads of each part run on; what others send, break or stop is up to them.
ServicesFairness ==
  /\ \A c \in Feeds : WF_rtvars(part = "router" /\ ClientSteps(c))
  /\ WF_rtvars(part = "router" /\ RouterSteps) /\ WF_rtvars(part = "router" /\ RelayMessage)
  /\ WF_fsvars(part = "server" /\ FsSteps)
  /\ WF_swvars(part = "threads" /\ SwSteps)
  /\ WF_hrvars(part = "headers" /\ HrLoop) /\ WF_hrvars(part = "headers" /\ HrApproval)
  /\ \A e \in Ears : WF_hrvars(part = "headers" /\ Listen(e))
  /\ WF_msvars(part = "machines" /\ MsSteps)

ServicesSpec == ServicesInit /\ [][ServicesNext]_svars /\ ServicesFairness
-----------------------------------------------------------------------------
\* Whoever waits for a service is served: messages of the feed arrive, connections are accepted
\* again, promises and waits for threads end, listeners get the latest header, transactions
\* their approval, and validations their result.
WaitersServed ==
  /\ MessagesArrive /\ AcceptsAgain /\ PromisesKept /\ WaitsEnd
  /\ ListenersNotified /\ ApprovalEnds /\ ValidationsEnd
=============================================================================
