-------------------------- MODULE FeedConnections ---------------------------
(***************************************************************************)
(* The two ends of a feed: the server that accepts and limits connections, *)
(* and the clients, router and relay that receive the messages.            *)
(***************************************************************************)
EXTENDS Integers, FiniteSets, Sequences, Functions

(***************************************************************************)
(* Accepting feed connections: the one-shot accept event and the worker    *)
(* pool (WSBroadcastServer.StartWithHeader), the checks while a connection *)
(* is upgraded, registration and removal in the client manager's thread    *)
(* (registerClient, removeClient) and the connection limiter, which counts *)
(* connections per address, per /48 and per /64 network.                   *)
(***************************************************************************)

CONSTANTS FsConns,         \* connections
          FsKeysOf,        \* of a connection: the keys under which it is counted
          FsLimit,         \* of a key: the configured limit
          FsWorkers,       \* size of the worker pool
          FsFaults         \* bound on failing accepts and on late removals

VARIABLES conn,            \* of a connection: where it is
          ipConnectionCounts,
          acceptor,        \* the accept event: "armed", "fired", "accepted", "cooldown", "stopped"
          removals,        \* of a connection: queued calls of removeClient
          fsFaults

fsvars == <<conn, ipConnectionCounts, acceptor, removals, fsFaults>>

FsKeys == UNION {FsKeysOf[c] : c \in FsConns}

ASSUME FsAssumption == IsFiniteSet(FsConns) /\ \A k \in FsKeys : FsLimit[k] \in Nat

FsInit ==
  /\ conn = [c \in FsConns |-> "none"]
  /\ ipConnectionCounts = [k \in FsKeys |-> 0]
  /\ acceptor = "armed" /\ removals = [c \in FsConns |-> 0] /\ fsFaults = 0

\* The workers in use: those that upgrade a connection.
Busy == Cardinality({c \in FsConns : conn[c] \in {"upgrading", "allowed"}})
-----------------------------------------------------------------------------
(* ConnectionLimiter.                                                      *)

\* isAllowedImpl.  Private and unknown addresses have no keys.
IsAllowed(counts, c) == \A k \in FsKeysOf[c] : counts[k] < FsLimit[k]

\* updateUsage: the count is kept between 0 and the limit.
UpdateUsage(counts, c, amount) ==
  [k \in FsKeys |->
     IF k \notin FsKeysOf[c] THEN counts[k]
     ELSE LET n == counts[k] + amount IN IF n < 0 THEN 0 ELSE IF n > FsLimit[k] THEN FsLimit[k] ELSE n]

\* A variant that trusts the check made during the upgrade.
RegisterUnchecked(c) == [ok |-> TRUE, counts |-> UpdateUsage(ipConnectionCounts, c, 1)]
\* Register: checked again, under the lock, before anything is counted.
Register(c) ==
  IF IsAllowed(ipConnectionCounts, c) THEN [ok |-> TRUE, counts |-> UpdateUsage(ipConnectionCounts, c, 1)]
  ELSE [ok |-> FALSE, counts |-> ipConnectionCounts]
-----------------------------------------------------------------------------
(* The listener.                                                           *)

\* A connection waits: the event fires once and has to be resumed.
AcceptFires ==
  /\ acceptor = "armed" /\ \E c \in FsConns : conn[c] = "none"
  /\ acceptor' = "fired"
  /\ UNCHANGED <<conn, ipConnectionCounts, removals, fsFaults>>

\* ScheduleTimeout finds a worker, which accepts the connection; or the pool is busy, or
\* Accept fails, and the server cools down.
AcceptConnection ==
  /\ acceptor = "fired"
  /\ \/ /\ Busy < FsWorkers /\ acceptor' = "accepted"
        /\ \E c \in FsConns : conn[c] = "none" /\ conn' = [conn EXCEPT ![c] = "upgrading"]
        /\ UNCHANGED fsFaults
     \/ Busy = FsWorkers /\ acceptor' = "cooldown" /\ UNCHANGED <<conn, fsFaults>>
     \/ fsFaults < FsFaults /\ fsFaults' = fsFaults + 1 /\ acceptor' = "cooldown" /\ UNCHANGED conn
  /\ UNCHANGED <<ipConnectionCounts, removals>>

\* poller.Resume.
Resumed == "armed"

\* Neither when the server shuts down, nor left out after a failure.
ResumeAccept ==
  /\ acceptor \in {"accepted", "cooldown"} /\ acceptor' = Resumed
  /\ UNCHANGED <<conn, ipConnectionCounts, removals, fsFaults>>

\* StopAndWait: the listener is closed and the event given up.
StopListener ==
  /\ acceptor # "stopped" /\ acceptor' = "stopped"
  /\ UNCHANGED <<conn, ipConnectionCounts, removals, fsFaults>>
-----------------------------------------------------------------------------
(* A connection.                                                           *)

\* OnBeforeUpgrade: the limit is looked at, so that the client gets an answer.
CheckUpgrade(c) ==
  /\ conn[c] = "upgrading"
  /\ conn' = [conn EXCEPT ![c] = IF IsAllowed(ipConnectionCounts, c) THEN "allowed" ELSE "closed"]
  /\ UNCHANGED <<ipConnectionCounts, acceptor, removals, fsFaults>>

\* The upgrade fails (version, compression, deadlines), or the client is started and asks
\* to be registered.
FinishUpgrade(c) ==
  /\ conn[c] = "allowed"
  /\ \E to \in {"closed", "starting"} : conn' = [conn EXCEPT ![c] = to]
  /\ UNCHANGED <<ipConnectionCounts, acceptor, removals, fsFaults>>

\* registerClient in the manager's thread; a client over the limit is closed.
RegisterClient(c) ==
  /\ conn[c] = "starting"
  /\ LET r == Register(c)
     IN  /\ conn' = [conn EXCEPT ![c] = IF r.ok THEN "in" ELSE "closed"]
         /\ ipConnectionCounts' = r.counts
  /\ UNCHANGED <<acceptor, removals, fsFaults>>

\* Client.Remove, from the poller, a reader or a writer, more than once for a client, and
\* also for one that was not registered.
AskRemove(c) ==
  /\ conn[c] \in {"starting", "in", "cooling", "closed"} /\ fsFaults < FsFaults
  /\ removals' = [removals EXCEPT ![c] = @ + 1] /\ fsFaults' = fsFaults + 1
  /\ UNCHANGED <<conn, ipConnectionCounts, acceptor>>

\* clientPtrMap.
IsRegistered(c) == conn[c] = "in"

\* removeClient: nothing for a client that is not registered, also if its registration is
\* still queued.
RemoveClient(c) ==
  /\ removals[c] > 0
  /\ removals' = [removals EXCEPT ![c] = @ - 1]
  /\ IF ~IsRegistered(c) THEN UNCHANGED <<conn, ipConnectionCounts>>
     ELSE \/ conn' = [conn EXCEPT ![c] = "closed"] /\ ipConnectionCounts' = UpdateUsage(ipConnectionCounts, c, -1)
          \/ conn' = [conn EXCEPT ![c] = "cooling"] /\ UNCHANGED ipConnectionCounts
  /\ UNCHANGED <<acceptor, fsFaults>>

\* Release after ReconnectCooldownPeriod.
CooledDown(c) ==
  /\ conn[c] = "cooling" /\ conn' = [conn EXCEPT ![c] = "closed"]
  /\ ipConnectionCounts' = UpdateUsage(ipConnectionCounts, c, -1)
  /\ UNCHANGED <<acceptor, removals, fsFaults>>

FsSteps ==
  \/ AcceptConnection \/ ResumeAccept
  \/ \E c \in FsConns : CheckUpgrade(c) \/ FinishUpgrade(c) \/ RegisterClient(c) \/ RemoveClient(c) \/ CooledDown(c)
FsNext == FsSteps \/ AcceptFires \/ StopListener \/ \E c \in FsConns : AskRemove(c)

FsSpec == FsInit /\ [][FsNext]_fsvars
-----------------------------------------------------------------------------
Counted(k) == {c \in FsConns : k \in FsKeysOf[c] /\ conn[c] \in {"in", "cooling"}}

\* However many connections are upgraded at once, no address or network ever has more
\* clients than its limit (Register after IsAllowed).
LimitHeld == \A k \in FsKeys : Cardinality(Counted(k)) <= FsLimit[k]

\* The counts are those of the registered clients and of those that cool down, whatever
\* the order of registration and removals (updateUsage, Release): none is left behind or
\* taken away twice.
CountsExact == \A k \in FsKeys : ipConnectionCounts[k] = Cardinality(Counted(k))

\* The limits on connections hold and their counts are exact (Register, Release).
ConnectionsCounted == LimitHeld /\ CountsExact

\* After every accept event, also one that failed, the next connection can be accepted,
\* until the server stops (poller.Resume).
AcceptsAgain == []<>(acceptor \in {"armed", "stopped"})

-----------------------------------------------------------------------------
(***************************************************************************)
(* The receiving side of the feed: BroadcastClient (broadcastclient),      *)
(* the router that merges primary and secondary feeds (broadcastclients),  *)
(* and the relay that passes the messages on (relay).  One primary and one *)
(* secondary client; a client asks the server for the messages from its    *)
(* nextSeqNum on.  Confirmed sequence numbers are left out.                *)
(***************************************************************************)

CONSTANTS RtScenarios,     \* relay: messages go to the relay's queue; and bounds on what may happen
          RtQueue          \* capacity of the routers' and the relay's queues

VARIABLES made,            \* the messages 0 .. made - 1 were broadcast
          cl,              \* the clients
          chan,            \* messageChan of the two routers
          rt,              \* the router thread and what it did
          out,             \* the relay's queue
          rtq              \* what may still happen

rtvars == <<made, cl, chan, rt, out, rtq>>

RtKeys ==
  {"relay", "messages", "breaks", "wrong", "bad", "garbled", "cleanups", "starts", "stops", "failures"}
ASSUME RtAssumption == RtScenarios \subseteq [RtKeys -> Nat]

P == "primary"
S == "secondary"
Feeds == {P, S}

\* NewBroadcastClient: every client starts from the count at the start of the node.
NewClientFor(pc) == [pc |-> pc, next |-> 0, at |-> 0, hold |-> <<>>, unread |-> {}, counted |-> FALSE]

RtInit ==
  /\ rtq \in RtScenarios
  /\ made = 0 /\ chan = [c \in Feeds |-> <<>>] /\ out = <<>>
  /\ cl = [c \in Feeds |-> NewClientFor(IF c = P THEN "dial" ELSE "off")]
  /\ rt = [pc |-> "run", inner |-> FALSE, new |-> {}, old |-> {}, rotations |-> 0,
           forwarded |-> <<>>, failed |-> {}, connected |-> 0, fatal |-> FALSE]

May(what) == rtq[what] > 0
Used(what) == rtq' = [rtq EXCEPT ![what] = @ - 1]

Produce ==
  /\ May("messages") /\ Used("messages") /\ made' = made + 1
  /\ UNCHANGED <<cl, chan, rt, out>>
-----------------------------------------------------------------------------
(* A client.                                                               *)

\* The first message asked for on connecting.
Requested(c) == cl[c].next

\* connect, from Start and from retryConnect.  What the last connection could not read and
\* is still asked for comes again.
Dial(c) ==
  /\ cl[c].pc \in {"dial", "backoff"}
  /\ cl' = [cl EXCEPT ![c] = [@ EXCEPT !.pc = "read", !.at = Requested(c),
                                       !.unread = {m \in cl[c].unread : m < cl[c].next}]]
  /\ UNCHANGED <<made, chan, rt, out, rtq>>

\* The server is of another chain or version: fatal at the start, retried later.
WrongServer(c) ==
  /\ cl[c].pc = "dial" /\ May("wrong") /\ Used("wrong")
  /\ cl' = [cl EXCEPT ![c] = [@ EXCEPT !.pc = "fatal"]] /\ rt' = [rt EXCEPT !.fatal = TRUE]
  /\ UNCHANGED <<made, chan, out>>

\* A broadcast of one or more messages is read.  One with a bad signature is reported as
\* fatal and does not count for nextSeqNum, which follows the last good one; all are handed
\* over.
ReadMessages(c) ==
  /\ cl[c].pc = "read"
  /\ \E n \in cl[c].at + 1 .. made : \E next \in {cl[c].next} \cup (cl[c].at + 1 .. n) :
       /\ IF next = n THEN UNCHANGED rtq ELSE May("bad") /\ Used("bad")
       /\ cl' = [cl EXCEPT ![c] = [pc |-> "hand", next |-> next, at |-> n, unread |-> @.unread,
                                   hold |-> [i \in 1 .. n - @.at |-> @.at + i - 1], counted |-> TRUE]]
       /\ rt' = [rt EXCEPT !.connected = IF cl[c].counted THEN @ ELSE @ + 1, !.fatal = @ \/ next # n]
  /\ UNCHANGED <<made, chan, out>>

\* A frame that cannot be unmarshalled is logged and left; one of another version shows that
\* the feed is connected, and its messages are left.  nextSeqNum stays, until a later frame
\* moves it past them.
FrameIgnored(c) ==
  /\ cl[c].pc = "read" /\ May("garbled") /\ Used("garbled")
  /\ \E n \in cl[c].at + 1 .. made, parsed \in BOOLEAN :
       /\ cl' = [cl EXCEPT ![c] = [@ EXCEPT !.at = n, !.unread = cl[c].unread \cup (cl[c].at .. n - 1),
                                            !.counted = cl[c].counted \/ parsed]]
       /\ rt' = [rt EXCEPT !.connected = IF parsed /\ ~cl[c].counted THEN @ + 1 ELSE @]
  /\ UNCHANGED <<made, chan, out>>

\* Router.AddBroadcastMessages: one message after the other, waiting for room.
HandOver(c) ==
  /\ cl[c].pc = "hand"
  /\ IF cl[c].hold = <<>> THEN cl' = [cl EXCEPT ![c] = [@ EXCEPT !.pc = "read"]] /\ UNCHANGED chan
     ELSE /\ Len(chan[c]) < RtQueue
          /\ chan' = [chan EXCEPT ![c] = Append(@, Head(cl[c].hold))]
          /\ cl' = [cl EXCEPT ![c] = [@ EXCEPT !.hold = Tail(cl[c].hold)]]
  /\ UNCHANGED <<made, rt, out, rtq>>

\* adjustCount when a read fails.
Disconnected(connected, counted) == IF counted THEN connected - 1 ELSE connected

ReadFails(c) ==
  /\ cl[c].pc = "read" /\ May("breaks") /\ Used("breaks")
  /\ cl' = [cl EXCEPT ![c] = [@ EXCEPT !.pc = "backoff", !.counted = FALSE]]
  /\ rt' = [rt EXCEPT !.connected = Disconnected(@, cl[c].counted)]
  /\ UNCHANGED <<made, chan, out>>
-----------------------------------------------------------------------------
(* The router thread.                                                      *)

Running == rt.pc = "run"

\* recentFeedItemsCleanup: the older half is forgotten.
Rotated(r) == [r EXCEPT !.old = r.new, !.new = {}, !.rotations = @ + 1]

Cleanup ==
  /\ Running /\ ~rt.inner /\ May("cleanups") /\ Used("cleanups")
  /\ rt' = Rotated(rt)
  /\ UNCHANGED <<made, cl, chan, out>>

\* Nothing came from the primary: the inner select, with the secondary and the timers.
EnterInner ==
  /\ Running /\ ~rt.inner /\ chan[P] = <<>>
  /\ rt' = [rt EXCEPT !.inner = TRUE]
  /\ UNCHANGED <<made, cl, chan, out, rtq>>

\* msgHandler: a message of the last while is dropped, any other is remembered and passed
\* on, also when passing it on fails.
RouteMessage(c) ==
  LET m == Head(chan[c])
      seen == [rt EXCEPT !.inner = FALSE]
      kept == [seen EXCEPT !.new = @ \cup {m}]
  IN  /\ Running /\ chan[c] # <<>> /\ (c = S => rt.inner)
      /\ chan' = [chan EXCEPT ![c] = Tail(@)]
      /\ \/ m \in rt.new \cup rt.old /\ rt' = seen /\ UNCHANGED <<out, rtq>>
         \/ /\ m \notin rt.new \cup rt.old /\ rtq["relay"] = 0
            /\ rt' = [kept EXCEPT !.forwarded = Append(@, <<m, rt.rotations>>)] /\ UNCHANGED <<out, rtq>>
         \/ /\ m \notin rt.new \cup rt.old /\ rtq["relay"] = 0 /\ May("failures") /\ Used("failures")
            /\ rt' = [kept EXCEPT !.failed = @ \cup {m}] /\ UNCHANGED out
         \/ /\ m \notin rt.new \cup rt.old /\ rtq["relay"] = 1 /\ Len(out) < RtQueue
            /\ rt' = kept /\ out' = Append(out, <<m, rt.rotations>>) /\ UNCHANGED rtq
      /\ UNCHANGED <<made, cl>>

\* Relay.Start: the next message of the relay's queue is broadcast.
RelayMessage ==
  /\ out # <<>> /\ out' = Tail(out)
  /\ rt' = [rt EXCEPT !.forwarded = Append(@, Head(out))]
  /\ UNCHANGED <<made, cl, chan, rtq>>

\* primaryFeedIsDownTimer: only the timer for stopping the secondary is put back.
PrimaryIsDown ==
  /\ Running /\ rt.inner /\ rt' = [rt EXCEPT !.inner = FALSE]
  /\ UNCHANGED <<made, cl, chan, out, rtq>>

\* startSecondaryFeedTimer: nothing came for a while.  A feed that cannot be set up is
\* taken off the list.
StartSecondaryFeed ==
  /\ Running /\ rt.inner /\ May("starts")
  /\ \/ Used("starts") /\ cl' = [cl EXCEPT ![S] = IF @.pc = "off" THEN NewClientFor("dial") ELSE @]
     \/ cl[S].pc = "off" /\ rtq' = [rtq EXCEPT !["starts"] = 0] /\ UNCHANGED cl
  /\ rt' = [rt EXCEPT !.inner = FALSE]
  /\ UNCHANGED <<made, chan, out>>

\* stopSecondaryFeed: the router waits for the client's threads.
StopSecondaryFeed ==
  /\ Running /\ ~rt.inner /\ cl[S].pc # "off" /\ May("stops") /\ Used("stops")
  /\ rt' = [rt EXCEPT !.pc = "stopping"]
  /\ UNCHANGED <<made, cl, chan, out>>

\* A variant that empties the primary's queue too.
FlushedBoth == [c \in Feeds |-> <<>>]
\* What is left of the secondary's messages is dropped.
Flushed2 == [chan EXCEPT ![S] = <<>>]

SecondaryStopped ==
  /\ rt.pc = "stopping" /\ cl[S].pc # "hand"
  /\ rt' = [rt EXCEPT !.pc = "run"] /\ chan' = Flushed2 /\ cl' = [cl EXCEPT ![S] = NewClientFor("off")]
  /\ UNCHANGED <<made, out, rtq>>

ClientSteps(c) == Dial(c) \/ ReadMessages(c) \/ HandOver(c)
RouterSteps == EnterInner \/ SecondaryStopped \/ \E c \in Feeds : RouteMessage(c)
RtNext ==
  \/ \E c \in Feeds : ClientSteps(c) \/ FrameIgnored(c) \/ WrongServer(c) \/ ReadFails(c)
  \/ RouterSteps \/ RelayMessage \/ Produce \/ Cleanup \/ PrimaryIsDown \/ StartSecondaryFeed \/ StopSecondaryFeed

RtSpec == RtInit /\ [][RtNext]_rtvars
-----------------------------------------------------------------------------
PassedOn == {rt.forwarded[i][1] : i \in DOMAIN rt.forwarded} \cup {out[i][1] : i \in DOMAIN out}

\* A message is passed on twice only if the memory of recent messages was rotated twice in
\* between, whichever feeds brought it (msgHandler).
PassedOnce ==
  \A i, j \in DOMAIN rt.forwarded :
    i < j /\ rt.forwarded[i][1] = rt.forwarded[j][1] => rt.forwarded[j][2] - rt.forwarded[i][2] >= 2

\* No message is skipped: what the primary client will not ask for again was passed on, is
\* on its way, its hand over failed, or it came in a frame that the client could not read;
\* reconnects and the stopping of the secondary, whose queue is thrown away, do not lose any
\* (startBackgroundReader, stopSecondaryFeed).
NoMessageSkipped ==
  \A m \in 0 .. cl[P].next - 1 :
    m \in PassedOn \cup rt.failed \cup cl[P].unread \cup Range(chan[P]) \cup Range(cl[P].hold)

\* The number of connected feeds is not below the feeds that deliver (adjustCount).
ConnectedCounted == rt.connected >= Cardinality({c \in Feeds : cl[c].counted})

\* The feeds of a node are passed on without a gap and without a repetition, and the count of
\* connected feeds is right (startBackgroundReader, msgHandler, adjustCount).
FeedPassedOn == PassedOnce /\ NoMessageSkipped /\ ConnectedCounted

\* Every message gets through, as long as the primary server is the right one and the client
\* can read its frames (a frame left unread is not asked for on this connection), unless the
\* router waits for a secondary client that waits for room in the router's queue.
MessagesArrive ==
  []<>(\/ 0 .. made - 1 \subseteq PassedOn \cup rt.failed \cup cl[P].unread
       \/ cl[P].pc = "fatal" \/ (rt.pc = "stopping" /\ cl[S].pc = "hand"))
=============================================================================
