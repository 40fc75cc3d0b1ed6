---------------------------- MODULE HeaderReader ----------------------------
(***************************************************************************)
(* util/headerreader: headers of the parent chain, read by a subscription  *)
(* and by polling, are broadcast to listeners over unbuffered channels;    *)
(* WaitForTxApproval is a listener that waits until pending calls see a    *)
(* transaction's block; getCached keeps the safe (or finalized) header of  *)
(* a head.  A header is named by its number: the parent chain only grows.  *)
(***************************************************************************)
EXTENDS Integers, FiniteSets

CONSTANTS HrListeners,     \* plain listeners
          HrWaiter,        \* a caller of WaitForTxApproval
          HrMaxHead,       \* bound on the chain
          HrFaults,        \* bound on failing calls and broken subscriptions
          HrUses           \* sets of "listen" (listeners), "approval" (the waiter), "safePoll"
                           \* (WaitForTxApprovalSafePoll) and "cache" (getCached)

ASSUME HrAssumption == HrMaxHead \in Nat \ {0} /\ HrWaiter \notin HrListeners

VARIABLES hrL1,            \* head, pending (block number of pending calls), safe, tx (its block, 0: none)
          hr,              \* the reader's fields, and where its loop is
          ears,            \* of a listener: open, ready (receives now), got (last header)
          cache,           \* getCached: the cached header and the call under way
          safeAt,          \* of a head: the safe block when it became head
          approval,        \* of WaitForTxApproval: where it is
          hrUse,           \* who uses the reader
          hrFaults

hrvars == <<hrL1, hr, ears, cache, safeAt, approval, hrUse, hrFaults>>

Ears == HrListeners \cup {HrWaiter}

HrInit ==
  /\ hrL1 = [head |-> 1, pending |-> 1, safe |-> 0, tx |-> 0]
  /\ hr = [pc |-> "select", read |-> 0, on |-> {}, behind |-> {}, last |-> 0, err |-> FALSE, pending |-> 0,
           requires |-> 0, subscribed |-> FALSE, sent |-> 0, pollOnly |-> FALSE]
  /\ ears = [e \in Ears |-> [open |-> FALSE, ready |-> FALSE, got |-> 0]]
  /\ cache = [pc |-> "idle", head |-> 0, safe |-> 0, keptHead |-> 0, kept |-> 0]
  /\ approval = "none" /\ hrUse \in HrUses
  /\ safeAt = [h \in 0 .. HrMaxHead |-> 0] /\ hrFaults = 0

\* A call to the parent chain that fails.
CallFails == hrFaults < HrFaults /\ hrFaults' = hrFaults + 1
-----------------------------------------------------------------------------
(* The parent chain.                                                       *)

\* A new head, which may hold the transaction; pending calls run in the head or the block
\* after it; the safe block follows.
ChainMoves ==
  /\ \/ /\ hrL1.head < HrMaxHead
        /\ \E mined \in BOOLEAN :
             /\ mined => hrL1.tx = 0 /\ "approval" \in hrUse
             /\ hrL1' = [hrL1 EXCEPT !.head = @ + 1, !.tx = IF mined THEN hrL1.head + 1 ELSE @]
     \/ "approval" \in hrUse /\ hrL1.pending <= hrL1.head /\ hrL1' = [hrL1 EXCEPT !.pending = @ + 1]
     \/ hrUse \cap {"cache", "safePoll"} # {} /\ hrL1.safe < hrL1.head /\ hrL1' = [hrL1 EXCEPT !.safe = @ + 1]
  /\ safeAt' = IF "cache" \in hrUse /\ hrL1'.head # hrL1.head THEN [safeAt EXCEPT ![hrL1'.head] = hrL1.safe] ELSE safeAt
  /\ UNCHANGED <<hr, ears, cache, approval, hrUse, hrFaults>>
-----------------------------------------------------------------------------
(* Listeners.                                                              *)

\* Subscribe: the channel starts behind.
SubscribeTo(e, r) == [r EXCEPT !.behind = @ \cup {e}, !.requires = @ + IF e = HrWaiter THEN 1 ELSE 0]

Subscribe(e) ==
  /\ e \in HrListeners /\ ~ears[e].open /\ "listen" \in hrUse
  /\ hr' = SubscribeTo(e, hr)
  /\ ears' = [ears EXCEPT ![e] = [open |-> TRUE, ready |-> FALSE, got |-> 0]]
  /\ UNCHANGED <<hrL1, cache, safeAt, approval, hrUse, hrFaults>>

\* unsubscribe: the channel is closed if closeAll did not.  Closing it twice would panic.
UnsubscribeFrom(e, r) ==
  [r EXCEPT !.on = @ \ {e}, !.behind = @ \ {e}, !.requires = @ - IF e = HrWaiter THEN 1 ELSE 0]

Unsubscribe(e) ==
  /\ e \in HrListeners /\ ears[e].open
  /\ hr' = UnsubscribeFrom(e, hr)
  /\ ears' = [ears EXCEPT ![e].open = FALSE]
  /\ UNCHANGED <<hrL1, cache, safeAt, approval, hrUse, hrFaults>>

\* The listener has done its work and receives again.
Listen(e) ==
  /\ e \in HrListeners /\ ears[e].open /\ ~ears[e].ready
  /\ ears' = [ears EXCEPT ![e].ready = TRUE]
  /\ UNCHANGED <<hrL1, hr, cache, safeAt, approval, hrUse, hrFaults>>
-----------------------------------------------------------------------------
(* broadcastLoop.                                                          *)

\* possiblyBroadcast: a new header, or a new block number of pending calls.
WorthTelling(h, pending) == h # hr.last \/ pending > hr.pending

\* A variant that gives a slow listener up.
FellBehindLost(on, behind) == {}
\* Those of the listeners that do not receive right now are behind.
FellBehind(on, behind) == on \cup behind

\* The block number of pending calls, if it was asked for; who is told; who receives right now.
PendingNow(asked) == IF asked /\ hrL1.pending > hr.pending THEN hrL1.pending ELSE hr.pending
Told(h, pending) == IF WorthTelling(h, pending) THEN hr.on ELSE {}
Receiving == {e \in Ears : ears[e].ready}
Reached(h, pending) == (Told(h, pending) \cup hr.behind) \cap Receiving

Broadcast(h, r, pending) ==
  /\ hr' = [r EXCEPT !.err = FALSE, !.last = h, !.pending = pending,
                     !.on = (hr.on \ Told(h, pending)) \cup Reached(h, pending),
                     !.behind = FellBehind(Told(h, pending) \ Receiving, hr.behind \ Receiving)]
  /\ ears' = [e \in Ears |-> IF e \in Reached(h, pending) THEN [ears[e] EXCEPT !.ready = FALSE, !.got = h]
                            ELSE ears[e]]

\* possiblyBroadcast(h).  The block number of pending calls is asked for only if some
\* subscriber requires it, and the call may fail.
PossiblyBroadcast(h, r) ==
  \/ Broadcast(h, r, PendingNow(hr.requires > 0)) /\ UNCHANGED hrFaults
  \/ hr.requires > 0 /\ CallFails /\ Broadcast(h, r, PendingNow(FALSE))

\* A header arrives over the subscription; polling may have been faster.
InputHeader ==
  /\ hr.pc = "select" /\ hr.subscribed
  /\ \E h \in hr.sent + 1 .. hrL1.head : PossiblyBroadcast(h, [hr EXCEPT !.pc = "end", !.sent = h])
  /\ UNCHANGED <<hrL1, cache, safeAt, approval, hrUse>>

\* The poll timer: the latest header is read, and broadcast after that.
PollHeader ==
  /\ hr.pc = "select"
  /\ \/ hr' = [hr EXCEPT !.pc = "polled", !.read = hrL1.head] /\ UNCHANGED hrFaults
     \/ CallFails /\ hr' = [hr EXCEPT !.pc = "subscribe", !.err = TRUE]
  /\ UNCHANGED <<hrL1, ears, cache, safeAt, approval, hrUse>>

BroadcastPolled ==
  /\ hr.pc = "polled" /\ PossiblyBroadcast(hr.read, [hr EXCEPT !.pc = "subscribe", !.read = 0])
  /\ UNCHANGED <<hrL1, cache, safeAt, approval, hrUse>>

\* Every round of the loop ends with logIfHeaderIsOld: a header that is old is an error.
HeaderIsOld(r) == IF r.last = 0 THEN {FALSE} ELSE BOOLEAN

\* After a poll a missing subscription is asked for.  If that fails it is told only once in a
\* while, and if the endpoint has no subscriptions no other is asked for.
SubscribeNewHead ==
  /\ hr.pc = "subscribe"
  /\ \E old \in HeaderIsOld(hr) :
       \/ /\ hr.pollOnly \/ hr.subscribed
          /\ hr' = [hr EXCEPT !.pc = "select", !.err = @ \/ old] /\ UNCHANGED hrFaults
       \/ /\ ~hr.pollOnly /\ ~hr.subscribed
          /\ \/ /\ hr' = [hr EXCEPT !.pc = "select", !.err = @ \/ old, !.subscribed = TRUE, !.sent = hrL1.head]
                /\ UNCHANGED hrFaults
             \/ hr' = [hr EXCEPT !.pc = "select", !.err = @ \/ old, !.pollOnly = TRUE] /\ UNCHANGED hrFaults
             \/ CallFails /\ \E told \in BOOLEAN : hr' = [hr EXCEPT !.pc = "select", !.err = @ \/ old \/ told]
  /\ UNCHANGED <<hrL1, ears, cache, safeAt, approval, hrUse>>

\* The subscription breaks.
SubscriptionErr ==
  /\ hr.pc = "select" /\ hr.subscribed /\ CallFails
  /\ hr' = [hr EXCEPT !.err = TRUE, !.subscribed = FALSE, !.sent = 0]
  /\ UNCHANGED <<hrL1, ears, cache, safeAt, approval, hrUse>>

LogIfHeaderIsOld ==
  /\ hr.pc = "end"
  /\ \E old \in HeaderIsOld(hr) : hr' = [hr EXCEPT !.pc = "select", !.err = @ \/ old]
  /\ UNCHANGED <<hrL1, ears, cache, safeAt, approval, hrUse, hrFaults>>

\* StopAndWait: the loop sees the cancelled context and ends, then closeAll closes the channels.
StopReader ==
  /\ hr.pc = "select"
  /\ hr' = [hr EXCEPT !.pc = "exited", !.err = TRUE, !.subscribed = FALSE, !.sent = 0]
  /\ UNCHANGED <<hrL1, ears, cache, safeAt, approval, hrUse, hrFaults>>

CloseAll ==
  /\ hr.pc = "exited"
  /\ hr' = [hr EXCEPT !.pc = "closed", !.on = {}, !.behind = {}, !.requires = 0]
  /\ ears' = [e \in Ears |-> [ears[e] EXCEPT !.open = FALSE]]
  /\ UNCHANGED <<hrL1, cache, safeAt, approval, hrUse, hrFaults>>
-----------------------------------------------------------------------------
(* WaitForTxApproval.                                                      *)

ApprovalStarts ==
  /\ approval = "none" /\ "approval" \in hrUse /\ approval' = "asks"
  /\ hr' = SubscribeTo(HrWaiter, hr) /\ ears' = [ears EXCEPT ![HrWaiter].open = TRUE]
  /\ UNCHANGED <<hrL1, cache, safeAt, hrUse, hrFaults>>

\* LastPendingCallBlockNr beyond the block of the receipt.
PastReceipt == hr.pending > hrL1.tx

\* With WaitForTxApprovalSafePoll the block must be safe as well.
SafeEnough == "safePoll" \in hrUse => hrL1.safe >= hrL1.tx

\* The call returns, and its deferred unsubscribe runs.
ApprovalReturns(how) ==
  /\ approval' = how /\ hr' = UnsubscribeFrom(HrWaiter, hr)
  /\ ears' = [ears EXCEPT ![HrWaiter].open = FALSE, ![HrWaiter].ready = FALSE]

\* It asks for the receipt at the start and after each header, and waits for the next header
\* if there is none or a call fails.
Asking == approval = "asks" \/ (approval = "waits" /\ ~ears[HrWaiter].ready)
Waiting == approval = "waits" /\ ears[HrWaiter].ready

ApprovalWaits == approval' = "waits" /\ ears' = [ears EXCEPT ![HrWaiter].ready = TRUE] /\ UNCHANGED hr

ApprovalAsks ==
  /\ Asking
  /\ \/ hrL1.tx > 0 /\ PastReceipt /\ SafeEnough /\ ApprovalReturns("done") /\ UNCHANGED hrFaults
     \/ ~(hrL1.tx > 0 /\ PastReceipt) /\ ApprovalWaits /\ UNCHANGED hrFaults
     \/ hrL1.tx > 0 /\ CallFails /\ ApprovalWaits
     \/ hrL1.tx > 0 /\ PastReceipt /\ ~SafeEnough /\ approval' = "sleeps" /\ UNCHANGED <<hr, ears, hrFaults>>
  /\ UNCHANGED <<hrL1, cache, safeAt, hrUse>>

ApprovalWakes ==
  /\ approval = "sleeps" /\ approval' = "asks"
  /\ UNCHANGED <<hrL1, hr, ears, cache, safeAt, hrUse, hrFaults>>

\* The channel is closed, or the timeout has come.
ApprovalClosed ==
  /\ Waiting /\ ~ears[HrWaiter].open /\ ApprovalReturns("failed")
  /\ UNCHANGED <<hrL1, cache, safeAt, hrUse, hrFaults>>

ApprovalTimesOut ==
  /\ Waiting \/ approval = "sleeps"
  /\ ApprovalReturns("failed")
  /\ UNCHANGED <<hrL1, cache, safeAt, hrUse, hrFaults>>
-----------------------------------------------------------------------------
(* getCached, for the safe header.                                         *)

\* The last broadcast header, or a read of the chain after an error.
LastHeader == IF hr.err \/ hr.last = 0 THEN hrL1.head ELSE hr.last

\* Nothing is read while the head is the one the header was kept for.  A failing call, or a
\* chain without finality, leaves the cache alone.
GetCached ==
  /\ cache.pc = "idle" /\ "cache" \in hrUse /\ LastHeader # cache.keptHead
  /\ cache' = [cache EXCEPT !.pc = "reads", !.head = LastHeader]
  /\ UNCHANGED <<hrL1, hr, ears, safeAt, approval, hrUse, hrFaults>>

CacheReads ==
  /\ cache.pc = "reads"
  /\ \/ cache' = [cache EXCEPT !.pc = "keeps", !.safe = hrL1.safe] /\ UNCHANGED hrFaults
     \/ cache' = [cache EXCEPT !.pc = "idle"] /\ CallFails
  /\ UNCHANGED <<hrL1, hr, ears, safeAt, approval, hrUse>>

\* A variant that files the header under the head of the moment.
FiledUnderLater(c) == hr.last
\* headWhenCached: the head that was looked at first.
FiledUnder(c) == c.head

CacheKeeps ==
  /\ cache.pc = "keeps"
  /\ cache' = [cache EXCEPT !.pc = "idle", !.keptHead = FiledUnder(cache), !.kept = cache.safe]
  /\ UNCHANGED <<hrL1, hr, ears, safeAt, approval, hrUse, hrFaults>>

HrLoop == PollHeader \/ BroadcastPolled \/ SubscribeNewHead \/ LogIfHeaderIsOld
HrApproval == ApprovalAsks \/ ApprovalWakes \/ ApprovalClosed
HrNext ==
  \/ HrLoop \/ InputHeader \/ SubscriptionErr \/ HrApproval \/ ChainMoves \/ StopReader \/ CloseAll
  \/ \E e \in Ears : Subscribe(e) \/ Unsubscribe(e) \/ Listen(e)
  \/ ApprovalStarts \/ ApprovalTimesOut \/ GetCached \/ CacheReads \/ CacheKeeps

HrSpec == HrInit /\ [][HrNext]_hrvars
-----------------------------------------------------------------------------
\* A channel is open exactly while it is in one of the two sets, and in one only: it is
\* closed once, by whoever comes first, unsubscribe or closeAll.
ChannelInOneSet ==
  /\ hr.on \cap hr.behind = {}
  /\ hr.on \cup hr.behind = {e \in Ears : ears[e].open}

\* A safe header is not older than the one of the time when the head it is kept for became
\* head, although head and safe header are read one after the other (getCached).
SafeHeaderOfHead == cache.kept >= safeAt[cache.keptHead]

\* A transaction is approved only when calls on the pending block see its block
\* (WaitForTxApproval).
ApprovedIsVisible == approval = "done" => hrL1.pending > hrL1.tx /\ SafeEnough

\* The channels of the header reader are closed once, and the headers and approvals it gives are
\* not older than what they stand for (Subscribe, getCached, WaitForTxApproval).
HeadersSound == ChannelInOneSet /\ SafeHeaderOfHead /\ ApprovedIsVisible

Stopped == hr.pc \in {"exited", "closed"}

\* A listener that is slow and misses headers still gets the latest one in the end ("will
\* make sure listenere is notified when header changes", Subscribe), while the reader runs.
ListenersNotified ==
  \A e \in HrListeners : [](ears[e].open => <>(~ears[e].open \/ ears[e].got = hrL1.head \/ Stopped))

\* A mined transaction is approved once pending calls are past its block, also if no further
\* header comes (possiblyBroadcast), unless the wait times out, the reader is stopped or a call
\* fails: the waiter repeats a call only with the next header.
ApprovalEnds ==
  (approval \notin {"none", "done", "failed"} /\ hrL1.tx > 0 /\ hrL1.pending > hrL1.tx /\ SafeEnough)
    ~> (approval \in {"done", "failed"} \/ Stopped \/ hrFaults > 0)
=============================================================================
