----------------------------- MODULE Retryables -----------------------------
(***************************************************************************)
(* Retryable tickets (arbos/retryables, arbos/storage/queue.go), the calls *)
(* of the ArbRetryableTx precompile, and the part of the block processor   *)
(* and the transaction processor that creates, redeems and reaps them.     *)
(*                                                                         *)
(* A block starts with an internal transaction that looks at the head of   *)
(* the timeout queue twice.  A user transaction makes any calls of the     *)
(* precompile and ends, or reverts; the retries it scheduled run before    *)
(* the next user transaction, and make calls of their own.                 *)
(***************************************************************************)
EXTENDS Integers, Sequences, FiniteSets

CONSTANTS
  Ids,        \* ticket ids: hashes of the transactions that submit them
  Lifetime,   \* RetryableLifetimeSeconds
  LastUse,    \* bound: the last time at which users send transactions
  MaxTime,    \* bound on the time of the last block
  MaxCalls    \* bound on the calls of all transactions

ASSUME LifetimePositive == Lifetime \in Nat \ {0}
ASSUME BoundsAreNumbers == LastUse \in Nat /\ MaxTime \in Nat /\ MaxCalls \in Nat

VARIABLES
  st,         \* the state trie: tickets, escrow accounts, the timeout queue
  saved,      \* what st reverts to when the running transaction fails
  time,       \* the time of the current block
  tx,         \* the running transaction: none, of a user, or the retry of a ticket
  calls,      \* the number of calls made so far
  logs,       \* the RedeemScheduled events it emitted
  redeems,    \* the scheduled retries
  submitted,  \* the ids in use, live or not
  redeemed    \* history: how often each ticket was redeemed

vars == <<st, saved, time, tx, calls, logs, redeems, submitted, redeemed>>

None == "none"
User == "user"
ASSUME TxNames == None \notin Ids /\ User \notin Ids

NoTicket == [timeout |-> 0, windows |-> 0, tries |-> 0, value |-> 0]

Init ==
  /\ st = [ticket |-> [d \in Ids |-> NoTicket], escrow |-> [d \in Ids |-> 0],
           slot |-> <<>>, get |-> 1]
  /\ saved = st /\ time = 1 /\ tx = None /\ calls = 0
  /\ logs = <<>> /\ redeems = <<>> /\ submitted = {}
  /\ redeemed = [d \in Ids |-> 0]

(***************************************************************************)
(* The timeout queue and the tickets.  The first slot of the queue is at   *)
(* offset 2 of its storage, nextPutOffset is the length of slot plus 2,    *)
(* nextGetOffset is get plus 1.                                            *)
(***************************************************************************)
Put(s, d) == [s EXCEPT !.slot = Append(@, d)]
Get(s) == [s EXCEPT !.slot[s.get] = None, !.get = s.get + 1]

CreateRetryable(s, d, timeout, value) ==
  Put([s EXCEPT !.ticket[d] = [timeout |-> timeout, windows |-> 0, tries |-> 0,
                               value |-> value]], d)

\* OpenRetryable finds a ticket.
Opens(s, d, now) == s.ticket[d].timeout # 0 /\ s.ticket[d].timeout >= now

\* What is in escrow goes to the beneficiary.
DeleteRetryable(s, d) ==
  IF s.ticket[d].timeout = 0 THEN s
  ELSE [s EXCEPT !.ticket[d] = NoTicket, !.escrow[d] = 0]

CalculateTimeout(s, d) == s.ticket[d].timeout + s.ticket[d].windows * Lifetime

\* Mutant: a lifetime is added without an entry in the queue.
ExtendUnqueued(s, d) == [s EXCEPT !.ticket[d].windows = @ + 1]

\* Another entry for each added lifetime: only the last one deletes the ticket.
Extend(s, d) == Put([s EXCEPT !.ticket[d].windows = @ + 1], d)

LessOneWindow(k) ==
  [timeout |-> k.timeout + Lifetime, windows |-> k.windows - 1,
   tries |-> k.tries, value |-> k.value]

ConsumeWindow(s, d) == [Get(s) EXCEPT !.ticket[d] = LessOneWindow(@)]

\* Mutant: the entry of a deleted ticket is not discarded.
ReapKeepsStaleEntry(s, now) ==
  IF s.get = Len(s.slot) + 1 THEN s
  ELSE LET d == s.slot[s.get]
       IN  IF s.ticket[d].timeout = 0 \/ s.ticket[d].timeout >= now THEN s
           ELSE IF s.ticket[d].windows = 0 THEN DeleteRetryable(Get(s), d)
           ELSE ConsumeWindow(s, d)

TryToReapOneRetryable(s, now) ==
  IF s.get = Len(s.slot) + 1 THEN s
  ELSE LET d == s.slot[s.get]
       IN  IF s.ticket[d].timeout = 0 THEN Get(s)
           ELSE IF s.ticket[d].timeout >= now THEN s
           ELSE IF s.ticket[d].windows = 0 THEN DeleteRetryable(Get(s), d)
           ELSE ConsumeWindow(s, d)

(***************************************************************************)
(* Blocks and transactions.                                                *)
(***************************************************************************)
StartBlock(now) ==
  /\ tx = None /\ redeems = <<>>
  /\ now \in time .. MaxTime
  /\ time' = now
  /\ st' = TryToReapOneRetryable(TryToReapOneRetryable(st, now), now)
  /\ saved' = st'
  /\ UNCHANGED <<tx, calls, logs, redeems, submitted, redeemed>>

\* A submission from L1: the callvalue goes into escrow, the ticket is created
\* and, when the gas is paid for, its first retry is scheduled.
SubmitRetryable(d, value, autoRedeem) ==
  /\ tx = None /\ redeems = <<>> /\ time <= LastUse
  /\ d \notin submitted
  /\ submitted' = submitted \union {d}
  /\ LET s == CreateRetryable([st EXCEPT !.escrow[d] = @ + value], d,
                              time + Lifetime, value)
     IN  IF autoRedeem
         THEN st' = [s EXCEPT !.ticket[d].tries = 1] /\ redeems' = <<<<d, 0>>>>
         ELSE st' = s /\ redeems' = <<>>
  /\ saved' = st'
  /\ UNCHANGED <<time, tx, calls, logs, redeemed>>

StartUserTx ==
  /\ tx = None /\ redeems = <<>> /\ time <= LastUse
  /\ tx' = User /\ saved' = st
  /\ UNCHANGED <<st, time, calls, logs, redeems, submitted, redeemed>>

\* The next scheduled retry: the callvalue leaves the escrow before the
\* transaction runs, and a retry of a deleted ticket is skipped.
StartRetry ==
  /\ tx = None /\ redeems # <<>>
  /\ redeems' = Tail(redeems)
  /\ \E d \in {Head(redeems)[1]} \cap Ids :
         IF Opens(st, d, time) /\ st.escrow[d] >= st.ticket[d].value
         THEN /\ tx' = d
              /\ st' = [st EXCEPT !.escrow[d] = @ - st.ticket[d].value]
         ELSE UNCHANGED <<st, tx>>
  /\ saved' = st'
  /\ UNCHANGED <<time, calls, logs, submitted, redeemed>>

Call(s) ==
  /\ tx # None /\ calls < MaxCalls
  /\ calls' = calls + 1
  /\ st' = s
  /\ UNCHANGED <<saved, time, tx, redeems, submitted, redeemed>>

\* ErrSelfModifyingRetryable is returned when d is the ticket of the running retry.
Redeem(d) ==
  /\ tx # d /\ Opens(st, d, time)
  /\ logs' = Append(logs, <<d, st.ticket[d].tries>>)
  /\ Call([st EXCEPT !.ticket[d].tries = @ + 1])

Keepalive(d) ==
  /\ Opens(st, d, time)
  /\ CalculateTimeout(st, d) <= time + Lifetime
  /\ Call(Extend(st, d)) /\ UNCHANGED logs

Cancel(d) ==
  /\ tx # d /\ Opens(st, d, time)
  /\ Call(DeleteRetryable(st, d)) /\ UNCHANGED logs

\* The retries that the transaction's events schedule: in their order, those of tickets
\* still there.
StillThere(s) == {i \in DOMAIN logs : Opens(s, logs[i][1], time)}
Nth(K, n) == CHOOSE i \in K : Cardinality({j \in K : j <= i}) = n
ScheduledTxes(s) == [n \in 1 .. Cardinality(StillThere(s)) |-> logs[Nth(StillThere(s), n)]]

EndTx(success) ==
  /\ tx # None
  /\ tx' = None /\ logs' = <<>>
  /\ IF success
     THEN /\ st' = IF tx = User THEN st ELSE DeleteRetryable(st, tx)
          /\ redeems' = redeems \o ScheduledTxes(st')
          /\ redeemed' = IF tx = User THEN redeemed ELSE [redeemed EXCEPT ![tx] = @ + 1]
     ELSE /\ st' = IF tx = User THEN saved
                   ELSE [saved EXCEPT !.escrow[tx] = @ + saved.ticket[tx].value]
          /\ UNCHANGED <<redeems, redeemed>>
  /\ saved' = st'
  /\ UNCHANGED <<time, calls, submitted>>

Next ==
  \/ \E now \in 1 .. MaxTime : StartBlock(now)
  \/ \E d \in Ids, value \in 0 .. 1, auto \in BOOLEAN : SubmitRetryable(d, value, auto)
  \/ StartUserTx
  \/ StartRetry
  \/ \E d \in Ids : Redeem(d) \/ Keepalive(d) \/ Cancel(d)
  \/ \E success \in BOOLEAN : EndTx(success)

Spec == Init /\ [][Next]_vars

\* Transactions end, a block holds finitely many of them (its gas is limited), and
\* blocks keep coming with later times; after LastUse only empty ones do.  Of these steps
\* the first two are strongly fair, the others weakly.
LaterBlock == \E now \in 1 .. MaxTime : now > time /\ StartBlock(now)
LastBlock == StartBlock(MaxTime)
SomeEnd == \E success \in BOOLEAN : EndTx(success)

(***************************************************************************)
(* Properties.                                                             *)
(***************************************************************************)
Live(s, d) == s.ticket[d].timeout # 0

\* The entries of a ticket between the two ends of the queue.
Entries(s, d) == {n \in s.get .. Len(s.slot) : s.slot[n] = d}

TicketType == [timeout : Nat, windows : Nat, tries : Nat, value : 0 .. 1]
StateType == [ticket : [Ids -> TicketType], escrow : [Ids -> 0 .. 1],
              slot : Seq(Ids \union {None}), get : Nat \ {0}]

\* The trie, the running transaction and the scheduled retries have their types.
TypeOK ==
  /\ st \in StateType /\ saved \in StateType
  /\ time \in Nat \ {0} /\ tx \in Ids \union {None, User} /\ calls \in Nat
  /\ logs \in Seq(Ids \X Nat) /\ redeems \in Seq(Ids \X Nat)
  /\ submitted \in SUBSET Ids /\ redeemed \in [Ids -> Nat]

\* "Only the last one deletes the retryable" (Keepalive): a ticket has exactly
\* one queue entry for its own timeout and one for each lifetime added to it,
\* whatever calls extend it, revert, or run inside its own retry.  With an
\* entry less it would never be reaped, with one more it would be reaped early.
OneEntryPerWindow ==
  \A d \in Ids : Live(st, d) => Cardinality(Entries(st, d)) = st.ticket[d].windows + 1

\* The callvalue of a ticket is in its escrow as long as the ticket lives and is
\* not running (SubmitRetryable, StartTxHook, EndTxHook), and nothing stays in
\* the escrow of a ticket that is gone (DeleteRetryable).
EscrowBacksTicket ==
  \A d \in Ids :
    st.escrow[d] = IF Live(st, d) /\ tx # d THEN st.ticket[d].value ELSE 0

\* A ticket is redeemed at most once, however many retries of it were scheduled
\* before the first one succeeded (the block processor's redeem loop).
RedeemedOnce == \A d \in Ids : redeemed[d] <= 1

\* Two retries that wait to run are different transactions: no two carry the
\* same ticket and sequence number (IncrementNumTries in Redeem and SubmitRetryable).
RetriesAreDistinct ==
  \A i, j \in DOMAIN redeems : i # j => redeems[i] # redeems[j]

\* No block reaps a ticket before the expiry it reports (CalculateTimeout, which
\* GetTimeout returns): at the start of a block a ticket can go only when that
\* time has passed, and otherwise the reported expiry stays what it was.
NotReapedEarly ==
  [][time' # time =>
       \A d \in Ids : Live(st, d) =>
         IF Live(st', d) THEN CalculateTimeout(st', d) = CalculateTimeout(st, d)
         ELSE CalculateTimeout(st, d) < time']_vars

\* A ticket lives as long as it reports, with its money in escrow, and is redeemed once
\* (CreateRetryable, Keepalive, TryToReapOneRetryable, the redeem loop of the block processor).
TicketsSound ==
  /\ [](OneEntryPerWindow /\ EscrowBacksTicket /\ RedeemedOnce /\ RetriesAreDistinct)
  /\ NotReapedEarly

\* Every ticket is deleted in the end (TryToReapOneRetryable), although entries
\* of long-lived tickets stand before its own in the queue: an id is used once, so
\* there are always later states without any live ticket.
EveryTicketEnds == []<>(\A d \in Ids : ~Live(st, d))

=============================================================================
