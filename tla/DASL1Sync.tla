------------------------------ MODULE DASL1Sync ------------------------------
(***************************************************************************)
(* The eager synchronisation of a data availability server                 *)
(* (das/syncing_fallback_storage.go): l1SyncService reads the batches that *)
(* were delivered to the parent chain, recovers the data of each from the  *)
(* other servers and puts it into its own storage.  How far it came is     *)
(* kept in a file.  The parent chain may be reorganised to the depth of    *)
(* the confirmations, calls may fail, and the server may restart.          *)
(***************************************************************************)
EXTENDS Integers, Sequences, FiniteSets

CONSTANTS Confirmations,   \* 12 in the code
          BlocksPerRead,   \* config.ParentChainBlocksPerRead
          SyWord,          \* the block numbers are modulo this (2^64 in the code)
          SyKinds,         \* what each block may hold: none, das, other or old batches
          SyMaxHead,       \* bound on the parent chain's length
          SyMaxForks, SyMaxFaults   \* bounds on reorganisations and faults

ASSUME SyAssumption ==
  /\ Confirmations \in Nat /\ BlocksPerRead \in Nat /\ SyWord \in Nat /\ SyMaxHead \in Nat
  /\ Confirmations <= SyMaxHead /\ SyMaxHead + 1 < SyWord
  /\ SyKinds \in Seq(SUBSET {"none", "das", "other", "old"}) /\ SyMaxHead < Len(SyKinds)
  /\ SyMaxForks \in Nat /\ SyMaxFaults \in Nat

VARIABLES l1,              \* the parent chain, block n at n + 1
          sy,              \* l1SyncService
          file,            \* the sync state on disk, -1 if there is none
          kept,            \* the batches in the storage
          sybudget         \* reorganisations and faults left

syvars == <<l1, sy, file, kept, sybudget>>

Head1 == Len(l1) - 1
Block1(kind, n, fork) == [kind |-> kind, n |-> n, fork |-> IF kind = "none" THEN 0 ELSE fork]
Kinds == UNION {SyKinds[n] : n \in DOMAIN SyKinds}

\* The batches delivered; the accumulator of the inbox stands for them.
Delivered(chain) == {chain[i] : i \in {j \in 1 .. Len(chain) : chain[j].kind # "none"}}

\* newl1SyncService: nothing is known of the batches yet.
Fresh(low) ==
  [pc |-> "read", low |-> low, catchingUp |-> TRUE, high |-> 0, finalized |-> 0, logs |-> {},
   lastCount |-> 0, lastAcc |-> {}, retry |-> TRUE, news |-> FALSE]

\* The parent chain has more blocks than it takes to confirm one.
SyInit ==
  /\ \E ks \in [1 .. Confirmations + 1 -> Kinds] :
       /\ \A i \in 1 .. Confirmations + 1 : ks[i] \in SyKinds[i]
       /\ l1 = [i \in 1 .. Confirmations + 1 |-> Block1(ks[i], i - 1, SyMaxForks)]
  /\ sy = Fresh(0) /\ file = -1 /\ kept = {}
  /\ sybudget = [forks |-> SyMaxForks, faults |-> SyMaxFaults]
-----------------------------------------------------------------------------
\* A variant that gives up the range until the next header comes.
FailReadWaits(s) == [s EXCEPT !.pc = "read", !.logs = {}, !.retry = FALSE]
\* An error: mainThread waits a while and reads again from where it was.
FailRead(s) == [s EXCEPT !.pc = "read", !.logs = {}, !.retry = TRUE]

Fault == sybudget.faults > 0 /\ sybudget' = [sybudget EXCEPT !.faults = @ - 1]

\* A variant that takes the newest block as final.
FinalizedNumberNow(high) == high
\* The newest block that counts as final; the subtraction is on unsigned numbers.
FinalizedNumber(high) == (high - Confirmations) % SyWord

\* mainThread comes round: at once when behind or after an error, else for a new header.
Awake == sy.pc = "read" /\ (sy.catchingUp \/ sy.retry \/ sy.news)

\* The range to read: at most BlocksPerRead blocks when behind.
RangeOf(s, head) ==
  LET limit == (s.low + BlocksPerRead) % SyWord
      fin == FinalizedNumber(head)
  IN  IF head > limit
      THEN [s EXCEPT !.pc = "fetch", !.catchingUp = TRUE, !.high = limit, !.finalized = IF fin > limit THEN limit ELSE fin]
      ELSE [s EXCEPT !.pc = "fetch", !.catchingUp = FALSE, !.high = head, !.finalized = fin]

\* readMore up to the range.  When the count of batches is the one remembered, and there is
\* none at all, the accumulator before the first is asked for, which is an error.
ReadHeader ==
  /\ Awake
  /\ LET s == [sy EXCEPT !.retry = FALSE, !.news = FALSE]
         count == Cardinality(Delivered(l1))
     IN  sy' = IF count = s.lastCount /\ count = 0 THEN FailRead(s)
               ELSE IF count = s.lastCount /\ Delivered(l1) = s.lastAcc
               THEN [s EXCEPT !.low = FinalizedNumber(Head1), !.catchingUp = FALSE]
               ELSE RangeOf(s, Head1)
  /\ UNCHANGED <<l1, file, kept, sybudget>>

\* A call to the parent chain fails.
CallFails ==
  /\ Awake \/ sy.pc = "fetch"
  /\ Fault /\ sy' = FailRead([sy EXCEPT !.news = FALSE])
  /\ UNCHANGED <<l1, file, kept>>

\* The log of a delivered batch, with the accumulator after it.
LogOf(b) == [block |-> b, acc |-> {c \in Delivered(l1) : c.n <= b.n}]
LogsIn(low, high) == {LogOf(b) : b \in {c \in Delivered(l1) : c.n \in low .. high}}
SeqNumber(log) == Cardinality(log.acc) - 1

\* The logs come in the order of the blocks.
NextLog(logs) == CHOOSE log \in logs : \A other \in logs : log.block.n <= other.block.n

\* FilterLogs for the range, on the chain as it is now; a range that is backwards is refused.
FilterLogs ==
  /\ sy.pc = "fetch"
  /\ sy' = IF sy.low > sy.high THEN FailRead(sy) ELSE [sy EXCEPT !.pc = "logs", !.logs = LogsIn(sy.low, sy.high)]
  /\ UNCHANGED <<l1, file, kept, sybudget>>

\* processBatchDelivered: data past its retention, or data that is no certificate, is left
\* out before the count is updated.  The count is set to the batch's number, one too low.
ProcessBatch ==
  /\ sy.pc = "logs" /\ sy.logs # {}
  /\ LET log == NextLog(sy.logs)
         s == [sy EXCEPT !.logs = @ \ {log}]
     IN  IF log.block.kind # "das" THEN sy' = s /\ UNCHANGED kept
         ELSE /\ kept' = kept \cup {log.block}
              /\ sy' = IF s.lastCount <= SeqNumber(log) + 1
                       THEN [s EXCEPT !.lastCount = SeqNumber(log), !.lastAcc = log.acc] ELSE s
  /\ UNCHANGED <<l1, file, sybudget>>

\* The data cannot be had from the other servers, or cannot be put; or the block is no
\* longer on the chain.
BatchFails ==
  /\ sy.pc = "logs" /\ sy.logs # {} /\ NextLog(sy.logs).block.kind # "old"
  /\ IF NextLog(sy.logs).block \in Delivered(l1) THEN Fault ELSE UNCHANGED sybudget
  /\ sy' = FailRead(sy)
  /\ UNCHANGED <<l1, file, kept>>

\* The whole range is done.  A failure to write the file is only logged.
Advance ==
  /\ sy.pc = "logs" /\ sy.logs = {}
  /\ LET low == (sy.finalized + 1) % SyWord
     IN  /\ sy' = [sy EXCEPT !.pc = "read", !.low = low]
         /\ \/ file' = low /\ UNCHANGED sybudget
            \/ Fault /\ UNCHANGED file
  /\ UNCHANGED <<l1, kept>>

\* The server restarts and reads the file.
SyRestart ==
  /\ Fault
  /\ sy' = Fresh(IF file = -1 THEN 0 ELSE file)
  /\ UNCHANGED <<l1, file, kept>>
-----------------------------------------------------------------------------
\* The parent chain grows, or its last blocks are replaced by as many.
Mine ==
  /\ Head1 < SyMaxHead
  /\ \E k \in SyKinds[Len(l1) + 1] : l1' = Append(l1, Block1(k, Len(l1), sybudget.forks))
  /\ sy' = [sy EXCEPT !.news = TRUE]
  /\ UNCHANGED <<file, kept, sybudget>>

Reorganise ==
  /\ sybudget.forks > 0
  /\ \E d \in 1 .. Confirmations, ks \in [1 .. Confirmations -> Kinds] :
       /\ \A j \in 1 .. Confirmations : j <= d => ks[j] \in SyKinds[Len(l1) - d + j]
       /\ l1' = [i \in 1 .. Len(l1) |-> IF i <= Len(l1) - d THEN l1[i]
                                        ELSE Block1(ks[i - Len(l1) + d], i - 1, sybudget.forks - 1)]
  /\ sybudget' = [sybudget EXCEPT !.forks = @ - 1]
  /\ sy' = [sy EXCEPT !.news = TRUE]
  /\ UNCHANGED <<file, kept>>

SyncSteps == ReadHeader \/ FilterLogs \/ ProcessBatch \/ Advance
SyNext == SyncSteps \/ CallFails \/ BatchFails \/ SyRestart \/ Mine \/ Reorganise

SySpec == SyInit /\ [][SyNext]_syvars
-----------------------------------------------------------------------------
HasAllBelow(low) == \A i \in 1 .. Len(l1) : i - 1 < low /\ l1[i].kind = "das" => l1[i] \in kept

\* Everything on the parent chain below the block the service goes on from, and below the
\* block it would go on from after a restart, is in the storage: neither a reorganisation
\* nor a fault in the middle of a range loses a batch (readMore, writeSyncState).
NothingSkipped == HasAllBelow(sy.low) /\ HasAllBelow(file)

\* Every batch that stays on the parent chain gets into the storage (mainThread).
BatchesArrive == []<>HasAllBelow(Len(l1))
=============================================================================
