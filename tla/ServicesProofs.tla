-------------------------- MODULE ServicesProofs --------------------------
(***************************************************************************)
(* Proofs about the machines of validations (MachineServers), the header   *)
(* reader (HeaderReader) and the starting and stopping of components       *)
(* (Lifecycle).  Each section has the inductive invariant of a component,  *)
(* the proof that every step keeps it, and the theorem that follows.       *)
(***************************************************************************)
EXTENDS HeaderReader, MachineServers, Lifecycle, FiniteSetTheorems, TLAPS

-----------------------------------------------------------------------------
(* The machines of validations.                                            *)

\* A root has been created as often as its state says: never while it is "none", once from
\* then on (GetMachine).
MsInv ==
  /\ machine \in [MsRoots -> {"none", "creating", "ready", "failed"}]
  /\ creations = [r \in MsRoots |-> IF machine[r] = "none" THEN 0 ELSE 1]
  /\ call \in [MsCalls -> {"idle", "promised", "looks", "awaits", "runs", "listens", "sends", "valid", "error", "refused",
                           "dropped"}]
  /\ ClonesInUse

\* Every step of the validation servers keeps the invariant.
LEMMA MsStep == MsInv /\ [MsNext]_msvars => MsInv'
<1> SUFFICES ASSUME MsInv, [MsNext]_msvars PROVE MsInv'
  OBVIOUS
<1> USE DEF MsInv, ClonesInUse, MsRoots
<1>1. CASE UNCHANGED msvars
  BY <1>1 DEF msvars
<1>2. ASSUME NEW c \in MsCalls, Launch(c) PROVE MsInv'
  BY <1>2, Zenon DEF Launch
<1>11. ASSUME NEW c \in MsCalls, LaunchValidation(c) PROVE MsInv'
  BY <1>11, Zenon DEF LaunchValidation
<1>3. ASSUME NEW c \in MsCalls, GetMachine(c) PROVE MsInv'
  BY <1>3, SMTT(60) DEF GetMachine, NeedsCreation
<1>4. ASSUME NEW r \in MsRoots, MachineCreated(r) PROVE MsInv'
  BY <1>4, ZenonT(60) DEF MachineCreated
<1>5. ASSUME NEW c \in MsCalls, MachineAwaited(c) PROVE MsInv'
  BY <1>5 DEF MachineAwaited, MsEnds, ClonesAfter
<1>6. ASSUME NEW c \in MsCalls, ExecuteEnds(c) PROVE MsInv'
  BY <1>6, ZenonT(60) DEF ExecuteEnds, MsEnds, ClonesAfter
<1>7. ASSUME NEW c \in MsCalls, ProveAccepts(c) PROVE MsInv'
  BY <1>7, ZenonT(60) DEF ProveAccepts, MsEnds, ClonesAfter
<1>8. ASSUME NEW c \in MsCalls, ProveEnds(c) PROVE MsInv'
  BY <1>8, ZenonT(60) DEF ProveEnds, MsEnds, ClonesAfter
<1>9. ASSUME NEW r \in MsRoots, ProcessLost(r) PROVE MsInv'
  BY <1>9, Zenon DEF ProcessLost
<1>10. CASE StopServers
  BY <1>10 DEF StopServers
<1> QED
  BY <1>1, <1>2, <1>3, <1>4, <1>5, <1>6, <1>7, <1>8, <1>9, <1>10, <1>11, ZenonT(60) DEF MsNext, MsSteps

\* However many validations ask for a module root at once, its machine is created once, and a
\* clone is kept exactly for the validations that run on one (GetMachine, execute).
THEOREM MachinesAreSound == MsSpec => []MachinesSound
<1>1. MsInit => MsInv
  BY DEF MsInit, MsInv, ClonesInUse
<1>2. MsInv => MachinesSound
  BY DEF MsInv, MachinesSound, CreatedOnce
<1> QED
  BY <1>1, <1>2, MsStep, PTL DEF MsSpec
-----------------------------------------------------------------------------
(* The header reader.                                                      *)

Chains == [head : 1 .. HrMaxHead, pending : Nat, safe : Nat, tx : Nat]
Readers == [pc : {"select", "polled", "subscribe", "end", "exited", "closed"}, read : Nat, on : SUBSET Ears,
            behind : SUBSET Ears, last : Nat, err : BOOLEAN, pending : Nat, requires : Int, subscribed : BOOLEAN,
            sent : Nat, pollOnly : BOOLEAN]
EarStates == [open : BOOLEAN, ready : BOOLEAN, got : Nat]
Caches == [pc : {"idle", "reads", "keeps"}, head : Nat, safe : Nat, keptHead : Nat, kept : Nat]

Approvals == {"none", "asks", "waits", "sleeps", "done", "failed"}

HrType ==
  /\ hrL1 \in Chains /\ hr \in Readers /\ ears \in [Ears -> EarStates] /\ cache \in Caches
  /\ safeAt \in [0 .. HrMaxHead -> Nat]
  /\ approval \in Approvals

\* What getCached holds is of heads the chain had: the safe block of a head never changes once
\* the head is there, and the safe block read later is not an older one.
HrCacheInv ==
  /\ hr.last <= hrL1.head /\ hr.read <= hrL1.head /\ cache.head <= hrL1.head /\ cache.keptHead <= hrL1.head
  /\ \A h \in 0 .. HrMaxHead : safeAt[h] <= hrL1.safe
  /\ cache.pc = "keeps" => cache.safe >= safeAt[cache.head]
  /\ SafeHeaderOfHead

\* The reader never runs ahead of the chain's pending block, and the transaction of a finished
\* wait was mined.  A wait that has not begun has no open channel.
HrApprovalInv ==
  /\ hr.pending <= hrL1.pending
  /\ approval = "none" => ~ears[HrWaiter].open
  /\ approval = "done" => hrL1.tx > 0 /\ hrL1.pending > hrL1.tx /\ SafeEnough

HrInv == HrType /\ ChannelInOneSet /\ HrCacheInv /\ HrApprovalInv

\* A broadcast moves channels from one set to the other and loses none (possiblyBroadcast).
LEMMA HrBroadcasts ==
  ASSUME HrInv, NEW h \in 0 .. hrL1.head, NEW r \in Readers, r.read <= hrL1.head,
         PossiblyBroadcast(h, r), UNCHANGED <<hrL1, cache, safeAt, approval, hrUse>>
  PROVE  HrInv'
<1>0. /\ HrType /\ ChannelInOneSet /\ HrCacheInv /\ HrApprovalInv
      /\ hr \in Readers /\ ears \in [Ears -> EarStates] /\ hrL1 \in Chains
  BY DEF HrInv, HrType
<1>1. PICK asked \in BOOLEAN : Broadcast(h, r, PendingNow(asked))
  <2>1. (hr.requires > 0) \in BOOLEAN
    BY <1>0, SMTT(60) DEF Readers
  <2> QED
    BY <2>1, Zenon DEF PossiblyBroadcast
<1> DEFINE p == PendingNow(asked)
           told == Told(h, p)
           got == Reached(h, p)
           on == (hr.on \ told) \cup got
           behind == (told \ Receiving) \cup (hr.behind \ Receiving)
<1>2. p \in Nat /\ p <= hrL1.pending /\ h \in Nat /\ h <= hrL1.head
  BY <1>0 DEF PendingNow, HrApprovalInv, Readers, Chains
<1>3. told = hr.on \/ told = {}
  BY Zenon DEF Told
<1>4. got = (told \cup hr.behind) \cap Receiving
  BY Zenon DEF Reached
<1>5. /\ hr' = [r EXCEPT !.err = FALSE, !.last = h, !.pending = p, !.on = on, !.behind = behind]
      /\ ears' = [e \in Ears |-> IF e \in got THEN [ears[e] EXCEPT !.ready = FALSE, !.got = h] ELSE ears[e]]
  BY <1>1, Zenon DEF Broadcast, FellBehind
<1> HIDE DEF p, told, got
<1>6. on \in SUBSET Ears /\ behind \in SUBSET Ears
  BY <1>0, <1>3, <1>4, ZenonT(60) DEF Readers
<1>7. on \cap behind = {} /\ on \cup behind = hr.on \cup hr.behind
  BY <1>0, <1>3, <1>4, Zenon DEF ChannelInOneSet, Readers
<1> HIDE DEF on, behind
<1>8. /\ hr' \in Readers /\ hr'.on = on /\ hr'.behind = behind /\ hr'.last = h /\ hr'.pending = p
      /\ hr'.read = r.read
  BY <1>2, <1>5, <1>6, Zenon DEF Readers
<1>9. ears' \in [Ears -> EarStates] /\ \A e \in Ears : ears'[e].open = ears[e].open
  BY <1>0, <1>2, <1>5, ZenonT(60) DEF EarStates
<1>10. HrType'
  BY <1>0, <1>8, <1>9, Zenon DEF HrType
<1>11. ChannelInOneSet'
  BY <1>0, <1>7, <1>8, <1>9, ZenonT(60) DEF ChannelInOneSet
<1>12. HrCacheInv'
  BY <1>0, <1>2, <1>8, SMTT(60) DEF HrCacheInv, SafeHeaderOfHead
<1>13. HrApprovalInv'
  BY <1>0, <1>2, <1>8, <1>9, Zenon DEF HrApprovalInv, Ears, SafeEnough
<1> QED
  BY <1>10, <1>11, <1>12, <1>13 DEF HrInv

\* What the invariant looks at when nothing is broadcast: the reader's sets and numbers.
LEMMA HrEarsStep ==
  ASSUME HrInv, hr' \in Readers, ears' \in [Ears -> EarStates],
         hr'.last = hr.last, hr'.pending = hr.pending, hr'.read <= hrL1.head,
         approval' \in Approvals,
         ChannelInOneSet', approval' = "none" => ~ears'[HrWaiter].open,
         approval' = "done" => approval = "done" \/ (hrL1.tx > 0 /\ PastReceipt /\ SafeEnough),
         UNCHANGED <<hrL1, cache, safeAt, hrUse>>
  PROVE  HrInv'
<1>1. HrType'
  BY Zenon DEF HrInv, HrType
<1>2. HrCacheInv'
  BY Zenon DEF HrInv, HrCacheInv, SafeHeaderOfHead
<1>3. HrApprovalInv'
  <2>1. SafeEnough' <=> SafeEnough
    BY Zenon DEF SafeEnough
  <2> QED
    BY <2>1, SMTT(60) DEF HrInv, HrType, HrApprovalInv, PastReceipt, Readers, Chains
<1> QED
  BY <1>1, <1>2, <1>3, Zenon DEF HrInv

\* A step of the loop that broadcasts nothing leaves the channels alone.
LEMMA HrLoopStep ==
  ASSUME HrInv, hr' \in Readers, hr'.on = hr.on, hr'.behind = hr.behind, hr'.last = hr.last,
         hr'.pending = hr.pending, hr'.read <= hrL1.head,
         UNCHANGED <<hrL1, ears, cache, safeAt, approval, hrUse>>
  PROVE  HrInv'
<1>1. ChannelInOneSet' /\ ears' \in [Ears -> EarStates] /\ approval' \in Approvals
  BY Zenon DEF HrInv, HrType, ChannelInOneSet
<1> QED
  BY <1>1, HrEarsStep, Zenon DEF HrInv, HrApprovalInv

\* Subscribing and unsubscribing move one channel and leave the rest of the reader alone.
LEMMA HrSubscribes ==
  ASSUME NEW r \in Readers, NEW e \in Ears
  PROVE  /\ SubscribeTo(e, r) \in Readers
         /\ SubscribeTo(e, r).on = r.on /\ SubscribeTo(e, r).behind = r.behind \cup {e}
         /\ SubscribeTo(e, r).last = r.last /\ SubscribeTo(e, r).pending = r.pending
         /\ SubscribeTo(e, r).read = r.read
<1> DEFINE behind == r.behind \cup {e}
           requires == r.requires + IF e = HrWaiter THEN 1 ELSE 0
<1>1. behind \in SUBSET Ears /\ requires \in Int
  BY DEF Readers
<1>2. SubscribeTo(e, r) = [r EXCEPT !.behind = behind, !.requires = requires]
  BY DEF SubscribeTo
<1> HIDE DEF behind, requires
<1>3. /\ SubscribeTo(e, r) \in Readers
      /\ SubscribeTo(e, r).on = r.on /\ SubscribeTo(e, r).behind = behind
      /\ SubscribeTo(e, r).last = r.last /\ SubscribeTo(e, r).pending = r.pending
      /\ SubscribeTo(e, r).read = r.read
  BY <1>1, <1>2, ZenonT(60) DEF Readers
<1> QED
  BY <1>3, Zenon DEF behind

\* A subscriber leaves the header reader.
LEMMA HrUnsubscribes ==
  ASSUME NEW r \in Readers, NEW e \in Ears
  PROVE  /\ UnsubscribeFrom(e, r) \in Readers
         /\ UnsubscribeFrom(e, r).on = r.on \ {e} /\ UnsubscribeFrom(e, r).behind = r.behind \ {e}
         /\ UnsubscribeFrom(e, r).last = r.last /\ UnsubscribeFrom(e, r).pending = r.pending
         /\ UnsubscribeFrom(e, r).read = r.read
<1> DEFINE on == r.on \ {e}
           behind == r.behind \ {e}
           requires == r.requires - IF e = HrWaiter THEN 1 ELSE 0
<1>1. on \in SUBSET Ears /\ behind \in SUBSET Ears /\ requires \in Int
  BY DEF Readers
<1>2. UnsubscribeFrom(e, r) = [r EXCEPT !.on = on, !.behind = behind, !.requires = requires]
  BY DEF UnsubscribeFrom
<1> HIDE DEF on, behind, requires
<1>3. /\ UnsubscribeFrom(e, r) \in Readers
      /\ UnsubscribeFrom(e, r).on = on /\ UnsubscribeFrom(e, r).behind = behind
      /\ UnsubscribeFrom(e, r).last = r.last /\ UnsubscribeFrom(e, r).pending = r.pending
      /\ UnsubscribeFrom(e, r).read = r.read
  BY <1>1, <1>2, ZenonT(60) DEF Readers
<1> QED
  BY <1>3 DEF on, behind

\* The return of WaitForTxApproval closes its channel, if that is still open.
LEMMA HrReturns ==
  ASSUME HrInv, NEW how \in {"done", "failed"}, ApprovalReturns(how),
         how = "done" => hrL1.tx > 0 /\ PastReceipt /\ SafeEnough, UNCHANGED <<hrL1, cache, safeAt, hrUse>>
  PROVE  HrInv'
<1>0. /\ ChannelInOneSet /\ hr \in Readers /\ ears \in [Ears -> EarStates] /\ HrWaiter \in Ears
      /\ hr.read <= hrL1.head
  BY Zenon DEF HrInv, HrType, Ears, HrCacheInv
<1>1. /\ approval' = how /\ hr' = UnsubscribeFrom(HrWaiter, hr)
      /\ ears' = [ears EXCEPT ![HrWaiter].open = FALSE, ![HrWaiter].ready = FALSE]
  BY Zenon DEF ApprovalReturns
<1>2. /\ hr' \in Readers /\ hr'.on = hr.on \ {HrWaiter} /\ hr'.behind = hr.behind \ {HrWaiter}
      /\ hr'.last = hr.last /\ hr'.pending = hr.pending /\ hr'.read = hr.read
  BY <1>0, <1>1, HrUnsubscribes, ZenonT(60)
<1>3. /\ ears' \in [Ears -> EarStates] /\ ~ears'[HrWaiter].open
      /\ \A f \in Ears \ {HrWaiter} : ears'[f].open = ears[f].open
  BY <1>0, <1>1, ZenonT(60) DEF EarStates
<1>4. ChannelInOneSet'
  BY <1>0, <1>2, <1>3, ZenonT(60) DEF ChannelInOneSet
<1>5. approval' \in Approvals /\ approval' # "none" /\ hr'.read <= hrL1.head
  BY <1>0, <1>1, <1>2, Zenon DEF Approvals
<1> QED
  BY <1>1, <1>2, <1>3, <1>4, <1>5, HrEarsStep, Zenon

\* Every step of the header reader and of its users keeps the invariant.
LEMMA HrStep == HrInv /\ [HrNext]_hrvars => HrInv'
<1> SUFFICES ASSUME HrInv, [HrNext]_hrvars PROVE HrInv'
  OBVIOUS
<1>0. /\ HrType /\ ChannelInOneSet /\ HrCacheInv /\ HrApprovalInv
      /\ hr \in Readers /\ ears \in [Ears -> EarStates] /\ hrL1 \in Chains /\ cache \in Caches
      /\ HrWaiter \in Ears
  BY Zenon DEF HrInv, HrType, Ears
<1>a. hrL1.head \in Nat /\ hr.read \in Nat /\ hr.read <= hrL1.head /\ hr.read \in 0 .. hrL1.head /\ 0 <= hrL1.head
  BY <1>0, HrAssumption, SMTT(60) DEF HrCacheInv, Chains, Readers
<1>1. CASE UNCHANGED hrvars
  BY <1>0, <1>1 DEF hrvars, HrInv, HrType, ChannelInOneSet, HrCacheInv, SafeHeaderOfHead, HrApprovalInv, SafeEnough
<1>2. CASE BroadcastPolled
  <2> DEFINE r == [hr EXCEPT !.pc = "subscribe", !.read = 0]
  <2>1. PossiblyBroadcast(hr.read, r) /\ UNCHANGED <<hrL1, cache, safeAt, approval, hrUse>>
    BY <1>2, Zenon DEF BroadcastPolled
  <2>2. r \in Readers /\ r.read = 0
    BY <1>0, Zenon DEF Readers
  <2> HIDE DEF r
  <2> QED
    BY <1>a, <2>1, <2>2, HrBroadcasts, Zenon
<1>3. CASE InputHeader
  <2>1. PICK h \in hr.sent + 1 .. hrL1.head : PossiblyBroadcast(h, [hr EXCEPT !.pc = "end", !.sent = h])
    BY <1>3, Zenon DEF InputHeader
  <2>2. h \in 0 .. hrL1.head /\ h \in Nat
    BY <1>0, HrAssumption DEF Chains, Readers
  <2> DEFINE r == [hr EXCEPT !.pc = "end", !.sent = h]
  <2>3. r \in Readers /\ r.read = hr.read /\ PossiblyBroadcast(h, r) /\ UNCHANGED <<hrL1, cache, safeAt, approval, hrUse>>
    BY <1>0, <1>3, <2>1, <2>2, Zenon DEF Readers, InputHeader
  <2> HIDE DEF r
  <2> QED
    BY <1>a, <2>2, <2>3, HrBroadcasts, Zenon
<1>4. CASE ApprovalAsks \/ ApprovalClosed \/ ApprovalTimesOut
  <2>1. UNCHANGED <<hrL1, cache, safeAt, hrUse>>
    BY <1>4, Zenon DEF ApprovalAsks, ApprovalClosed, ApprovalTimesOut
  <2>2. CASE ApprovalReturns("done") /\ hrL1.tx > 0 /\ PastReceipt /\ SafeEnough
    BY <2>1, <2>2, HrReturns, Zenon
  <2>3. CASE ApprovalReturns("failed")
    BY <2>1, <2>3, HrReturns, ZenonT(60)
  <2>4. CASE ApprovalWaits
    <3>1. approval' = "waits" /\ ears' = [ears EXCEPT ![HrWaiter].ready = TRUE] /\ hr' = hr
      BY <2>4, Zenon DEF ApprovalWaits
    <3>2. ears' \in [Ears -> EarStates] /\ \A e \in Ears : ears'[e].open = ears[e].open
      BY <1>0, <3>1, Zenon DEF EarStates
    <3>3. ChannelInOneSet' /\ approval' \in Approvals
      BY <1>0, <3>1, <3>2, ZenonT(60) DEF ChannelInOneSet, Approvals
    <3> QED
      BY <1>0, <1>a, <2>1, <3>1, <3>2, <3>3, HrEarsStep, SMTT(60)
  <2>5. CASE approval' = "sleeps" /\ UNCHANGED <<hr, ears>>
    <3>1. ChannelInOneSet' /\ approval' \in Approvals
      BY <1>0, <2>5, Zenon DEF ChannelInOneSet, Approvals
    <3> QED
      BY <1>0, <1>a, <2>1, <2>5, <3>1, HrEarsStep, SMTT(60)
  <2> QED
    BY <1>4, <2>2, <2>3, <2>4, <2>5, Zenon DEF ApprovalAsks, ApprovalClosed, ApprovalTimesOut
<1>5. ASSUME NEW e \in Ears, Listen(e) PROVE HrInv'
  <2>1. /\ ears' = [ears EXCEPT ![e].ready = TRUE] /\ hr' = hr /\ approval' = approval
        /\ UNCHANGED <<hrL1, cache, safeAt, hrUse>>
    BY <1>5, Zenon DEF Listen
  <2>2. ears' \in [Ears -> EarStates] /\ \A f \in Ears : ears'[f].open = ears[f].open
    BY <1>0, <2>1, Zenon DEF EarStates
  <2>3. ChannelInOneSet'
    BY <1>0, <2>1, <2>2, ZenonT(60) DEF ChannelInOneSet
  <2> QED
    BY <1>0, <1>a, <2>1, <2>2, <2>3, HrEarsStep, ZenonT(60) DEF HrType, HrApprovalInv
<1>6. CASE ChainMoves
  <2>1. /\ safeAt' = IF "cache" \in hrUse /\ hrL1'.head # hrL1.head THEN [safeAt EXCEPT ![hrL1'.head] = hrL1.safe] ELSE safeAt
        /\ UNCHANGED <<hr, ears, cache, approval, hrUse>>
    BY <1>6, Zenon DEF ChainMoves
  <2> DEFINE Moved == /\ hrL1' \in Chains /\ hrL1'.safe >= hrL1.safe /\ hrL1'.pending >= hrL1.pending
                      /\ hrL1'.head = hrL1.head \/ hrL1'.head = hrL1.head + 1
                      /\ hrL1.tx > 0 => hrL1'.tx = hrL1.tx
  <2>2. Moved
    <3>1. ASSUME NEW mined \in BOOLEAN, hrL1.head < HrMaxHead, mined => hrL1.tx = 0,
                 hrL1' = [hrL1 EXCEPT !.head = @ + 1, !.tx = IF mined THEN hrL1.head + 1 ELSE @]
          PROVE  Moved
      <4> DEFINE h == hrL1.head + 1
                 tx == IF mined THEN hrL1.head + 1 ELSE hrL1.tx
      <4>1. h \in 1 .. HrMaxHead /\ tx \in Nat /\ (hrL1.tx > 0 => tx = hrL1.tx)
        BY <1>0, <3>1, HrAssumption, SMTT(60) DEF Chains
      <4>2. hrL1' = [hrL1 EXCEPT !.head = h, !.tx = tx]
        BY <3>1
      <4> HIDE DEF tx, h
      <4>3. hrL1' \in Chains
        BY <1>0, <4>1, <4>2, Zenon DEF Chains
      <4>4. hrL1'.safe = hrL1.safe /\ hrL1'.pending = hrL1.pending /\ hrL1'.head = h /\ hrL1'.tx = tx
        BY <1>0, <4>2, SMTT(60) DEF Chains
      <4>5. hrL1.safe \in Nat /\ hrL1.pending \in Nat
        BY <1>0, SMTT(60) DEF Chains
      <4> QED
        BY <4>1, <4>3, <4>4, <4>5, SMTT(60) DEF h
    <3>2. CASE hrL1' = [hrL1 EXCEPT !.pending = @ + 1]
      BY <1>0, <3>2, HrAssumption, SMTT(60) DEF Chains
    <3>3. CASE hrL1' = [hrL1 EXCEPT !.safe = @ + 1]
      BY <1>0, <3>3, HrAssumption, SMTT(60) DEF Chains
    <3>4. \/ \E mined \in BOOLEAN :
               /\ hrL1.head < HrMaxHead /\ (mined => hrL1.tx = 0)
               /\ hrL1' = [hrL1 EXCEPT !.head = @ + 1, !.tx = IF mined THEN hrL1.head + 1 ELSE @]
          \/ hrL1' = [hrL1 EXCEPT !.pending = @ + 1]
          \/ hrL1' = [hrL1 EXCEPT !.safe = @ + 1]
      BY <1>6, Zenon DEF ChainMoves
    <3> HIDE DEF Moved
    <3> QED
      BY <3>1, <3>2, <3>3, <3>4, ZenonT(60)
  <2>3. /\ safeAt' \in [0 .. HrMaxHead -> Nat]
        /\ \A h \in 0 .. HrMaxHead : h <= hrL1.head => safeAt'[h] = safeAt[h]
        /\ \A h \in 0 .. HrMaxHead : safeAt'[h] \in {safeAt[h], hrL1.safe}
    <3> DEFINE h == hrL1'.head
               old == hrL1.head
               safe == hrL1.safe
    <3>1. h \in 1 .. HrMaxHead /\ old \in 1 .. HrMaxHead /\ safe \in Nat /\ (h = old \/ h = old + 1) /\ HrMaxHead \in Nat
      BY <1>0, <2>2, HrAssumption, Zenon DEF Chains
    <3>2. safeAt' = safeAt \/ (safeAt' = [safeAt EXCEPT ![h] = safe] /\ h # old)
      BY <2>1, Zenon
    <3>3. safeAt \in [0 .. HrMaxHead -> Nat]
      BY <1>0, Zenon DEF HrType
    <3> HIDE DEF h, old, safe
    <3>4. CASE safeAt' = [safeAt EXCEPT ![h] = safe] /\ h # old
      <4>1. h \in 0 .. HrMaxHead /\ \A k \in 0 .. HrMaxHead : k <= old => k # h
        BY <3>1, <3>4, SMTT(60)
      <4> QED
        BY <3>1, <3>3, <3>4, <4>1, Zenon DEF old, safe
    <3> QED
      BY <3>2, <3>3, <3>4, Zenon
  <2>4. HrType'
    BY <1>0, <2>1, <2>2, <2>3, SMTT(60) DEF HrType
  <2>5. ChannelInOneSet'
    BY <1>0, <2>1, Zenon DEF ChannelInOneSet
  <2>6. HrCacheInv'
    <3>1. \A h \in 0 .. HrMaxHead : safeAt'[h] <= hrL1'.safe
      BY SMTT(60), <1>0, <2>2, <2>3 DEF Chains, HrCacheInv, HrType
    <3>2. cache.head \in 0 .. HrMaxHead /\ cache.keptHead \in 0 .. HrMaxHead
      BY <1>0, HrAssumption DEF HrCacheInv, Caches, Chains
    <3>3. safeAt'[cache.head] = safeAt[cache.head] /\ safeAt'[cache.keptHead] = safeAt[cache.keptHead]
      BY <1>0, <2>3, <3>2, ZenonT(60) DEF HrCacheInv
    <3>4. hr.last <= hrL1'.head /\ hr.read <= hrL1'.head /\ cache.head <= hrL1'.head /\ cache.keptHead <= hrL1'.head
      BY <1>0, <2>2, SMTT(60) DEF HrCacheInv, Caches, Chains, Readers
    <3> QED
      BY <1>0, <2>1, <3>1, <3>3, <3>4, ZenonT(60) DEF HrCacheInv, SafeHeaderOfHead
  <2>7. HrApprovalInv'
    BY <1>0, <2>1, <2>2, SMTT(60) DEF HrApprovalInv, SafeEnough, Chains, Readers
  <2> QED
    BY <2>4, <2>5, <2>6, <2>7, ZenonT(60) DEF HrInv
<1>7. CASE PollHeader \/ SubscribeNewHead \/ LogIfHeaderIsOld \/ SubscriptionErr \/ StopReader
  <2>1. UNCHANGED <<hrL1, ears, cache, safeAt, approval, hrUse>>
    BY <1>7, Zenon DEF PollHeader, SubscribeNewHead, LogIfHeaderIsOld, SubscriptionErr, StopReader
  <2> DEFINE Kept == /\ hr' \in Readers /\ hr'.on = hr.on /\ hr'.behind = hr.behind
                     /\ hr'.last = hr.last /\ hr'.pending = hr.pending /\ hr'.read <= hrL1.head
  <2>2. ASSUME PollHeader PROVE Kept
    <3>1. \/ hr' = [hr EXCEPT !.pc = "polled", !.read = hrL1.head]
          \/ hr' = [hr EXCEPT !.pc = "subscribe", !.err = TRUE]
      BY <2>2, Zenon DEF PollHeader
    <3>2. hrL1.head <= hrL1.head
      BY <1>a
    <3>3. CASE hr' = [hr EXCEPT !.pc = "polled", !.read = hrL1.head]
      BY <1>0, <1>a, <3>2, <3>3, Zenon DEF Readers
    <3>4. CASE hr' = [hr EXCEPT !.pc = "subscribe", !.err = TRUE]
      BY <1>0, <1>a, <3>4, Zenon DEF Readers
    <3> QED
      BY <3>1, <3>3, <3>4, ZenonT(60)
  <2>3. ASSUME SubscribeNewHead \/ LogIfHeaderIsOld PROVE Kept
    <3>1. PICK err \in BOOLEAN :
            \/ hr' = [hr EXCEPT !.pc = "select", !.err = err]
            \/ hr' = [hr EXCEPT !.pc = "select", !.err = err, !.subscribed = TRUE, !.sent = hrL1.head]
            \/ hr' = [hr EXCEPT !.pc = "select", !.err = err, !.pollOnly = TRUE]
      <4>1. CASE LogIfHeaderIsOld
        <5>1. PICK old \in BOOLEAN : hr' = [hr EXCEPT !.pc = "select", !.err = @ \/ old]
          BY <4>1, ZenonT(60) DEF LogIfHeaderIsOld, HeaderIsOld
        <5> QED
          BY <5>1, Zenon
      <4>2. CASE SubscribeNewHead
        <5>1. PICK old \in BOOLEAN, told \in BOOLEAN :
                 \/ hr' = [hr EXCEPT !.pc = "select", !.err = @ \/ old]
                 \/ hr' = [hr EXCEPT !.pc = "select", !.err = @ \/ old, !.subscribed = TRUE, !.sent = hrL1.head]
                 \/ hr' = [hr EXCEPT !.pc = "select", !.err = @ \/ old, !.pollOnly = TRUE]
                 \/ hr' = [hr EXCEPT !.pc = "select", !.err = @ \/ old \/ told]
          BY <4>2, Zenon DEF SubscribeNewHead, HeaderIsOld
        <5> QED
          BY <5>1, Zenon
      <4> QED
        BY <2>3, <4>1, <4>2, ZenonT(60)
    <3>2. CASE hr' = [hr EXCEPT !.pc = "select", !.err = err]
      BY <1>0, <1>a, <3>2, Zenon DEF Readers
    <3>3. CASE hr' = [hr EXCEPT !.pc = "select", !.err = err, !.subscribed = TRUE, !.sent = hrL1.head]
      BY <1>0, <1>a, <3>3, Zenon DEF Readers
    <3>4. CASE hr' = [hr EXCEPT !.pc = "select", !.err = err, !.pollOnly = TRUE]
      BY <1>0, <1>a, <3>4, Zenon DEF Readers
    <3> QED
      BY <3>1, <3>2, <3>3, <3>4, ZenonT(60)
  <2>4. ASSUME SubscriptionErr \/ StopReader PROVE Kept
    <3>1. PICK pc \in {hr.pc, "exited"} : hr' = [hr EXCEPT !.pc = pc, !.err = TRUE, !.subscribed = FALSE, !.sent = 0]
      BY <1>0, <2>4, ZenonT(60) DEF SubscriptionErr, StopReader, Readers
    <3>2. 0 \in Nat
      OBVIOUS
    <3> QED
      BY <1>0, <1>a, <3>1, <3>2, ZenonT(60) DEF Readers
  <2>5. Kept
    BY <1>7, <2>2, <2>3, <2>4
  <2> QED
    BY <2>1, <2>5, HrLoopStep, Zenon
<1>8. CASE CloseAll
  <2>1. /\ hr' = [hr EXCEPT !.pc = "closed", !.on = {}, !.behind = {}, !.requires = 0]
        /\ ears' = [e \in Ears |-> [ears[e] EXCEPT !.open = FALSE]]
        /\ UNCHANGED <<hrL1, cache, safeAt, approval, hrUse>>
    BY <1>8, Zenon DEF CloseAll
  <2>2. /\ hr' \in Readers /\ hr'.on = {} /\ hr'.behind = {}
        /\ hr'.last = hr.last /\ hr'.pending = hr.pending /\ hr'.read = hr.read
    <3>1. {} \in SUBSET Ears /\ 0 \in Int
      OBVIOUS
    <3> QED
      BY <1>0, <2>1, <3>1, Zenon DEF Readers
  <2>3. ears' \in [Ears -> EarStates] /\ \A e \in Ears : ~ears'[e].open
    BY <1>0, <2>1, Zenon DEF EarStates
  <2>4. ChannelInOneSet'
    BY <2>2, <2>3, Zenon DEF ChannelInOneSet
  <2> QED
    BY <1>0, <1>a, <2>1, <2>2, <2>3, <2>4, HrEarsStep, Zenon DEF HrType, HrApprovalInv
<1>9. ASSUME NEW e \in Ears, Subscribe(e) PROVE HrInv'
  <2>1. /\ ~ears[e].open /\ e # HrWaiter /\ approval' = approval /\ hr' = SubscribeTo(e, hr)
        /\ ears' = [ears EXCEPT ![e] = [open |-> TRUE, ready |-> FALSE, got |-> 0]]
        /\ UNCHANGED <<hrL1, cache, safeAt, hrUse>>
    BY <1>9, HrAssumption, Zenon DEF Subscribe
  <2>2. /\ hr' \in Readers /\ hr'.on = hr.on /\ hr'.behind = hr.behind \cup {e}
        /\ hr'.last = hr.last /\ hr'.pending = hr.pending /\ hr'.read = hr.read
    BY <1>0, <2>1, HrSubscribes, ZenonT(60)
  <2>3. ears' \in [Ears -> EarStates]
    BY <1>0, <2>1, ZenonT(60) DEF EarStates
  <2>4. ChannelInOneSet'
    BY <1>0, <2>1, <2>2, SMTT(60) DEF ChannelInOneSet, EarStates
  <2>5. approval' = "none" => ~ears'[HrWaiter].open
    BY <1>0, <2>1, Zenon DEF HrApprovalInv
  <2> QED
    BY <1>0, <1>a, <2>1, <2>2, <2>3, <2>4, <2>5, HrEarsStep, ZenonT(60) DEF HrType, HrApprovalInv
<1>10. ASSUME NEW e \in Ears, Unsubscribe(e) PROVE HrInv'
  <2>1. /\ approval' = approval /\ hr' = UnsubscribeFrom(e, hr)
        /\ ears' = [ears EXCEPT ![e].open = FALSE] /\ UNCHANGED <<hrL1, cache, safeAt, hrUse>>
    BY <1>10 DEF Unsubscribe
  <2>2. /\ hr' \in Readers /\ hr'.on = hr.on \ {e} /\ hr'.behind = hr.behind \ {e}
        /\ hr'.last = hr.last /\ hr'.pending = hr.pending /\ hr'.read = hr.read
    BY <1>0, <2>1, HrUnsubscribes, Zenon
  <2>3. /\ ears' \in [Ears -> EarStates] /\ ~ears'[e].open
        /\ \A f \in Ears \ {e} : ears'[f].open = ears[f].open
    BY <1>0, <2>1, Zenon DEF EarStates
  <2>4. ChannelInOneSet'
    BY <1>0, <2>2, <2>3, ZenonT(60) DEF ChannelInOneSet
  <2>5. approval' = "none" => ~ears'[HrWaiter].open
    BY <1>0, <2>1, <2>3, Zenon DEF HrApprovalInv
  <2> QED
    BY <1>0, <1>a, <2>1, <2>2, <2>3, <2>4, <2>5, HrEarsStep, ZenonT(60) DEF HrType, HrApprovalInv
<1>11. CASE ApprovalStarts
  <2>1. /\ approval = "none" /\ approval' = "asks" /\ hr' = SubscribeTo(HrWaiter, hr)
        /\ ears' = [ears EXCEPT ![HrWaiter].open = TRUE] /\ UNCHANGED <<hrL1, cache, safeAt, hrUse>>
    BY <1>11 DEF ApprovalStarts
  <2>2. /\ hr' \in Readers /\ hr'.on = hr.on /\ hr'.behind = hr.behind \cup {HrWaiter}
        /\ hr'.last = hr.last /\ hr'.pending = hr.pending /\ hr'.read = hr.read
    BY <1>0, <2>1, HrSubscribes, SMTT(60)
  <2>3. /\ ears' \in [Ears -> EarStates] /\ ears'[HrWaiter].open
        /\ \A f \in Ears \ {HrWaiter} : ears'[f].open = ears[f].open
    BY <1>0, <2>1, ZenonT(60) DEF EarStates
  <2>4. ChannelInOneSet'
    BY <1>0, <2>1, <2>2, <2>3, SMTT(60) DEF ChannelInOneSet, HrApprovalInv
  <2>5. approval' \in Approvals /\ approval' # "none" /\ approval' # "done"
    BY <2>1, ZenonT(60) DEF Approvals
  <2> QED
    BY <1>a, <2>1, <2>2, <2>3, <2>4, <2>5, HrEarsStep, ZenonT(60)
<1>12. CASE GetCached \/ CacheReads \/ CacheKeeps
  <2>1. UNCHANGED <<hrL1, hr, ears, safeAt, approval, hrUse>>
    BY <1>12, Zenon DEF GetCached, CacheReads, CacheKeeps
  <2>2. LastHeader \in Nat /\ LastHeader <= hrL1.head
    BY <1>0, HrAssumption, SMTT(60) DEF LastHeader, HrCacheInv, Readers, Chains
  <2>3. cache.head \in 0 .. HrMaxHead
    BY <1>0, HrAssumption DEF HrCacheInv, Caches, Chains
  <2>4. cache' \in Caches
    BY <1>0, <1>12, <2>2, ZenonT(60) DEF GetCached, CacheReads, CacheKeeps, FiledUnder, Caches, Chains
  <2>5. HrCacheInv'
    BY <1>0, <1>12, <2>1, <2>2, <2>3, ZenonT(60) DEF GetCached, CacheReads, CacheKeeps, FiledUnder, HrCacheInv, SafeHeaderOfHead, Caches
  <2> QED
    BY <1>0, <2>1, <2>4, <2>5, SMTT(60) DEF HrInv, HrType, ChannelInOneSet, HrApprovalInv, SafeEnough
<1>13. CASE ApprovalWakes
  <2>1. approval' = "asks" /\ UNCHANGED <<hrL1, hr, ears, cache, safeAt, hrUse>>
    BY <1>13, Zenon DEF ApprovalWakes
  <2>2. ChannelInOneSet' /\ approval' \in Approvals
    BY <1>0, <2>1, Zenon DEF ChannelInOneSet, Approvals
  <2> QED
    BY <1>0, <1>a, <2>1, <2>2, HrEarsStep, SMTT(60)
<1> QED
  BY <1>1, <1>2, <1>3, <1>4, <1>5, <1>6, <1>7, <1>8, <1>9, <1>10, <1>11, <1>12, <1>13, ZenonT(60) DEF HrNext, HrLoop, HrApproval

\* A listener's channel is in exactly one of the reader's sets while it is open, a safe header is
\* kept under a head it is not older than, and an approved transaction is visible to pending
\* calls, whatever the chain, the subscription and the listeners do (Subscribe, getCached,
\* WaitForTxApproval).
THEOREM HeadersAreSound == HrSpec => []HeadersSound
<1>1. HrInit => HrInv
  BY HrAssumption, SMTT(60)
  DEF HrInit, HrInv, HrType, Chains, Readers, EarStates, Caches, ChannelInOneSet, HrCacheInv, SafeHeaderOfHead,
      HrApprovalInv, Approvals, Ears
<1>2. HrInv => HeadersSound
  BY SMTT(60) DEF HrInv, HeadersSound, HrApprovalInv, HrCacheInv, ApprovedIsVisible
<1> QED
  BY <1>1, <1>2, HrStep, PTL DEF HrSpec
-----------------------------------------------------------------------------
(* The threads of a component.                                             *)

SwRunning == {t \in SwThreads : thr[t] \in {"runs", "blocked"}}

\* The wait group counts the threads that run, and whoever waits has stopped the component.
SwInv ==
  /\ thr \in [SwThreads -> {"idle", "asks", "made", "context", "checked", "runs", "blocked", "ended", "refused", "dropped"}]
  /\ stopper \in [SwStoppers -> {"idle", "waits", "waited", "returned"}]
  /\ DOMAIN sw = {"started", "stopped", "cancelled"}
  /\ wg = Cardinality(SwRunning)
  /\ \A s \in SwStoppers : stopper[s] \in {"waits", "waited"} => sw.stopped
  /\ WaitedMeansEnded

\* A launch that moves without running changes neither the count nor who runs.
LEMMA SwNotRunning ==
  ASSUME SwInv, NEW t \in SwThreads, thr[t] \notin {"runs", "blocked"},
         NEW to \in {"asks", "made", "context", "checked", "refused", "dropped"},
         thr' = [thr EXCEPT ![t] = to], UNCHANGED <<sw, wg, launchedLate, stopper>>
  PROVE  SwInv'
<1>1. SwRunning' = SwRunning
  BY Zenon DEF SwInv, SwRunning
<1> QED
  BY <1>1 DEF SwInv, WaitedMeansEnded

\* Every step of the component's threads and stoppers keeps the invariant.
LEMMA SwStep == SwInv /\ [SwNext]_swvars => SwInv'
<1> SUFFICES ASSUME SwInv, [SwNext]_swvars PROVE SwInv'
  OBVIOUS
<1>0. IsFiniteSet(SwRunning) /\ Cardinality(SwRunning) \in Nat
  BY SwAssumption, FS_Subset, FS_CardinalityType, Zenon DEF SwRunning
<1>1. CASE UNCHANGED swvars
  BY <1>1, Zenon DEF SwInv, SwRunning, WaitedMeansEnded, swvars
<1>2. CASE StartWaiter \/ ParentCancelled
  <2>1. sw'.stopped = sw.stopped /\ DOMAIN sw' = DOMAIN sw /\ UNCHANGED <<wg, thr, launchedLate, stopper>>
    BY <1>2, Zenon DEF StartWaiter, ParentCancelled, SwInv
  <2> QED
    BY <2>1, Zenon DEF SwInv, SwRunning, WaitedMeansEnded
<1>3. ASSUME NEW t \in SwThreads,
             PromiseContext(t) \/ PromiseStopped(t) \/ LaunchContext(t) \/ LaunchStopped(t)
      PROVE  SwInv'
  BY <1>3, SwNotRunning, Zenon DEF PromiseContext, PromiseStopped, LaunchContext, LaunchStopped
<1>4. ASSUME NEW t \in SwThreads, LaunchThread(t) PROVE SwInv'
  <2>1. SwRunning' = SwRunning \cup {t} /\ t \notin SwRunning
    BY <1>4, Zenon DEF LaunchThread, SwInv, SwRunning
  <2>2. wg' = Cardinality(SwRunning')
    BY <1>0, <1>4, <2>1, FS_AddElement, Zenon DEF LaunchThread, Joined, SwInv
  <2>3. WaitedMeansEnded'
    BY <1>4, Zenon DEF LaunchThread, SwInv, WaitedMeansEnded
  <2> QED
    BY <1>4, <2>2, <2>3, Zenon DEF LaunchThread, SwInv
<1>5. ASSUME NEW t \in SwThreads, ThreadEnds(t) PROVE SwInv'
  <2>1. SwRunning' = SwRunning \ {t} /\ t \in SwRunning
    BY <1>5, Zenon DEF ThreadEnds, SwInv, SwRunning
  <2>2. wg' = Cardinality(SwRunning')
    BY <1>0, <1>5, <2>1, FS_RemoveElement, Zenon DEF ThreadEnds, Left, SwInv
  <2> QED
    BY <1>5, <2>2, Zenon DEF ThreadEnds, SwInv, WaitedMeansEnded
<1>6. ASSUME NEW t \in SwThreads, LimiterBlocks(t) PROVE SwInv'
  <2>1. SwRunning' = SwRunning
    BY <1>6, Zenon DEF LimiterBlocks, SwInv, SwRunning
  <2> QED
    BY <1>6, <2>1, Zenon DEF LimiterBlocks, SwInv, WaitedMeansEnded
<1>7. ASSUME NEW s \in SwStoppers, StopAndWait(s) PROVE SwInv'
  <2>1. sw'.stopped /\ DOMAIN sw' = DOMAIN sw /\ UNCHANGED <<wg, thr, launchedLate>>
    BY <1>7, Zenon DEF StopAndWait, SwInv
  <2>2. PICK to \in {"waits", "returned"} : stopper' = [stopper EXCEPT ![s] = to]
    BY <1>7, Zenon DEF StopAndWait
  <2>3. \A x \in SwStoppers : stopper'[x] = "waited" => stopper[x] = "waited"
    BY <2>2, Zenon DEF SwInv
  <2> QED
    BY <2>1, <2>2, <2>3, Zenon DEF SwInv, SwRunning, WaitedMeansEnded
<1>8. ASSUME NEW s \in SwStoppers, Waited(s) PROVE SwInv'
  <2>1. SwRunning = {}
    BY <1>0, <1>8, FS_EmptySet, Zenon DEF Waited, SwInv
  <2> QED
    BY <1>8, <2>1, Zenon DEF Waited, SwInv, SwRunning, WaitedMeansEnded
<1> QED
  BY <1>1, <1>2, <1>3, <1>4, <1>5, <1>6, <1>7, <1>8, ZenonT(60) DEF SwNext, SwSteps, SwLaunch

\* Once the call that stopped a component has waited, the only threads that run are launches that
\* had passed their look at stopped before the stop, for any number of threads and stoppers
\* (LaunchThreadSafe, stopAndWaitImpl).
THEOREM WaitingEndsThreads == SwSpec => []WaitedMeansEnded
<1>1. SwInit => SwInv
  <2> SUFFICES ASSUME SwInit PROVE SwInv
    OBVIOUS
  <2>1. SwRunning = {}
    BY Zenon DEF SwInit, SwRunning
  <2> QED
    BY <2>1, FS_EmptySet, Zenon DEF SwInit, SwInv, WaitedMeansEnded
<1>2. SwInv => WaitedMeansEnded
  BY Zenon DEF SwInv
<1> QED
  BY <1>1, <1>2, SwStep, PTL DEF SwSpec
-----------------------------------------------------------------------------
(* The start and the stop of the node.                                     *)

\* The steps of Start and of StopAndWait, spelled out.
LEMMA StartSteps ==
  /\ Len(StartOrder) = 26
  /\ StartOrder[1] = "valNode" /\ StartOrder[2] = "backend" /\ StartOrder[3] = "stack"
  /\ StartOrder[4] = "engine" /\ StartOrder[5] = "publisher" /\ StartOrder[6] = "parentReader"
  /\ StartOrder[7] = "initialize" /\ StartOrder[8] = "backlog" /\ StartOrder[9] = "streamer"
  /\ StartOrder[10] = "inboxReader" /\ StartOrder[11] = "broadcastServer" /\ StartOrder[12] = "coordinator"
  /\ StartOrder[13] = "sequencing" /\ StartOrder[14] = "maintenance" /\ StartOrder[15] = "delayedSequencer"
  /\ StartOrder[16] = "batchPoster" /\ StartOrder[17] = "pruner" /\ StartOrder[18] = "stakerInit"
  /\ StartOrder[19] = "stateless" /\ StartOrder[20] = "blockValidator" /\ StartOrder[21] = "staker"
  /\ StartOrder[22] = "l1Reader" /\ StartOrder[23] = "feedThread" /\ StartOrder[24] = "config"
  /\ StartOrder[25] = "syncMonitor" /\ StartOrder[26] = "reexecutor"
BY Zenon DEF StartOrder

\* The start of a node has 26 steps.
LEMMA StartLength == Len(StartOrder) = 26
BY StartSteps, Zenon

\* The order in which Node.StopAndWait stops the parts, place by place.
LEMMA StopSteps ==
  /\ Len(StopOrder) = 27
  /\ StopOrder[1] = "maintenance" /\ StopOrder[2] = "config" /\ StopOrder[3] = "handoff"
  /\ StopOrder[4] = "rpc" /\ StopOrder[5] = "delayedSequencer" /\ StopOrder[6] = "batchPoster"
  /\ StopOrder[7] = "pruner" /\ StopOrder[8] = "broadcastServer" /\ StopOrder[9] = "feedClients"
  /\ StopOrder[10] = "blockValidator" /\ StopOrder[11] = "staker" /\ StopOrder[12] = "stateless"
  /\ StopOrder[13] = "inboxReader" /\ StopOrder[14] = "l1Reader" /\ StopOrder[15] = "streamer"
  /\ StopOrder[16] = "coordinator" /\ StopOrder[17] = "syncMonitor" /\ StopOrder[18] = "das"
  /\ StopOrder[19] = "publisher" /\ StopOrder[20] = "recorder" /\ StopOrder[21] = "parentReader"
  /\ StopOrder[22] = "engine" /\ StopOrder[23] = "blockchain" /\ StopOrder[24] = "backend"
  /\ StopOrder[25] = "stack" /\ StopOrder[26] = "databases" /\ StopOrder[27] = "reexecutor"
BY Zenon DEF StopOrder

\* No part is stopped twice.
LEMMA StopsOnce == \A i, j \in 1 .. 27 : StopOrder[i] = StopOrder[j] => i = j
BY StopSteps

\* The parts that may run: what the main program and Start begin, and what no step of
\* stopping is named after.
Unlisted == {"sequencing", "router", "secondary", "clientManager", "valNode"}
LcUpParts == {StopOrder[i] : i \in 1 .. 27} \cup Unlisted

\* The states of the main program.
Programs == [pc : {"start", "run", "stop", "stopped"}, at : 1 .. 27, defers : {"chain", "node"},
             failed : {StartOrder[i] : i \in 1 .. 26} \cup {"none"}, dropped : BOOLEAN]

\* The steps of stopping that are done.
StopAt == IF lc.pc = "stopped" THEN 28 ELSE IF lc.pc = "stop" THEN lc.at ELSE 1

\* What may run if Start did not come to the engine.
EarlyParts == {"valNode", "das", "recorder", "databases", "blockchain", "backend", "stack", "rpc", "reexecutor"}

LeftInv ==
  /\ up \cap {"router", "secondary"} # {} => lateFeeds = "ended"
  /\ "clientManager" \in up => lc.failed = "broadcastServer"

LcInv ==
  /\ lc \in Programs /\ (lc.pc = "start" => lc.at <= 26)
  /\ up \subseteq LcUpParts /\ gone \subseteq LcUpParts \ Unlisted
  /\ gone \cap up = {}
  \* Gone is exactly what the steps so far have stopped.
  /\ \A i \in 1 .. 27 : StopOrder[i] \in gone <=> i < StopAt /\ Stops(StopOrder[i])
  /\ "publisher" \in gone => "sequencing" \notin up
  /\ lc.pc = "run" => lc.at = 1
  \* What is not named in StopAndWait runs for a reason.
  /\ LeftInv
  /\ lc.pc = "start" /\ lc.at \in 1 .. 23 => lateFeeds = "none"
  /\ lc.pc = "start" /\ lc.at \in 1 .. 25 => lc.failed = "none"
  \* The node was not started, Start came no further than the stack, or it reached the engine.
  /\ lc.pc = "start" /\ lc.at \in 2 .. 25 => lc.defers = "node"
  /\ lc.defers = "chain" => "engine" \notin ready /\ up \cap {"backend", "stack", "rpc"} = {}
  /\ "engine" \notin ready => up \subseteq EarlyParts /\ lateFeeds = "none"
  /\ lc.pc = "start" /\ lc.at \in 5 .. 25 => "engine" \in ready
  \* The feed server and its backlog come before what sequences.
  /\ lc.pc = "start" /\ lc.at \in 9 .. 25 /\ {"broadcastServer", "inboxReader"} \subseteq lcParts => "backlog" \in ready
  /\ lc.pc = "start" /\ lc.at \in 12 .. 25 /\ "broadcastServer" \in lcParts => "broadcastServer" \in up
  /\ SequencesAfterFeed

\* What a failed step leaves.
LEMMA HalfOf ==
  ASSUME NEW step, NEW half \in HalfStarted(step)
  PROVE  /\ half \in {{}, {step}, {"clientManager"}} /\ ("clientManager" \in half => step = "broadcastServer")
         /\ step = "valNode" => half \subseteq {"valNode"}
         /\ step = "backend" => half \subseteq {"backend"}
         /\ half # {} => step \in {"publisher", "streamer", "inboxReader", "stateless", "broadcastServer", "valNode", "backend"}
         /\ step = "broadcastServer" => half = {"clientManager"}
<1>1. CASE step \in {"publisher", "streamer", "inboxReader", "stateless"}
  <2>1. half = {step} /\ step \notin {"clientManager", "valNode", "backend", "broadcastServer"}
    BY <1>1, SMTT(60) DEF HalfStarted
  <2> QED
    BY <1>1, <2>1, Zenon
<1>2. CASE step = "broadcastServer"
  <2>1. half = {"clientManager"}
    BY <1>2, SMTT(60) DEF HalfStarted
  <2> QED
    BY <1>2, <2>1, Zenon
<1>3. CASE step \in {"valNode", "backend"}
  <2>1. half \in {{}, {step}}
    BY <1>3, SMTT(60) DEF HalfStarted
  <2> QED
    BY <1>3, <2>1, Zenon
<1>4. CASE step \notin {"publisher", "streamer", "inboxReader", "stateless", "broadcastServer", "valNode", "backend"}
  <2>1. half = {}
    BY <1>4, SMTT(60) DEF HalfStarted
  <2> QED
    BY <1>4, <2>1, Zenon
<1> QED
  BY <1>1, <1>2, <1>3, <1>4, Zenon

\* A step of Start, taken or not, keeps the invariant; the steps are told apart by what the
\* invariant says of their place.
LEMMA LcStartStep == LcInv /\ StartStep => LcInv'
<1> SUFFICES ASSUME LcInv, StartStep PROVE LcInv'
  BY SMTT(60)
<1> DEFINE step == StartOrder[lc.at]
<1>1. /\ lc.pc = "start" /\ lc.at \in 1 .. 26 /\ UNCHANGED <<lcParts, gone>> /\ gone = {} /\ lc \in Programs
      /\ lc' = IF lc.at = 26 THEN [lc EXCEPT !.pc = "run", !.at = 1] ELSE [lc EXCEPT !.at = lc.at + 1, !.defers = "node"]
  <2>1. /\ lc.pc = "start" /\ lc \in Programs /\ lc.at <= 26
        /\ UNCHANGED <<lcParts, gone>> /\ lc' = AfterStart(lc.at)
    BY ZenonT(60) DEF StartStep, LcInv
  <2>2. \A i \in 1 .. 27 : StopOrder[i] \notin gone
    BY <2>1, SMTT(60) DEF LcInv, StopAt
  <2>3. lc.at \in 1 .. 26
    BY <2>1 DEF Programs
  <2>4. gone = {}
    BY <2>2, ZenonT(60) DEF LcInv, LcUpParts
  <2> QED
    BY <2>1, <2>3, <2>4, StartLength, ZenonT(60) DEF AfterStart
<1>2. /\ Has(step) => up' = up \cup Begins(step) /\ ready' = ready \cup {step}
      /\ ~Has(step) => UNCHANGED <<up, ready>>
      /\ lateFeeds' = IF Has(step) /\ step = "feedThread" THEN "waits" ELSE lateFeeds
  BY Zenon DEF StartStep
<1>a. /\ lc' \in Programs /\ lc'.pc \in {"start", "run"} /\ (lc'.pc = "start" <=> lc.at # 26)
      /\ (lc'.pc = "run" => lc'.at = 1)
      /\ (lc'.pc = "start" => lc'.at = lc.at + 1 /\ lc'.defers = "node") /\ (lc'.pc = "run" => lc'.defers = lc.defers)
      /\ lc'.failed = lc.failed
  <2>1. (lc.at # 26 => lc.at + 1 \in 1 .. 27) /\ 1 \in 1 .. 27
    BY <1>1
  <2>2. CASE lc.at = 26
    BY <1>1, <2>1, <2>2, Zenon DEF Programs
  <2>3. CASE lc.at # 26
    BY <1>1, <2>1, <2>3, Zenon DEF Programs
  <2> QED
    BY <2>2, <2>3, Zenon
<1>3. up' \subseteq LcUpParts
  <2>1. Begins(step) \subseteq LcUpParts
    <3>1. CASE lc.at \in {1, 13}
      BY <3>1, StartSteps, SMTT(60) DEF Begins, LcUpParts, Unlisted
    <3>2. CASE lc.at \notin {1, 13}
      <4>1. Begins(step) \subseteq {StopOrder[i] : i \in 1 .. 27}
        BY <1>1, <3>2, StartSteps, StopSteps, SMTT(60) DEF Begins
      <4> QED
        BY <4>1, Zenon DEF LcUpParts
    <3> QED
      BY <3>1, <3>2, Zenon
  <2> QED
    BY <1>2, <2>1, Zenon DEF LcInv
<1>4. StopAt' = 1 /\ (lc'.pc = "start" => lc'.at <= 26)
  BY <1>1, <1>a, SMTT(60) DEF StopAt
<1>5. \A i \in 1 .. 27 : ~(i < StopAt')
  BY <1>4, SMTT(60)
<1>6. "engine" \notin ready' => up' \subseteq EarlyParts /\ lateFeeds' = "none"
  <2>1. CASE lc.at \in 5 .. 25
    BY <1>1, <1>2, <2>1, ZenonT(60) DEF LcInv
  <2>2. CASE lc.at = 4
    BY <1>2, <2>2, StartSteps, SMTT(60) DEF Has, LcOptional
  <2>3. CASE lc.at \in {1, 2, 3, 26}
    <3>1. Begins(step) \subseteq EarlyParts /\ step # "feedThread"
      BY <2>3, StartSteps, SMTT(60) DEF Begins, EarlyParts
    <3> QED
      BY <1>2, <3>1, ZenonT(60) DEF LcInv
  <2> QED
    BY <1>1, <2>1, <2>2, <2>3, SMTT(60)
<1>b. /\ lc'.pc = "start" /\ lc'.at \in 2 .. 25 => lc'.defers = "node"
      /\ lc'.defers = "chain" => "engine" \notin ready' /\ up' \cap {"backend", "stack", "rpc"} = {}
  <2>1. CASE lc.at = 26
    <3>1. Begins(step) \cap {"backend", "stack", "rpc"} = {} /\ step # "engine"
      BY <2>1, StartSteps, SMTT(60) DEF Begins
    <3> QED
      BY <1>2, <1>a, <2>1, <3>1, ZenonT(60) DEF LcInv
  <2> QED
    BY <1>a, <2>1, Zenon DEF Programs
<1>7. lc'.pc = "start" /\ lc'.at \in 5 .. 25 => "engine" \in ready'
  <2>1. CASE lc.at \in 5 .. 25
    BY <1>1, <1>2, <2>1, ZenonT(60) DEF LcInv
  <2>2. CASE lc.at = 4
    BY <1>2, <2>2, StartSteps, SMTT(60) DEF Has, LcOptional
  <2> QED
    BY <1>1, <1>a, <2>1, <2>2, SMTT(60)
<1>8. lc'.pc = "start" /\ lc'.at \in 9 .. 25 /\ {"broadcastServer", "inboxReader"} \subseteq lcParts'
        => "backlog" \in ready'
  <2>1. CASE lc.at \in 9 .. 25
    BY <1>1, <1>2, <2>1, ZenonT(60) DEF LcInv
  <2>2. CASE lc.at = 8
    BY <1>1, <1>2, <2>2, StartSteps, SMTT(60) DEF Has, LcOptional
  <2> QED
    BY <1>1, <1>a, <2>1, <2>2, SMTT(60)
<1>9. lc'.pc = "start" /\ lc'.at \in 12 .. 25 /\ "broadcastServer" \in lcParts' => "broadcastServer" \in up'
  <2>1. CASE lc.at \in 12 .. 25
    BY <1>1, <1>2, <2>1, ZenonT(60) DEF LcInv
  <2>2. CASE lc.at = 11
    BY <1>1, <1>2, <2>2, StartSteps, SMTT(60) DEF Has, LcOptional, Begins
  <2> QED
    BY <1>1, <1>a, <2>1, <2>2, SMTT(60)
<1>10. SequencesAfterFeed'
  <2> SUFFICES ASSUME "broadcastServer" \in lcParts
               PROVE  /\ up' \cap {"coordinator", "sequencing"} # {} => "broadcastServer" \in up'
                      /\ "broadcastServer" \in up' /\ "inboxReader" \in lcParts => "backlog" \in ready'
    BY <1>1, ZenonT(60) DEF SequencesAfterFeed
  <2>1. CASE lc.at \in {12, 13}
    BY <1>1, <1>2, <2>1, SMTT(60) DEF LcInv, SequencesAfterFeed
  <2>2. CASE lc.at = 11
    BY <1>1, <1>2, <2>2, StartSteps, SMTT(60) DEF LcInv, SequencesAfterFeed, Begins
  <2>3. CASE lc.at \notin {11, 12, 13}
    <3>1. Begins(step) \cap {"broadcastServer", "coordinator", "sequencing"} = {}
      BY <1>1, <2>3, StartSteps, SMTT(60) DEF Begins
    <3> QED
      BY <1>1, <1>2, <3>1, ZenonT(60) DEF LcInv, SequencesAfterFeed
  <2> QED
    BY <2>1, <2>2, <2>3, ZenonT(60)
<1>11. gone' \subseteq LcUpParts \ Unlisted /\ gone' \cap up' = {}
       /\ "publisher" \notin gone' /\ \A i \in 1 .. 27 : StopOrder[i] \notin gone'
  BY <1>1, Zenon
<1>12. LeftInv'
  <2>1. Begins(step) \cap {"router", "secondary", "clientManager"} = {}
    BY <1>1, StartSteps, SMTT(60) DEF Begins
  <2>2. up' \cap {"router", "secondary", "clientManager"} \subseteq up
    BY <1>2, <2>1, Zenon
  <2>3. CASE lc.at = 23
    <3>1. lateFeeds = "none"
      BY <1>1, <2>3, SMTT(60) DEF LcInv
    <3>2. up \cap {"router", "secondary"} = {}
      BY <3>1, Zenon DEF LcInv, LeftInv
    <3> QED
      BY <1>a, <2>2, <3>2, Zenon DEF LcInv, LeftInv
  <2>4. CASE lc.at # 23
    <3>1. step # "feedThread"
      BY <1>1, <2>4, StartSteps, SMTT(60)
    <3>2. lateFeeds' = lateFeeds
      BY <1>2, <3>1, Zenon
    <3> QED
      BY <1>a, <2>2, <3>2, Zenon DEF LcInv, LeftInv
  <2> QED
    BY <2>3, <2>4, Zenon
<1>13. lc'.pc = "start" /\ lc'.at \in 1 .. 23 => lateFeeds' = "none"
  <2> SUFFICES ASSUME lc'.pc = "start", lc'.at \in 1 .. 23 PROVE lateFeeds' = "none"
    BY Zenon
  <2>1. lc.at \in 1 .. 22
    BY <1>1, <1>a, SMTT(60)
  <2>2. step # "feedThread" /\ lc.at \in 1 .. 23
    BY <2>1, StartSteps, SMTT(60)
  <2> QED
    BY <1>1, <1>2, <2>2, Zenon DEF LcInv
<1>14. lc'.pc = "start" /\ lc'.at \in 1 .. 25 => lc'.failed = "none"
  <2> SUFFICES ASSUME lc'.pc = "start", lc'.at \in 1 .. 25 PROVE lc'.failed = "none"
    BY Zenon
  <2>1. lc.at \in 1 .. 25
    BY <1>1, <1>a, SMTT(60)
  <2> QED
    BY <1>1, <1>a, <2>1, Zenon DEF LcInv
<1> QED
  BY <1>12, <1>13, <1>14, <1>a, <1>b, <1>3, <1>4, <1>5, <1>6, <1>7, <1>8, <1>9, <1>10, <1>11, ZenonT(60) DEF LcInv

\* A step of StopAndWait keeps the invariant: what it stops is gone, and nothing starts again.
LEMMA LcStopStep == LcInv /\ StopStep => LcInv'
<1> SUFFICES ASSUME LcInv, StopStep PROVE LcInv'
  BY SMTT(60)
<1> DEFINE step == StopOrder[lc.at]
<1>1. /\ lc.pc = "stop" /\ lc \in Programs /\ lc.at \in 1 .. 27 /\ UNCHANGED <<lcParts, ready, lateFeeds>>
      /\ StopAt = lc.at
      /\ lc' = IF lc.at = 27 THEN [lc EXCEPT !.pc = "stopped", !.at = 1] ELSE [lc EXCEPT !.at = @ + 1]
  BY StopSteps DEF StopStep, LcInv, StopAt, Programs
<1>2. /\ Stops(step) => /\ up' = up \ Ends(step) /\ gone' = gone \cup {step}
                        /\ step \in Ends(step) /\ Ends(step) \subseteq {step, "sequencing", "secondary"}
                        /\ (step = "publisher" => "sequencing" \in Ends(step))
                        /\ (step # "publisher" => Ends(step) \subseteq {step, "secondary"})
      /\ ~Stops(step) => UNCHANGED <<up, gone>>
  BY Zenon DEF StopStep, Ends
<1>3. /\ lc' \in Programs /\ lc'.pc \notin {"start", "run"} /\ StopAt' = lc.at + 1 /\ lc'.defers = lc.defers
      /\ lc'.failed = lc.failed /\ lc'.dropped = lc.dropped
  <2>1. (lc.at # 27 => lc.at + 1 \in 1 .. 27) /\ 1 \in 1 .. 27 /\ 28 = 27 + 1
    BY <1>1, SMTT(60)
  <2>2. CASE lc.at = 27
    BY <1>1, <2>1, <2>2, ZenonT(60) DEF Programs, StopAt
  <2>3. CASE lc.at # 27
    BY <1>1, <2>1, <2>3, ZenonT(60) DEF Programs, StopAt
  <2> QED
    BY <2>2, <2>3, ZenonT(60)
<1>4. step \in LcUpParts \ Unlisted
  <2>1. step \notin Unlisted
    BY <1>1, StopSteps, SMTT(60) DEF Unlisted
  <2> QED
    BY <1>1, <2>1, Zenon DEF LcUpParts
<1>5. up' \subseteq up /\ gone' \subseteq gone \cup {step} /\ up \subseteq up' \cup gone' \cup {"sequencing", "secondary"}
  BY <1>2, Zenon
<1>6. \A i \in 1 .. 27 : StopOrder[i] \in gone' <=> i < StopAt' /\ Stops(StopOrder[i])'
  <2>1. \A i \in 1 .. 27 : Stops(StopOrder[i])' = Stops(StopOrder[i])
    BY <1>1, <1>3, Zenon DEF Stops
  <2>2. \A i \in 1 .. 27 : StopOrder[i] \in gone <=> i < lc.at /\ Stops(StopOrder[i])
    BY <1>1, Zenon DEF LcInv
  <2>3. \A i \in 1 .. 27 : i < StopAt' <=> i < lc.at \/ i = lc.at
    BY <1>1, <1>3, SMTT(60)
  <2>4. \A i \in 1 .. 27 : StopOrder[i] = step => i = lc.at
    BY <1>1, StopsOnce, Zenon
  <2> QED
    BY <1>2, <2>1, <2>2, <2>3, <2>4, ZenonT(60)
<1>7. gone' \cap up' = {} /\ ("publisher" \in gone' => "sequencing" \notin up')
  BY <1>2, <1>5, Zenon DEF LcInv
<1>8. SequencesAfterFeed'
  BY <1>1, <1>2, <1>5, ZenonT(60) DEF LcInv, SequencesAfterFeed
<1>9. /\ lc'.defers = "chain" => "engine" \notin ready' /\ up' \cap {"backend", "stack", "rpc"} = {}
      /\ "engine" \notin ready' => up' \subseteq EarlyParts /\ lateFeeds' = "none"
  BY <1>1, <1>3, <1>5, ZenonT(60) DEF LcInv
<1>10. up' \subseteq LcUpParts /\ gone' \subseteq LcUpParts \ Unlisted
  BY <1>4, <1>5, Zenon DEF LcInv
<1>11. LeftInv'
  BY <1>1, <1>3, <1>5, Zenon DEF LcInv, LeftInv
<1> QED
  BY <1>3, <1>6, <1>7, <1>8, <1>9, <1>10, <1>11, ZenonT(60) DEF LcInv

\* Every step of the node keeps the invariant.
LEMMA LcStep == LcInv /\ [LcNext]_lcvars => LcInv'
<1> SUFFICES ASSUME LcInv, [LcNext]_lcvars PROVE LcInv'
  BY SMTT(60)
<1>1. CASE UNCHANGED lcvars
  BY <1>1 DEF lcvars, LcInv, LeftInv, LcUpParts, StopAt, Stops, SequencesAfterFeed
<1>2. CASE StartStep \/ StopStep
  BY <1>2, LcStartStep, LcStopStep, ZenonT(60)
<1>3. CASE StartFails
  <2> DEFINE step == StartOrder[lc.at]
  <2>1. /\ UNCHANGED <<lcParts, gone, ready, lateFeeds>> /\ lc \in Programs /\ lc.pc = "start" /\ lc.at <= 26
        /\ lc' = [lc EXCEPT !.at = 26, !.failed = step]
        /\ step \in MayFail /\ \E half \in HalfStarted(step) : up' = up \cup half
    BY <1>3, StartLength, ZenonT(60) DEF StartFails, LcInv
  <2>a. lc.at \in 1 .. 26
    BY <2>1, SMTT(60) DEF Programs
  <2>b. step \in {StartOrder[i] : i \in 1 .. 26} \cup {"none"} /\ 26 \in 1 .. 27
    <3>1. 26 \in 1 .. 27
      OBVIOUS
    <3> QED
      BY <2>a, <3>1, Zenon
  <2>2. lc' \in Programs /\ lc'.defers = lc.defers /\ lc'.pc = "start" /\ lc'.at = 26 /\ lc'.failed = step
        /\ lc'.dropped = lc.dropped
    BY <2>1, <2>b, Zenon DEF Programs
  <2>3. /\ StopAt = 1 /\ StopAt' = 1 /\ 26 <= 26 /\ ~(26 \in 1 .. 23) /\ ~(26 \in 1 .. 25) /\ ~(26 \in 2 .. 25) /\ ~(26 \in 5 .. 25)
        /\ ~(26 \in 9 .. 25) /\ ~(26 \in 12 .. 25) /\ \A i \in 1 .. 27 : ~(i < 1)
    BY <2>1, <2>2, SMTT(60) DEF StopAt
  <2>4. gone = {}
    <3>1. \A i \in 1 .. 27 : StopOrder[i] \notin gone
      BY <2>3, Zenon DEF LcInv
    <3> QED
      BY <3>1, Zenon DEF LcInv, LcUpParts
  <2>5. PICK half \in HalfStarted(step) : up' = up \cup half
    BY <2>1, Zenon
  <2>6. /\ half \subseteq {"publisher", "streamer", "inboxReader", "stateless", "clientManager", "valNode", "backend"}
        /\ half \subseteq LcUpParts
        /\ "clientManager" \in half => step = "broadcastServer"
        /\ half # {} /\ step \notin {"valNode", "backend"} => lc.at \in 5 .. 25
        /\ step = "valNode" => half \subseteq {"valNode"}
        /\ step = "backend" => half \subseteq {"backend"} /\ lc.at = 2
    <3>1. /\ half \in {{}, {step}, {"clientManager"}} /\ ("clientManager" \in half => step = "broadcastServer")
          /\ step = "valNode" => half \subseteq {"valNode"}
          /\ step = "backend" => half \subseteq {"backend"}
          /\ half # {} => step \in {"publisher", "streamer", "inboxReader", "stateless", "broadcastServer", "valNode", "backend"}
          /\ step = "broadcastServer" => half = {"clientManager"}
      BY HalfOf, Zenon
    <3>2. /\ step \in {"publisher", "streamer", "inboxReader", "stateless", "broadcastServer"} => lc.at \in 5 .. 25
          /\ step = "backend" => lc.at = 2
      BY <2>a, StartSteps, SMTT(60)
    <3>3. {"publisher", "streamer", "inboxReader", "stateless", "clientManager", "valNode", "backend"} \subseteq LcUpParts
      BY StopSteps, SMTT(60) DEF LcUpParts, Unlisted
    <3>4. half \subseteq {"publisher", "streamer", "inboxReader", "stateless", "clientManager", "valNode", "backend"}
      BY <3>1, Zenon
    <3> QED
      BY <3>1, <3>2, <3>3, <3>4, Zenon
  <2>7. SequencesAfterFeed'
    <3>1. half \cap {"coordinator", "sequencing", "broadcastServer"} = {}
      BY <2>6, Zenon
    <3> QED
      BY <2>1, <2>5, <3>1, Zenon DEF LcInv, SequencesAfterFeed
  <2>8. /\ lc'.defers = "chain" => "engine" \notin ready' /\ up' \cap {"backend", "stack", "rpc"} = {}
        /\ "engine" \notin ready' => up' \subseteq EarlyParts /\ lateFeeds' = "none"
    <3>1. 2 \in 2 .. 25
      OBVIOUS
    <3>2. CASE half = {}
      BY <2>1, <2>2, <2>5, <3>2, Zenon DEF LcInv
    <3>3. CASE step = "valNode"
      BY <2>1, <2>2, <2>5, <2>6, <3>3, Zenon DEF LcInv, EarlyParts
    <3>4. CASE step = "backend"
      <4>1. lc.defers = "node"
        BY <2>1, <2>6, <3>1, <3>4, Zenon DEF LcInv
      <4> QED
        BY <2>1, <2>2, <2>5, <2>6, <3>4, <4>1, Zenon DEF LcInv, EarlyParts
    <3>5. CASE half # {} /\ step \notin {"valNode", "backend"}
      <4>1. "engine" \in ready
        BY <2>1, <2>6, <3>5, Zenon DEF LcInv
      <4> QED
        BY <2>1, <2>2, <4>1, Zenon DEF LcInv
    <3> QED
      BY <3>2, <3>3, <3>4, <3>5, Zenon
  <2>9. LeftInv'
    <3>1. half \cap {"router", "secondary"} = {}
      BY <2>6, Zenon
    <3>2. "clientManager" \notin up
      <4>1. lc.at # 26
        BY <2>1, StartSteps, SMTT(60) DEF MayFail
      <4>2. lc.at \in 1 .. 25
        BY <2>a, <4>1, SMTT(60)
      <4> QED
        BY <2>1, <4>2, Zenon DEF LcInv, LeftInv
    <3> QED
      BY <2>1, <2>2, <2>5, <2>6, <3>1, <3>2, Zenon DEF LcInv, LeftInv
  <2>10. up' \subseteq LcUpParts /\ gone' = {} /\ \A i \in 1 .. 27 : StopOrder[i] \notin gone'
    BY <2>1, <2>4, <2>5, <2>6, Zenon DEF LcInv
  <2> QED
    BY <2>1, <2>2, <2>3, <2>7, <2>8, <2>9, <2>10, ZenonT(60) DEF LcInv
<1>6. CASE StopNode
  <2>1. /\ UNCHANGED <<lcParts, up, gone, ready, lateFeeds>> /\ lc \in Programs
        /\ lc.pc = "run" /\ lc' = [lc EXCEPT !.pc = "stop"]
    BY <1>6, ZenonT(60) DEF StopNode, LcInv
  <2>2. /\ lc' \in Programs /\ lc'.defers = lc.defers /\ lc'.failed = lc.failed /\ lc'.dropped = lc.dropped
        /\ lc'.pc = "stop" /\ lc'.at = lc.at
    BY <2>1, Zenon DEF Programs
  <2>3. StopAt = 1 /\ StopAt' = lc.at /\ lc.at = 1
    BY <2>1, <2>2, Zenon DEF StopAt, LcInv
  <2>4. /\ SequencesAfterFeed' = SequencesAfterFeed /\ LeftInv' = LeftInv
        /\ \A i \in 1 .. 27 : Stops(StopOrder[i])' = Stops(StopOrder[i])
    BY <2>1, <2>2, Zenon DEF SequencesAfterFeed, Stops, LeftInv
  <2> QED
    BY <2>1, <2>2, <2>3, <2>4, ZenonT(60) DEF LcInv
<1>4. CASE ValidatorDropped
  <2>1. /\ UNCHANGED <<gone, ready, lateFeeds>> /\ up' = up \cup {"stateless"} /\ lc.pc = "start" /\ lc \in Programs
        /\ lcParts' = lcParts \ {"stateless", "blockValidator"} /\ StartOrder[lc.at] = "stateless"
        /\ lc' = [AfterStart(lc.at) EXCEPT !.dropped = TRUE] /\ lc.at <= 26
    BY <1>4, Zenon DEF ValidatorDropped, LcInv
  <2>a. lc.at \in 1 .. 26
    BY <2>1, SMTT(60) DEF Programs
  <2>b. lc.at = 19 /\ 19 # 26 /\ 19 + 1 = 20
    BY <2>1, <2>a, StartSteps, SMTT(60)
  <2>2. lc.at = 19 /\ lc' = [[lc EXCEPT !.at = 20, !.defers = "node"] EXCEPT !.dropped = TRUE]
    <3>1. lc' = [AfterStart(19) EXCEPT !.dropped = TRUE] /\ Len(StartOrder) # 19
      <4>1. Len(StartOrder) # 19
        BY StartLength, SMTT(60)
      <4> QED
        BY <2>1, <2>b, <4>1, Zenon
    <3>2. AfterStart(19) = [lc EXCEPT !.at = 20, !.defers = "node"]
      BY <2>b, <3>1, Zenon DEF AfterStart
    <3> QED
      BY <2>b, <3>1, <3>2, ZenonT(60)
  <2>3. /\ lc' \in Programs /\ lc'.pc = "start" /\ lc'.at = 20 /\ lc'.defers = "node" /\ 20 <= 26
        /\ lc'.failed = lc.failed /\ 19 \in 1 .. 23 /\ 19 \in 1 .. 25
        /\ StopAt = 1 /\ StopAt' = 1 /\ 19 \in 5 .. 25 /\ 19 \in 9 .. 25 /\ 19 \in 12 .. 25 /\ 19 \in 2 .. 25
    <3>1. /\ 19 \in 5 .. 25 /\ 19 \in 9 .. 25 /\ 19 \in 12 .. 25 /\ 19 \in 2 .. 25 /\ 20 <= 26 /\ 20 \in 1 .. 27
          /\ 19 \in 1 .. 23 /\ 19 \in 1 .. 25
      OBVIOUS
    <3> QED
      BY <2>1, <2>2, <3>1, ZenonT(60) DEF StopAt, Programs
  <2>4. /\ \A i \in 1 .. 27 : ~(i < 1)
        /\ \A i \in 1 .. 27 : StopOrder[i] \notin gone
        /\ gone = {}
    <3>1. \A i \in 1 .. 27 : ~(i < 1)
      BY SMTT(60)
    <3>2. \A i \in 1 .. 27 : StopOrder[i] \notin gone
      BY <2>3, <3>1, Zenon DEF LcInv
    <3> QED
      BY <3>1, <3>2, Zenon DEF LcInv, LcUpParts
  <2>5. "broadcastServer" \in lcParts' => "broadcastServer" \in lcParts
    BY <2>1, Zenon
  <2>6. "inboxReader" \in lcParts' => "inboxReader" \in lcParts
    BY <2>1, Zenon
  <2>7. SequencesAfterFeed'
    BY <2>1, <2>5, <2>6, Zenon DEF SequencesAfterFeed, LcInv
  <2>8. up' \subseteq LcUpParts /\ LeftInv' /\ "engine" \in ready'
    <3>1. "stateless" \in LcUpParts
      BY StopSteps, SMTT(60) DEF LcUpParts
    <3> QED
      BY <2>1, <2>2, <2>3, <3>1, Zenon DEF LcInv, LeftInv
  <2>9. /\ lc'.pc = "start" /\ lc'.at \in 1 .. 23 => lateFeeds' = "none"
        /\ lc'.pc = "start" /\ lc'.at \in 1 .. 25 => lc'.failed = "none"
        /\ lc'.pc = "start" /\ lc'.at \in 9 .. 25 /\ {"broadcastServer", "inboxReader"} \subseteq lcParts' => "backlog" \in ready'
        /\ lc'.pc = "start" /\ lc'.at \in 12 .. 25 /\ "broadcastServer" \in lcParts' => "broadcastServer" \in up'
    BY <2>1, <2>2, <2>3, <2>5, <2>6, Zenon DEF LcInv
  <2> QED
    BY <2>1, <2>3, <2>4, <2>7, <2>8, <2>9, ZenonT(60) DEF LcInv
<1>5. CASE FeedClientsStart
  <2>1. /\ UNCHANGED <<lcParts, lc, gone, ready>> /\ lateFeeds = "waits" /\ lateFeeds' = "ended"
        /\ up' = up \cup (IF "feedClients" \in gone THEN {"router"} ELSE {"router", "feedClients"})
    BY <1>5, Zenon DEF FeedClientsStart
  <2>2. "feedClients" \in LcUpParts /\ "router" \in LcUpParts
    BY StopSteps, SMTT(60) DEF LcUpParts, Unlisted
  <2>3. StopAt' = StopAt
    BY <2>1, Zenon DEF StopAt
  <2>4. up' \subseteq LcUpParts /\ gone \cap up' = {} /\ "engine" \in ready /\ lc.defers # "chain"
    <3>1. up \subseteq LcUpParts /\ gone \cap up = {} /\ "engine" \in ready /\ gone \subseteq LcUpParts \ Unlisted
      BY <2>1, Zenon DEF LcInv
    <3>2. lc.defers # "chain"
      BY <3>1, Zenon DEF LcInv
    <3>3. "router" \notin gone
      BY <3>1, Zenon DEF Unlisted
    <3> QED
      BY <2>1, <2>2, <3>1, <3>2, <3>3, Zenon
  <2>5. LeftInv' /\ SequencesAfterFeed' /\ \A i \in 1 .. 27 : Stops(StopOrder[i])' = Stops(StopOrder[i])
    BY <2>1, Zenon DEF LcInv, LeftInv, SequencesAfterFeed, Stops
  <2> QED
    BY <2>1, <2>3, <2>4, <2>5, ZenonT(60) DEF LcInv
<1>7. CASE SecondaryStarts \/ SecondaryStops
  <2>1. /\ UNCHANGED <<lcParts, lc, gone, ready, lateFeeds>> /\ "router" \in up
        /\ up' = up \cup {"secondary"} \/ up' = up \ {"secondary"}
    BY <1>7, Zenon DEF SecondaryStarts, SecondaryStops
  <2>2. "secondary" \in LcUpParts /\ "secondary" \notin gone
    BY Zenon DEF LcInv, LcUpParts, Unlisted
  <2>3. StopAt' = StopAt /\ lateFeeds = "ended" /\ "engine" \in ready
    BY <2>1, Zenon DEF StopAt, LcInv, LeftInv
  <2>4. /\ LeftInv' /\ SequencesAfterFeed' /\ up' \subseteq LcUpParts /\ gone \cap up' = {}
        /\ \A i \in 1 .. 27 : Stops(StopOrder[i])' = Stops(StopOrder[i])
    BY <2>1, <2>2, <2>3, Zenon DEF LcInv, LeftInv, SequencesAfterFeed, Stops
  <2> QED
    BY <2>1, <2>3, <2>4, ZenonT(60) DEF LcInv
<1> QED
  BY <1>1, <1>2, <1>3, <1>4, <1>5, <1>6, <1>7, ZenonT(60) DEF LcNext

\* What is stopped, and in which order, follows from the places in StopAndWait.
LEMMA LcOrder == LcInv => UsersStopFirst /\ AllStopped
<1> SUFFICES ASSUME LcInv PROVE UsersStopFirst /\ AllStopped
  BY SMTT(60)
<1>0. StopAt \in 1 .. 28
  BY DEF LcInv, StopAt, Programs
<1>1. ASSUME NEW i \in 1 .. 27, StopOrder[i] \in gone, NEW j \in 1 .. i, Stops(StopOrder[j])
      PROVE  StopOrder[j] \notin up
  <2>1. j \in 1 .. 27 /\ i < StopAt
    BY <1>1, SMTT(60) DEF LcInv
  <2>2. StopOrder[j] \in gone
    BY <1>0, <1>1, <2>1, SMTT(60) DEF LcInv
  <2> QED
    BY <2>2, ZenonT(60) DEF LcInv
<1>2. "streamer" \in gone => up \cap {"inboxReader", "delayedSequencer", "feedClients", "batchPoster"} = {}
  <2> SUFFICES ASSUME "streamer" \in gone
               PROVE  up \cap {"inboxReader", "delayedSequencer", "feedClients", "batchPoster"} = {}
    BY SMTT(60)
  <2>0. Stops(StopOrder[15])
    BY StopSteps, SMTT(60) DEF LcInv
  <2>1. \A j \in {5, 6, 9, 13} : Stops(StopOrder[j])
    BY <2>0, StopSteps, ZenonT(60) DEF Stops, ExecutionParts
  <2>2. \A j \in {5, 6, 9, 13} : StopOrder[j] \notin up
    BY SMTT(60), <1>1, <2>1, StopSteps
  <2> QED
    BY <2>2, StopSteps, SMTT(60)
<1>3. "publisher" \in gone => "rpc" \notin up
  <2> SUFFICES ASSUME "publisher" \in gone PROVE "rpc" \notin up
    BY SMTT(60)
  <2>0. Stops(StopOrder[19])
    BY StopSteps DEF LcInv
  <2>1. Stops(StopOrder[4])
    BY <2>0, StopSteps, ZenonT(60) DEF Stops, ExecutionParts
  <2> QED
    BY SMTT(60), <1>1, <2>1, StopSteps
<1>4. "engine" \in gone
        => up \cap {"streamer", "publisher", "sequencing", "coordinator", "blockValidator", "staker", "recorder"} = {}
  <2> SUFFICES ASSUME "engine" \in gone
               PROVE  up \cap {"streamer", "publisher", "sequencing", "coordinator", "blockValidator", "staker",
                               "recorder"} = {}
    BY SMTT(60)
  <2>1. 22 < StopAt /\ Stops("engine")
    BY StopSteps DEF LcInv
  <2>2. "engine" \in ready /\ lc.defers = "node"
    BY <2>1, Zenon DEF Stops, ExecutionParts
  <2>3. \A j \in {10, 11, 15, 16, 19, 20} : Stops(StopOrder[j])
    <3>1. \A j \in {10, 11, 15, 16, 19, 20} : StopOrder[j] # "stateless"
      BY StopSteps, SMTT(60)
    <3> QED
      BY <2>2, <3>1, ZenonT(60) DEF Stops
  <2>4. \A j \in {10, 11, 15, 16, 19, 20} : StopOrder[j] \in gone
    BY <1>0, <2>1, <2>3, SMTT(60) DEF LcInv
  <2> QED
    BY <2>4, StopSteps, SMTT(60) DEF LcInv
<1>5. ASSUME 26 < StopAt PROVE up \subseteq Leftover \cup {"reexecutor"}
  <2>1. \A j \in 1 .. 26 : Stops(StopOrder[j]) => StopOrder[j] \notin up
    BY SMTT(60), <1>0, <1>5 DEF LcInv
  <2>2. CASE "engine" \in ready
    <3>1. lc.defers = "node"
      BY <2>2, Zenon DEF LcInv, Programs
    <3>2. \A j \in 1 .. 26 : StopOrder[j] \notin up \/ (StopOrder[j] = "stateless" /\ lc.dropped)
      BY <2>1, <2>2, <3>1, ZenonT(60) DEF Stops
    <3>3. "publisher" \in gone
      <4>1. Stops("publisher")
        BY <2>2, <3>1, Zenon DEF Stops
      <4> QED
        BY <1>0, <1>5, <4>1, StopSteps, SMTT(60) DEF LcInv
    <3>4. "sequencing" \notin up
      BY <3>3, Zenon DEF LcInv
    <3>5. ASSUME NEW x \in up PROVE x \in Leftover \cup {"reexecutor"}
      <4>1. CASE x \in Unlisted
        BY <3>4, <3>5, <4>1, Zenon DEF Unlisted, LcInv, LeftInv, Leftover
      <4>2. CASE x \notin Unlisted
        <5>1. PICK j \in 1 .. 27 : x = StopOrder[j]
          BY <3>5, <4>2, Zenon DEF LcInv, LcUpParts
        <5>2. CASE j = 27
          BY <5>1, <5>2, StopSteps, Zenon
        <5>3. CASE j # 27
          <6>1. j \in 1 .. 26
            BY <5>3, SMTT(60)
          <6>2. x = "stateless" /\ lc.dropped
            BY <3>2, <3>5, <5>1, <6>1, Zenon
          <6> QED
            BY <6>2, Zenon DEF Leftover
        <5> QED
          BY <5>2, <5>3, Zenon
      <4> QED
        BY <4>1, <4>2, Zenon
    <3> QED
      BY <3>5, Zenon
  <2>3. CASE "engine" \notin ready /\ lc.defers = "node"
    <3>1. \A j \in {4, 18, 25, 26} : Stops(StopOrder[j])
      BY <2>3, StopSteps, ZenonT(60) DEF Stops, ExecutionParts
    <3>2. "rpc" \notin up /\ "das" \notin up /\ "stack" \notin up /\ "databases" \notin up
      BY SMTT(60), <2>1, <3>1, StopSteps
    <3> QED
      BY <2>3, <3>2, Zenon DEF LcInv, EarlyParts, Leftover
  <2>4. CASE "engine" \notin ready /\ lc.defers = "chain"
    <3>1. \A j \in {23, 26} : Stops(StopOrder[j])
      BY <2>4, StopSteps, ZenonT(60) DEF Stops
    <3>2. "blockchain" \notin up /\ "databases" \notin up
      BY SMTT(60), <2>1, <3>1, StopSteps
    <3> QED
      BY <2>4, <3>2, Zenon DEF LcInv, EarlyParts, Leftover
  <2> QED
    BY <2>2, <2>3, <2>4, ZenonT(60) DEF LcInv, Programs
<1>6. "databases" \in gone => 26 < StopAt
  BY StopSteps DEF LcInv
<1>7. AllStopped
  <2> SUFFICES ASSUME lc.pc = "stopped" PROVE up \subseteq Leftover
    BY Zenon DEF AllStopped
  <2>1. StopAt = 28
    BY ZenonT(60) DEF StopAt
  <2>2. "reexecutor" \notin up
    <3>1. Stops(StopOrder[27])
      BY StopSteps, ZenonT(60) DEF Stops, ExecutionParts, LcInv, Programs
    <3> QED
      BY <2>1, <3>1, StopSteps, SMTT(60) DEF LcInv
  <2> QED
    BY <1>5, <2>1, <2>2
<1> QED
  BY <1>2, <1>3, <1>4, <1>5, <1>6, <1>7, ZenonT(60) DEF UsersStopFirst

\* However far Start comes and whenever the feed clients start, nothing is sequenced before the
\* feed server runs, users of the streamer, the engine and the databases stop before them, and
\* nothing is left in the end but what nothing stops; and a component's threads have ended once
\* its stop has waited (Start and StopAndWait of Node and of StopWaiterSafe).
THEOREM StoppingIsOrdered == SwSpec /\ LcSpec => []StopsInOrder
<1>1. LcInit => LcInv
  <2> SUFFICES ASSUME LcInit PROVE LcInv
    BY Zenon
  <2>1. /\ up \subseteq {"databases", "blockchain", "recorder", "das"} /\ gone = {} /\ ready = {} /\ lateFeeds = "none"
        /\ lc = [pc |-> "start", at |-> 1, defers |-> "chain", failed |-> "none", dropped |-> FALSE]
    BY Zenon DEF LcInit
  <2>2. /\ 1 \in 1 .. 27 /\ 1 <= 26 /\ 1 \notin 2 .. 25 /\ 1 \notin 5 .. 25 /\ 1 \notin 9 .. 25 /\ 1 \notin 12 .. 25
        /\ \A i \in 1 .. 27 : ~(i < 1)
    BY SMTT(60)
  <2>3. lc \in Programs /\ lc.pc = "start" /\ lc.at = 1 /\ lc.defers = "chain" /\ lc.failed = "none" /\ StopAt = 1
    BY <2>1, <2>2, Zenon DEF Programs, StopAt
  <2>4. {"databases", "blockchain", "recorder", "das"} \subseteq LcUpParts
    BY StopSteps, SMTT(60) DEF LcUpParts
  <2>5. LeftInv /\ SequencesAfterFeed /\ up \subseteq EarlyParts /\ up \cap {"backend", "stack", "rpc"} = {}
    BY <2>1, Zenon DEF LeftInv, SequencesAfterFeed, EarlyParts
  <2> QED
    BY <2>1, <2>2, <2>3, <2>4, <2>5, ZenonT(60) DEF LcInv
<1>2. LcInv => SequencesAfterFeed /\ UsersStopFirst /\ AllStopped
  BY LcOrder, Zenon DEF LcInv
<1>3. LcSpec => []LcInv
  BY <1>1, LcStep, PTL DEF LcSpec
<1>4. WaitedMeansEnded /\ SequencesAfterFeed /\ UsersStopFirst /\ AllStopped => StopsInOrder
  BY DEF StopsInOrder
<1> QED
  BY <1>2, <1>3, <1>4, WaitingEndsThreads, PTL
=============================================================================
