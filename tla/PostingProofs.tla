---------------------------- MODULE PostingProofs ----------------------------
(***************************************************************************)
(* What the batch posters share.  The mutual exclusion of the lock, for    *)
(* every set of clients, every duration and every skew that LockDurations  *)
(* allows; and the queue of the data posters, for every set of posters,    *)
(* every limit and every scenario.                                         *)
(***************************************************************************)
EXTENDS RedisLock, Poster, TLAPS

(* The lock.                                                               *)

\* What the invariant says of one client: the conjuncts under the quantifier of LockInv.
LockInvOf(c) ==
  /\ Locked(c) /\ (use[c] = "holding" \/ Clock(c) >= rest[c]) =>
       key.owner = c /\ lockedUntil[c] + skew[c] <= key.exp
  /\ lockedUntil[c] # 0 => lockedUntil[c] <= Clock(c) + LockoutDuration
  /\ attempt[c] <= Clock(c)
  /\ attempt[c] # -1 => rest[c] <= attempt[c]
  /\ use[c] = "holding" => rest[c] <= Clock(c)
  /\ use[c] = "asking" => attempt[c] # -1
  /\ rest[c] > Clock(c) => lockedUntil[c] <= rest[c]

\* The invariant is the type invariant and, for each client, LockInvOf.
LEMMA LockInvSplit == LockInv <=> LockTypeOK /\ \A c \in Clients : LockInvOf(c)
BY Zenon DEF LockInv, LockInvOf

\* The clock of a client never shows a negative time.
LEMMA ClockNat == ASSUME LockTypeOK, NEW c \in Clients PROVE Clock(c) \in Nat /\ skew[c] \in 0..MaxSkew
BY LockDurations DEF LockTypeOK, Clock

\* Nobody believes in the lock when the processes start.
LEMMA LockInitInv == LockInit => LockInv
<1> SUFFICES ASSUME LockInit PROVE LockInv
  BY SMTT(60)
<1>1. LockTypeOK
  BY LockDurations, SMTT(60) DEF LockInit, LockTypeOK
<1>2. ASSUME NEW c \in Clients PROVE LockInvOf(c)
  BY <1>1, ClockNat, LockDurations, SMTT(60) DEF LockInit, LockInvOf, Locked, Clock
<1> QED
  BY <1>1, <1>2, LockInvSplit, SMTT(60)

\* Every step keeps the types.
LEMMA LockTypeStep == LockInv /\ [LockNext]_lockVars => LockTypeOK'
<1> SUFFICES ASSUME LockInv, [LockNext]_lockVars PROVE LockTypeOK'
  OBVIOUS
<1>0. LockTypeOK /\ \A c \in Clients : Clock(c) \in Nat /\ attempt[c] <= Clock(c) /\ attempt[c] \in Nat \cup {-1}
  BY ClockNat, LockInvSplit, ZenonT(60) DEF LockInvOf, LockTypeOK
<1>1. CASE Tick
  BY <1>0, <1>1, LockDurations, SMTT(60) DEF LockTypeOK, Tick, Kept
<1>2. CASE \E c \in Clients : AttemptLock(c)
  BY <1>0, <1>2, SMTT(60) DEF LockTypeOK, AttemptLock
<1>3. CASE \E c \in Clients : BackgroundAttempt(c)
  BY <1>0, <1>3, SMTT(60) DEF LockTypeOK, BackgroundAttempt
<1>4. ASSUME NEW c \in Clients, AttemptExec(c) PROVE LockTypeOK'
  <2>1. attempt[c] \in Nat /\ attempt[c] + LockoutDuration \in Nat /\ attempt[c] + RefreshDuration \in Nat
    BY <1>0, <1>4, LockDurations, SMTT(30) DEF AttemptExec
  <2>2. key' \in [owner : Clients \cup {Free, Gone}, exp : Nat] /\ (key'.owner # Free => now < key'.exp)
    BY <1>0, <1>4, <2>1, SMTT(60) DEF LockTypeOK, AttemptExec, Kept
  <2>3. lockedUntil' \in [Clients -> Nat]
    BY <1>0, <1>4, <2>1, SMTT(60) DEF LockTypeOK, AttemptExec
  <2> QED
    BY <1>0, <1>4, <2>2, <2>3, ZenonT(60) DEF LockTypeOK, AttemptExec
<1>5. CASE \E c \in Clients : Done(c)
  BY <1>0, <1>5, SMTT(60) DEF LockTypeOK, Done
<1>6. CASE \E c \in Clients : Release(c)
  BY <1>0, <1>6, LockDurations, SMTT(30) DEF LockTypeOK, Release
<1>7. CASE \E c \in Clients : LockStop(c)
  BY <1>0, <1>7, LockDurations, SMTT(60) DEF LockTypeOK, LockStop
<1>8. CASE \E c \in Clients : LockCrash(c)
  BY <1>0, <1>8, LockDurations, SMTT(60) DEF LockTypeOK, LockCrash
<1>9. CASE UNCHANGED lockVars
  BY <1>0, <1>9, ZenonT(60) DEF LockTypeOK, lockVars
<1> QED
  BY <1>1, <1>2, <1>3, <1>4, <1>5, <1>6, <1>7, <1>8, <1>9, SMTT(60) DEF LockNext

\* Every step keeps what the invariant says of each client: only the Redis transaction gives a
\* client the belief, and no other client can take the key before the belief is over.
LEMMA LockClientStep ==
  ASSUME LockInv, [LockNext]_lockVars, NEW d \in Clients
  PROVE  LockInvOf(d)'
<1>0. /\ LockTypeOK /\ LockTypeOK' /\ LockInvOf(d)
      /\ \A c \in Clients : Clock(c) \in Nat /\ skew[c] \in 0..MaxSkew
  BY ClockNat, LockInvSplit, LockTypeStep, Zenon
<1>1. CASE Tick
  <2>1. Clock(d)' = Clock(d) + 1 /\ (Locked(d)' => Locked(d))
    BY <1>0, <1>1, SMTT(60) DEF Tick, Clock, Locked, LockTypeOK
  <2>2. Locked(d)' /\ (use[d] = "holding" \/ Clock(d) >= rest[d]) => key' = key
    BY <1>0, <1>1, SMTT(30) DEF Tick, Kept, LockInvOf, Locked, Clock, LockTypeOK
  <2>3. Locked(d)' /\ Clock(d)' >= rest[d] => Clock(d) >= rest[d]
    BY <1>0, <1>1, <2>1, SMTT(60) DEF Tick, LockInvOf, Locked, LockTypeOK
  <2>4. Locked(d)' /\ (use[d] = "holding" \/ Clock(d)' >= rest[d]) =>
          key'.owner = d /\ lockedUntil[d] + skew[d] <= key'.exp
    BY <1>0, <2>1, <2>2, <2>3, ZenonT(60) DEF LockInvOf
  <2>5. /\ lockedUntil[d] # 0 => lockedUntil[d] <= Clock(d)' + LockoutDuration
        /\ attempt[d] <= Clock(d)'
        /\ use[d] = "holding" => rest[d] <= Clock(d)'
        /\ rest[d] > Clock(d)' => lockedUntil[d] <= rest[d]
    BY <1>0, <2>1, LockDurations, SMTT(60) DEF LockInvOf, LockTypeOK
  <2>6. UNCHANGED <<lockedUntil, attempt, use, rest, skew>>
    BY <1>1, ZenonT(30) DEF Tick
  <2> QED
    BY <1>0, <2>4, <2>5, <2>6, ZenonT(60) DEF LockInvOf
<1>2. ASSUME NEW c \in Clients, AttemptLock(c) PROVE LockInvOf(d)'
  BY <1>0, <1>2, SMTT(30) DEF AttemptLock, LockInvOf, LockTypeOK, Locked, Clock
<1>3. ASSUME NEW c \in Clients, BackgroundAttempt(c) PROVE LockInvOf(d)'
  BY <1>0, <1>3, SMTT(30) DEF BackgroundAttempt, LockInvOf, LockTypeOK, Locked, Clock
<1>4. ASSUME NEW c \in Clients, AttemptExec(c) PROVE LockInvOf(d)'
  <2>1. /\ Clock(d)' = Clock(d) /\ rest' = rest /\ skew' = skew /\ attempt[c] \in Nat
        /\ attempt[c] <= Clock(c) /\ rest[c] <= attempt[c]
    BY <1>0, <1>4, LockInvSplit, Zenon DEF AttemptExec, Clock, LockInvOf, LockTypeOK
  <2>2. CASE c # d
    <3>1. /\ lockedUntil'[d] = lockedUntil[d] /\ attempt'[d] = attempt[d] /\ use'[d] = use[d]
          /\ Locked(d)' = Locked(d)
      BY <1>0, <1>4, <2>1, <2>2, ZenonT(60) DEF AttemptExec, LockTypeOK, Locked
    <3>2. key.owner = d => key' = key
      BY <1>0, <1>4, <2>2, LockDurations, ZenonT(30) DEF AttemptExec
    <3> QED
      BY <1>0, <2>1, <3>1, <3>2, Zenon DEF LockInvOf
  <2>3. CASE c = d /\ lockedUntil'[d] = 0
    BY <1>0, <1>4, <2>1, <2>3, SMTT(30) DEF AttemptExec, LockInvOf, LockTypeOK, Locked
  <2>4. CASE c = d /\ lockedUntil'[d] # 0
    <3>1. /\ key' = Kept([owner |-> d, exp |-> attempt[d] + LockoutDuration], now)
          /\ lockedUntil'[d] = attempt[d] + (IF background THEN LockoutDuration ELSE RefreshDuration)
          /\ attempt'[d] = -1 /\ use'[d] = (IF use[d] = "asking" THEN "holding" ELSE use[d])
      BY <1>0, <1>4, <2>4, ZenonT(60) DEF AttemptExec, LockTypeOK
    <3>2. lockedUntil'[d] + skew[d] <= attempt[d] + LockoutDuration
      BY <1>0, <2>1, <2>4, <3>1, LockDurations, SMTT(30) DEF LockTypeOK
    <3>3. Locked(d)' => now < attempt[d] + LockoutDuration
      BY <1>0, <1>4, <2>1, <2>4, <3>2, LockDurations, SMTT(60) DEF Locked, Clock, LockTypeOK, AttemptExec
    <3>4. Locked(d)' => key' = [owner |-> d, exp |-> attempt[d] + LockoutDuration]
      BY <1>0, <2>1, <2>4, <3>1, <3>3, LockDurations, SMTT(60) DEF Kept, LockTypeOK
    <3>5. lockedUntil'[d] <= Clock(d) + LockoutDuration /\ rest[d] <= Clock(d)
      BY <1>0, <2>1, <2>4, <3>1, LockDurations, SMTT(60) DEF LockTypeOK
    <3> QED
      BY <1>0, <2>1, <2>4, <3>1, <3>2, <3>4, <3>5, SMTT(60) DEF LockInvOf, LockTypeOK
  <2> QED
    BY <2>2, <2>3, <2>4, Zenon
<1>5. ASSUME NEW c \in Clients, Done(c) PROVE LockInvOf(d)'
  BY <1>0, <1>5, ZenonT(60) DEF Done, LockInvOf, LockTypeOK, Locked, Clock
<1>6. ASSUME NEW c \in Clients, Release(c) PROVE LockInvOf(d)'
  BY <1>0, <1>6, LockDurations, SMTT(30) DEF Release, LockInvOf, LockTypeOK, Locked, Clock
<1>7. ASSUME NEW c \in Clients, LockStop(c) PROVE LockInvOf(d)'
  BY <1>0, <1>7, LockDurations, SMTT(30) DEF LockStop, LockInvOf, LockTypeOK, Locked, Clock
<1>8. ASSUME NEW c \in Clients, LockCrash(c) PROVE LockInvOf(d)'
  BY <1>0, <1>8, LockDurations, SMTT(60) DEF LockCrash, LockInvOf, LockTypeOK, Locked, Clock
<1>9. CASE UNCHANGED lockVars
  BY <1>0, <1>9, Zenon DEF lockVars, LockInvOf, Locked, Clock
<1> QED
  BY <1>1, <1>2, <1>3, <1>4, <1>5, <1>6, <1>7, <1>8, <1>9, SMTT(60) DEF LockNext

\* LockInv is an invariant: a client that may act on its belief owns the key, and the key
\* outlives the belief by the margin between the two clocks.
THEOREM LockInvariant == LockSpec => []LockInv
<1>1. LockInv /\ [LockNext]_lockVars => LockInv'
  BY LockTypeStep, LockClientStep, LockInvSplit, Zenon DEF LockInv, LockInvOf
<1> QED
  BY LockInitInv, <1>1, PTL DEF LockSpec

\* At most one client is at work under the lock at any time, for every number of clients and
\* every clock skew up to LockoutDuration - RefreshDuration.
THEOREM LockMutualExclusion == LockSpec => []LockExclusive
<1>1. LockInv => LockExclusive
  BY LockInvSplit, SMTT(60) DEF LockInvOf, LockExclusive, InUse
<1>2. LockSpec => []LockInv
  BY LockInvariant
<1> QED
  BY <1>1, <1>2, PTL

-----------------------------------------------------------------------------
(* The queue of the data posters.                                          *)

\* A sequence is one of its own elements.
LEMMA SeqOfItself == ASSUME NEW S, NEW s \in Seq(S) PROVE s \in Seq({s[i] : i \in DOMAIN s})
<1>1. PICK T : T = {s[i] : i \in DOMAIN s}
  BY ZenonT(60)
<1>2. \A i \in 1..Len(s) : s[i] \in T
  BY <1>1
<1>3. s \in [1..Len(s) -> T] /\ Len(s) \in Nat
  BY <1>2
<1>4. s \in Seq(T)
  BY <1>3
<1> QED
  BY <1>1, <1>4

\* A sequence is one of any set that has its elements.
LEMMA SeqIsOf == ASSUME NEW S, NEW T, S \subseteq T, NEW s \in Seq(S) PROVE s \in Seq(T)
OBVIOUS

\* A budget that is spent stays a budget, of the same posters and the same queue.
LEMMA SpendKeeps ==
  ASSUME QuotaOK, NEW f \in {"msg", "hold", "rep", "lost", "crash", "l1reorg", "reorg"}, Spend(f)
  PROVE  QuotaOK' /\ quota'.posters = quota.posters /\ quota'.persistent = quota.persistent
<1>1. quota[f] \in Nat /\ quota[f] > 0 /\ quota[f] - 1 \in Nat /\ quota' = [quota EXCEPT ![f] = quota[f] - 1]
  BY DEF QuotaOK, Quotas, Spend
<1>2. quota'.posters = quota.posters /\ quota'.persistent = quota.persistent /\ quota' \in Quotas
  BY <1>1 DEF QuotaOK, Quotas
<1> QED
  BY <1>2 DEF QuotaOK

\* Poster p claims that a nonce has a batch.
ClaimedBy(p, c) ==
  \/ bt[p].pc \in {"send", "mark"} /\ c = Claim(bt[p].nonce, bt[p].item)
  \/ \E x \in dt[p].todo : c = Claim(x.nonce, x.prev)
  \/ dt[p].pc \in {"send", "mark"} /\ c = Claim(dt[p].nonce, dt[p].item)

\* Claims has what the mempool and the threads of the posters claim.
LEMMA ClaimsAre == \A c : c \in Claims <=> c \in mempool \/ \E p \in Posters : ClaimedBy(p, c)
<1> SUFFICES ASSUME NEW c PROVE c \in Claims <=> c \in mempool \/ \E p \in Posters : ClaimedBy(p, c)
  OBVIOUS
<1>1. \A p : c \in BtClaims(p) \cup DtClaims(p) <=> ClaimedBy(p, c)
  BY Zenon DEF BtClaims, DtClaims, ClaimedBy
<1> QED
  BY <1>1, Zenon DEF Claims

\* The same in the next state.
LEMMA ClaimsAreNext == \A c : c \in Claims' <=> c \in mempool' \/ \E p \in Posters : ClaimedBy(p, c)'
<1> SUFFICES ASSUME NEW c PROVE c \in Claims' <=> c \in mempool' \/ \E p \in Posters : ClaimedBy(p, c)'
  OBVIOUS
<1>1. \A p : c \in BtClaims(p)' \cup DtClaims(p)' <=> ClaimedBy(p, c)'
  BY Zenon DEF BtClaims, DtClaims, ClaimedBy
<1> QED
  BY <1>1, Zenon DEF Claims

\* All nonces between two nonces of the queue are in the queue.
LEMMA NoHoles ==
  ASSUME StoreOK, QueueInv, NEW a \in DOMAIN queue, NEW b \in DOMAIN queue, NEW m \in Nat, a <= m, m <= b
  PROVE  m \in DOMAIN queue
<1>1. PICK lo \in DOMAIN queue, hi \in DOMAIN queue : DOMAIN queue = lo..hi
  BY Zenon DEF QueueInv
<1>2. lo \in Nat /\ hi \in Nat /\ a \in Nat /\ b \in Nat
  BY DEF StoreOK
<1>3. a \in lo..hi /\ b \in lo..hi
  BY <1>1
<1>4. m \in lo..hi
  BY <1>2, <1>3
<1> QED
  BY <1>1, <1>4

\* LastNonce is the largest nonce of the queue.
LEMMA LastNonceIs ==
  ASSUME StoreOK, QueueInv, DOMAIN queue # {}
  PROVE  LastNonce \in DOMAIN queue /\ LastNonce \in Nat /\ \A n \in DOMAIN queue : n <= LastNonce
<1>1. PICK lo \in DOMAIN queue, hi \in DOMAIN queue : DOMAIN queue = lo..hi
  BY Zenon DEF QueueInv
<1>2. lo \in Nat /\ hi \in Nat /\ lo \in lo..hi
  BY <1>1 DEF StoreOK
<1>3. hi \in DOMAIN queue /\ \A n \in DOMAIN queue : n <= hi
  BY <1>1, <1>2
<1>4. LastNonce \in DOMAIN queue /\ \A n \in DOMAIN queue : n <= LastNonce
  BY <1>3, Zenon DEF LastNonce
<1> QED
  BY <1>4 DEF StoreOK

\* The items change, but neither their nonces nor their batches; what is final only grows.
SameBatches ==
  /\ DOMAIN queue' = DOMAIN queue
  /\ \A n \in DOMAIN queue : queue'[n].batch = queue[n].batch
  /\ fin \in Nat /\ fin' \in Nat /\ fin <= fin'

\* Then the queue stays one chain.
LEMMA SameQueue == ASSUME StoreOK, QueueInv, SameBatches PROVE QueueInv'
<1>1. \A lo \in DOMAIN queue : lo <= fin => lo <= fin'
  BY DEF StoreOK, SameBatches
<1>2. DOMAIN queue = {} \/ \E lo, hi \in DOMAIN queue : lo <= fin' /\ DOMAIN queue = lo..hi
  BY <1>1, Zenon DEF QueueInv
<1>3. \A n \in DOMAIN queue : n + 1 \in DOMAIN queue => Links(queue'[n].batch, queue'[n + 1].batch)
  BY Zenon DEF SameBatches, QueueInv
<1> QED
  BY <1>2, <1>3, Zenon DEF SameBatches, QueueInv

\* Then a batch that is on its way to the queue stays so.
LEMMA SameWay ==
  ASSUME SameBatches, quota'.persistent = quota.persistent, NEW n \in Nat, NEW b, OnItsWay(n, b)
  PROVE  OnItsWay(n, b)'
<1>1. n <= fin => n <= fin'
  BY DEF SameBatches
<1>2. CASE DOMAIN queue = {}
  BY <1>1, <1>2, Zenon DEF OnItsWay, SameBatches
<1>3. CASE DOMAIN queue # {}
  BY <1>3, Zenon DEF OnItsWay, SameBatches
<1> QED
  BY <1>2, <1>3, Zenon

\* A batch on its way to a nonce that is not final and not taken: the queue is empty, or the
\* nonce is the one after its last.
LEMMA FreeNonce ==
  ASSUME StoreOK, QueueInv, fin \in Nat, NEW n \in Nat, NEW b, n \notin DOMAIN queue, n >= fin, OnItsWay(n, b)
  PROVE  \/ DOMAIN queue = {} /\ n <= fin
         \/ \E lo, hi \in DOMAIN queue : lo <= fin /\ DOMAIN queue = lo..hi /\ n = hi + 1 /\ Links(queue[hi].batch, b)
<1>1. CASE DOMAIN queue = {}
  BY <1>1, Zenon DEF OnItsWay
<1>2. CASE DOMAIN queue # {}
  <2>1. PICK lo \in DOMAIN queue, hi \in DOMAIN queue : lo <= fin /\ DOMAIN queue = lo..hi
    BY <1>2, Zenon DEF QueueInv
  <2>2. lo \in Nat /\ hi \in Nat
    BY DEF StoreOK
  <2>3. n \notin lo..hi /\ n > hi
    BY <2>1, <2>2
  <2>4. ~ \E m \in DOMAIN queue : n <= m
    BY <2>1, <2>2, <2>3
  <2>5. n - 1 \in DOMAIN queue /\ Links(queue[n - 1].batch, b)
    BY <1>2, <2>4, Zenon DEF OnItsWay
  <2>6. n - 1 = hi /\ n = hi + 1
    BY <2>1, <2>2, <2>3, <2>5
  <2> QED
    BY <2>1, <2>5, <2>6, Zenon
<1> QED
  BY <1>1, <1>2, ZenonT(60)

\* What Stored does.
LEMMA StoredIs ==
  ASSUME NEW n, NEW item, queue' = Stored(n, item)
  PROVE  /\ DOMAIN queue' = DOMAIN queue \cup {n} /\ queue'[n] = item
         /\ \A m \in DOMAIN queue : m # n => queue'[m] = queue[m]
         /\ queue' = [m \in DOMAIN queue' |-> queue'[m]]
BY Zenon DEF Stored

\* What it does for a nonce that is free.
LEMMA StoredFree ==
  ASSUME NEW n, NEW item, n \notin DOMAIN queue, queue' = Stored(n, item)
  PROVE  /\ DOMAIN queue' = DOMAIN queue \cup {n} /\ queue'[n] = item
         /\ \A m \in DOMAIN queue : queue'[m] = queue[m]
BY StoredIs, Zenon

\* A new batch is stored.
LEMMA StoredNew ==
  ASSUME StoreOK, QueueInv, fin \in Nat, fin' = fin, NEW n \in Nat, NEW item, item.fee \in Nat,
         n \notin DOMAIN queue, n >= fin, OnItsWay(n, item.batch), queue' = Stored(n, item)
  PROVE  StoreOK' /\ QueueInv'
<1>1. /\ DOMAIN queue' = DOMAIN queue \cup {n} /\ queue'[n] = item
      /\ \A m \in DOMAIN queue : queue'[m] = queue[m]
      /\ queue' = [m \in DOMAIN queue' |-> queue'[m]]
  BY StoredIs, Zenon
<1>2. StoreOK'
  BY <1>1 DEF StoreOK
<1>3. CASE DOMAIN queue = {} /\ n <= fin
  <2>1. DOMAIN queue' = n..n /\ n + 1 \notin DOMAIN queue'
    BY <1>1, <1>3
  <2>2. \A m \in DOMAIN queue' : m = n
    BY <2>1
  <2> QED
    BY <1>2, <1>3, <2>1, <2>2, Zenon DEF QueueInv
<1>4. CASE \E lo, hi \in DOMAIN queue : lo <= fin /\ DOMAIN queue = lo..hi /\ n = hi + 1 /\ Links(queue[hi].batch, item.batch)
  <2>1. PICK lo \in DOMAIN queue, hi \in DOMAIN queue :
                lo <= fin /\ DOMAIN queue = lo..hi /\ n = hi + 1 /\ Links(queue[hi].batch, item.batch)
    BY <1>4
  <2>2. lo \in Nat /\ hi \in Nat /\ hi \in lo..hi
    BY <2>1 DEF StoreOK
  <2>3. DOMAIN queue' = lo..n /\ lo \in DOMAIN queue' /\ n \in DOMAIN queue'
    BY <1>1, <2>1, <2>2
  <2>4. ASSUME NEW m \in DOMAIN queue', m + 1 \in DOMAIN queue' PROVE Links(queue'[m].batch, queue'[m + 1].batch)
    <3>1. m \in lo..hi /\ m \in DOMAIN queue
      BY <2>1, <2>2, <2>3, <2>4, SMTT(60)
    <3>2. m = hi \/ m + 1 \in DOMAIN queue
      BY <2>1, <2>2, <2>3, <2>4, SMTT(60)
    <3> QED
      BY <1>1, <2>1, <3>1, <3>2, Zenon DEF QueueInv
  <2> QED
    BY <1>2, <2>1, <2>3, <2>4, Zenon DEF QueueInv
<1> QED
  BY <1>3, <1>4, FreeNonce, Zenon

\* Other batches stay on their way: they are for a nonce that is now taken.
LEMMA StoredNewWay ==
  ASSUME StoreOK, QueueInv, fin \in Nat, fin' = fin, NEW n \in Nat, NEW item,
         n \notin DOMAIN queue, n >= fin, OnItsWay(n, item.batch), queue' = Stored(n, item),
         quota.persistent, quota'.persistent = quota.persistent, NEW k \in Nat, NEW b, OnItsWay(k, b)
  PROVE  OnItsWay(k, b)'
<1>1. /\ DOMAIN queue' = DOMAIN queue \cup {n} /\ queue'[n] = item
      /\ \A m \in DOMAIN queue : queue'[m] = queue[m]
  BY StoredIs, Zenon
<1>2. CASE DOMAIN queue = {}
  <2>1. k = 0 /\ n = 0
    BY <1>2, Zenon DEF OnItsWay
  <2>2. k <= n
    BY <2>1
  <2> QED
    BY <1>1, <2>2, Zenon DEF OnItsWay
<1>3. CASE DOMAIN queue # {}
  BY <1>1, <1>3, Zenon DEF OnItsWay
<1> QED
  BY <1>2, <1>3, ZenonT(60)

\* What Prune does when the last final transaction is kept.
LEMMA PruneIs ==
  ASSUME StoreOK, fin \in Nat, queue' = Prune(queue, fin - 1)
  PROVE  /\ \A n : n \in DOMAIN queue' <=> n \in DOMAIN queue /\ n >= fin - 1
         /\ \A n \in DOMAIN queue' : queue'[n] = queue[n]
         /\ queue' = [m \in DOMAIN queue' |-> queue'[m]]
         /\ StoreOK'
<1>1. /\ \A n : n \in DOMAIN queue' <=> n \in DOMAIN queue /\ n >= fin - 1
      /\ \A n \in DOMAIN queue' : queue'[n] = queue[n]
      /\ queue' = [m \in DOMAIN queue' |-> queue'[m]]
  BY Zenon DEF Prune
<1> QED
  BY <1>1, Zenon DEF StoreOK

\* A pruned queue is still one chain.
LEMMA PrunedQueue ==
  ASSUME StoreOK, QueueInv, fin \in Nat, fin' = fin, queue' = Prune(queue, fin - 1)
  PROVE  QueueInv'
<1>1. /\ \A n : n \in DOMAIN queue' <=> n \in DOMAIN queue /\ n >= fin - 1
      /\ \A n \in DOMAIN queue' : queue'[n] = queue[n]
  BY PruneIs
<1>2. CASE DOMAIN queue' = {}
  BY <1>2, Zenon DEF QueueInv
<1>3. CASE DOMAIN queue' # {}
  <2>1. PICK lo \in DOMAIN queue, hi \in DOMAIN queue : lo <= fin /\ DOMAIN queue = lo..hi
    BY <1>1, <1>3, Zenon DEF QueueInv
  <2>2. lo \in Nat /\ hi \in Nat
    BY DEF StoreOK
  <2> DEFINE low == IF lo >= fin - 1 THEN lo ELSE fin - 1
  <2>3. low \in Int /\ low <= fin /\ low >= lo /\ \A n : n \in low..hi <=> n \in lo..hi /\ n >= fin - 1
    BY <2>1, <2>2
  <2> HIDE DEF low
  <2>4. DOMAIN queue' = low..hi
    BY <1>1, <2>1, <2>3, Zenon
  <2>5. low \in low..hi /\ hi \in low..hi
    BY <1>3, <2>2, <2>3, <2>4
  <2>6. \A n \in DOMAIN queue' : n + 1 \in DOMAIN queue' => Links(queue'[n].batch, queue'[n + 1].batch)
    BY <1>1, Zenon DEF QueueInv
  <2> QED
    BY <2>3, <2>4, <2>5, <2>6, Zenon DEF QueueInv
<1> QED
  BY <1>2, <1>3, Zenon

\* A queue that persists is not emptied, and one that is empty has only final nonces behind it.
LEMMA PrunedWay ==
  ASSUME StoreOK, ChainOK, quota.persistent => Anchored, fin' = fin, queue' = Prune(queue, fin - 1),
         quota'.persistent = quota.persistent, NEW k \in Nat, NEW b, OnItsWay(k, b)
  PROVE  OnItsWay(k, b)'
<1>0. fin \in Nat /\ Len(l1) \in Nat /\ fin <= Len(l1)
  BY DEF ChainOK
<1>1. /\ \A n : n \in DOMAIN queue' <=> n \in DOMAIN queue /\ n >= fin - 1
      /\ \A n \in DOMAIN queue' : queue'[n] = queue[n]
  BY <1>0, PruneIs
<1>2. CASE DOMAIN queue = {}
  BY <1>1, <1>2, Zenon DEF OnItsWay
<1>3. CASE DOMAIN queue # {} /\ DOMAIN queue' = {}
  <2>1. \A n \in DOMAIN queue : n \in Nat /\ n < fin - 1
    BY <1>0, <1>1, <1>3 DEF StoreOK
  <2>2. ~Anchored
    BY <1>0, <1>3, <2>1 DEF Anchored
  <2>3. k <= fin
    <3>1. (\E m \in DOMAIN queue : k <= m) \/ k - 1 \in DOMAIN queue
      BY <1>3, Zenon DEF OnItsWay
    <3>2. CASE \E m \in DOMAIN queue : k <= m
      BY <1>0, <2>1, <3>2, SMTT(60)
    <3>3. CASE k - 1 \in DOMAIN queue
      BY <1>0, <2>1, <3>3
    <3> QED
      BY <3>1, <3>2, <3>3
  <2> QED
    BY <1>3, <2>2, <2>3, Zenon DEF OnItsWay
<1>4. CASE DOMAIN queue # {} /\ DOMAIN queue' # {}
  <2>1. PICK m1 \in DOMAIN queue' : m1 \in DOMAIN queue /\ m1 >= fin - 1 /\ m1 \in Nat
    BY <1>1, <1>4, Zenon DEF StoreOK
  <2>2. CASE \E m \in DOMAIN queue : k <= m
    <3>1. PICK m \in DOMAIN queue : k <= m /\ m \in Nat
      BY <2>2, Zenon DEF StoreOK
    <3>2. m \in DOMAIN queue' \/ k <= m1
      BY <1>0, <1>1, <2>1, <3>1, SMTT(60)
    <3> QED
      BY <1>4, <2>1, <3>1, <3>2, Zenon DEF OnItsWay
  <2>3. CASE k - 1 \in DOMAIN queue /\ Links(queue[k - 1].batch, b)
    <3>1. k - 1 \in DOMAIN queue' \/ k <= m1
      BY <1>0, <1>1, <2>1, <2>3
    <3> QED
      BY <1>1, <1>4, <2>1, <2>3, <3>1, Zenon DEF OnItsWay
  <2> QED
    BY <1>4, <2>2, <2>3, Zenon DEF OnItsWay
<1> QED
  BY <1>2, <1>3, <1>4, ZenonT(60)

\* Claims agree in the next state if the queue keeps the batches of its nonces, takes new ones
\* only for nonces that are not final, forgets only final ones, and every new claim is stored.
LEMMA ClaimsKept ==
  ASSUME ClaimsAgree, fin \in Nat, fin' \in Nat, fin <= fin', DOMAIN queue \subseteq Nat,
         \A c \in Claims : c.nonce \in Nat /\ c.fee \in Nat,
         \A n \in DOMAIN queue : queue[n].fee \in Nat, \A n \in DOMAIN queue' : queue'[n].fee \in Nat,
         \A n \in DOMAIN queue' : n \in DOMAIN queue => queue'[n].batch = queue[n].batch /\ queue'[n].fee >= queue[n].fee,
         \A n \in DOMAIN queue' : n \notin DOMAIN queue => n >= fin,
         \A n \in DOMAIN queue : n \notin DOMAIN queue' => n < fin' - 1,
         \A c \in Claims' : \/ c \in Claims
                            \/ c.nonce \in DOMAIN queue' /\ queue'[c.nonce].batch = c.batch /\ queue'[c.nonce].fee >= c.fee
  PROVE  ClaimsAgree'
<1> DEFINE Now(c) == c.nonce \in DOMAIN queue' /\ queue'[c.nonce].batch = c.batch /\ queue'[c.nonce].fee >= c.fee
<1>1. ASSUME NEW c \in Claims PROVE (c.nonce \in DOMAIN queue' /\ Now(c)) \/ (c.nonce \notin DOMAIN queue' /\ c.nonce < fin' - 1)
  <2>0. c.nonce \in Nat /\ c.fee \in Nat /\ ClaimStored(c)
    BY DEF ClaimsAgree
  <2>1. CASE c.nonce \in DOMAIN queue
    <3>1. queue[c.nonce].batch = c.batch /\ queue[c.nonce].fee >= c.fee /\ queue[c.nonce].fee \in Nat
      BY <2>0, <2>1, Zenon DEF ClaimStored
    <3> QED
      BY <2>0, <2>1, <3>1
  <2>2. CASE c.nonce \notin DOMAIN queue
    <3>1. c.nonce < fin - 1
      BY <2>0, <2>2, Zenon DEF ClaimStored
    <3>2. c.nonce < fin' - 1 /\ ~(c.nonce >= fin)
      BY <2>0, <3>1
    <3> QED
      BY <2>2, <3>2, Zenon
  <2> QED
    BY <2>1, <2>2, SMTT(60)
<1>2. \A c \in Claims' : c \in Claims \/ Now(c)
  BY Zenon
<1> HIDE DEF Now
<1>3. \A c \in Claims' : ClaimStored(c)'
  BY <1>1, <1>2, Zenon DEF ClaimStored, Now
<1>4. ASSUME NEW c \in Claims', NEW d \in Claims', c.nonce = d.nonce PROVE c.batch = d.batch
  <2>1. CASE c \in Claims /\ d \in Claims
    BY <1>4, <2>1, Zenon DEF ClaimsAgree
  <2>2. CASE Now(c)
    BY <1>1, <1>2, <1>4, <2>2, Zenon DEF Now
  <2>3. CASE Now(d)
    BY <1>1, <1>2, <1>4, <2>3, Zenon DEF Now
  <2> QED
    BY <1>2, <2>1, <2>2, <2>3, Zenon
<1> QED
  BY <1>3, <1>4, ZenonT(60) DEF ClaimsAgree

\* Claims have types.
LEMMA ClaimTypes == ASSUME PosterTypeOK PROVE \A c \in Claims : c.nonce \in Nat /\ c.fee \in Nat
<1> SUFFICES ASSUME NEW c \in Claims PROVE c.nonce \in Nat /\ c.fee \in Nat
  OBVIOUS
<1>1. c \in mempool \/ \E p \in Posters : ClaimedBy(p, c)
  BY ClaimsAre
<1>2. \A n, x : n \in Nat /\ x.fee \in Nat => Claim(n, x).nonce \in Nat /\ Claim(n, x).fee \in Nat
  BY DEF Claim
<1> QED
  BY <1>1, <1>2, ZenonT(60) DEF ClaimedBy, PosterTypeOK, BtTypeOK, DtTypeOK

\* Which claims a step of one poster can add.
LEMMA ClaimsStep ==
  ASSUME NEW p \in Posters, \A r \in Posters : r # p => bt'[r] = bt[r] /\ dt'[r] = dt[r], NEW c \in Claims'
  PROVE  c \in Claims \/ c \in mempool' \/ ClaimedBy(p, c)'
<1>1. c \in mempool' \/ \E r \in Posters : ClaimedBy(r, c)'
  BY ClaimsAreNext, SMTT(60)
<1>2. ASSUME NEW r \in Posters, r # p, ClaimedBy(r, c)' PROVE c \in Claims
  <2>1. ClaimedBy(r, c)
    BY <1>2, Zenon DEF ClaimedBy
  <2> QED
    BY <2>1, ClaimsAre
<1> QED
  BY <1>1, <1>2, Zenon

\* How the queue may move.
QueueMoves ==
  /\ StoreOK' /\ QueueInv'
  /\ quota.persistent =>
       /\ \A n \in DOMAIN queue' : n \in DOMAIN queue => queue'[n].batch = queue[n].batch /\ queue'[n].fee >= queue[n].fee
       /\ \A n \in DOMAIN queue' : n \notin DOMAIN queue => n >= fin
       /\ \A n \in DOMAIN queue : n \notin DOMAIN queue' => n < fin' - 1
       /\ Anchored'

\* Every batch on its way stays so.
WaysStay == \A n \in Nat : \A b : OnItsWay(n, b) => OnItsWay(n, b)'

\* The quota stays one of the same posters and the same kind of queue.
QuotaStays == QuotaOK' /\ quota'.posters = quota.posters /\ quota'.persistent = quota.persistent

\* After the step the queue has what is claimed.
StoredNow(c) == c.nonce \in DOMAIN queue' /\ queue'[c.nonce].batch = c.batch /\ queue'[c.nonce].fee >= c.fee

\* The invariant, put together from what a step does.
LEMMA StepInv ==
  ASSUME PosterInv, QueueMoves, ChainOK', fin <= fin', QuotaStays,
         dpNonce' \in [Posters -> Nat], \A p \in Posters : dpNonce'[p] <= fin',
         \A t \in mempool' : t.nonce \in Nat /\ t.fee \in Nat,
         bt' = [p \in Posters |-> bt'[p]], dt' = [p \in Posters |-> dt'[p]],
         \A p \in Posters : BtTypeOK(p)' /\ DtTypeOK(p)' /\ BtInv(p)',
         quota.persistent => \A c \in Claims' : c \in Claims \/ StoredNow(c)
  PROVE  PosterInv'
<1>1. PosterTypeOK'
  BY Zenon DEF QueueMoves, QuotaStays, PosterTypeOK
<1>2. ASSUME quota.persistent PROVE ClaimsAgree'
  <2>1. fin \in Nat /\ fin' \in Nat
    BY DEF PosterInv, PosterTypeOK, ChainOK
  <2>2. DOMAIN queue \subseteq Nat /\ (\A n \in DOMAIN queue : queue[n].fee \in Nat) /\ \A n \in DOMAIN queue' : queue'[n].fee \in Nat
    BY Zenon DEF PosterInv, PosterTypeOK, StoreOK, QueueMoves
  <2>3. \A c \in Claims : c.nonce \in Nat /\ c.fee \in Nat
    BY ClaimTypes DEF PosterInv
  <2>4. ClaimsAgree
    BY <1>2, Zenon DEF PosterInv
  <2> QED
    BY <1>2, <2>1, <2>2, <2>3, <2>4, ClaimsKept, Zenon DEF QueueMoves, StoredNow
<1> QED
  BY <1>1, <1>2, Zenon DEF PosterInv, QueueMoves, QuotaStays

\* A poster that a step leaves alone.
LEMMA OtherBt ==
  ASSUME NEW r \in Posters, bt'[r] = bt[r], BtTypeOK(r), BtInv(r), WaysStay, QuotaStays, fin' = fin
  PROVE  BtTypeOK(r)' /\ BtInv(r)'
<1>1. BtTypeOK(r)'
  BY Zenon DEF BtTypeOK, QuotaStays
<1>2. BtInv(r)'
  BY Zenon DEF BtTypeOK, BtInv, WaysStay
<1> QED
  BY <1>1, <1>2

\* What the invariant says of the numbers and of the scenario.
LEMMA Basics ==
  ASSUME PosterInv
  PROVE  /\ fin \in Nat /\ Len(l1) \in Nat /\ fin <= Len(l1) /\ quota \in Quotas /\ quota.posters \subseteq Posters
         /\ StoreOK /\ QueueInv /\ ChainOK /\ PosterTypeOK
<1>1. PosterTypeOK /\ QuotaOK /\ ChainOK /\ StoreOK /\ QueueInv
  BY Zenon DEF PosterInv, PosterTypeOK
<1>2. fin \in Nat /\ Len(l1) \in Nat /\ fin <= Len(l1)
  BY <1>1 DEF ChainOK
<1>3. quota \in Quotas /\ quota.posters \subseteq Posters
  BY <1>1 DEF QuotaOK, Quotas
<1> QED
  BY <1>1, <1>2, <1>3

\* A step that leaves the queue alone.
LEMMA QueueStill ==
  ASSUME PosterInv, QuotaStays, queue' = queue, l1' = l1, fin' = fin
  PROVE  QueueMoves /\ WaysStay
<1>1. SameBatches
  BY Basics DEF SameBatches
<1>2. QueueInv' /\ StoreOK'
  BY <1>1, Basics, SameQueue, Zenon DEF StoreOK
<1>3. quota.persistent => Anchored'
  BY Zenon DEF PosterInv, Anchored
<1>4. \A n \in DOMAIN queue : queue[n].fee >= queue[n].fee
  BY Basics DEF StoreOK
<1>5. WaysStay
  BY <1>1, SameWay, Zenon DEF WaysStay, QuotaStays
<1> QED
  BY <1>2, <1>3, <1>4, <1>5, Zenon DEF QueueMoves

\* A step that stores an item again, with the same batch and at least the same fee.
LEMMA ItemReplaced ==
  ASSUME PosterInv, QuotaStays, l1' = l1, fin' = fin, NEW n \in DOMAIN queue, NEW item,
         item.batch = queue[n].batch, item.fee \in Nat, item.fee >= queue[n].fee, queue' = Stored(n, item)
  PROVE  QueueMoves /\ WaysStay /\ queue'[n] = item
<1>1. /\ DOMAIN queue' = DOMAIN queue /\ queue'[n] = item
      /\ \A m \in DOMAIN queue : m # n => queue'[m] = queue[m]
      /\ queue' = [m \in DOMAIN queue' |-> queue'[m]]
  <2>1. DOMAIN queue' = DOMAIN queue \cup {n}
    BY StoredIs, Zenon
  <2>2. DOMAIN queue' = DOMAIN queue
    BY <2>1
  <2> QED
    BY <2>2, StoredIs, Zenon
<1>2. SameBatches
  <2>1. fin \in Nat /\ fin <= fin
    BY Basics
  <2> QED
    BY <1>1, <2>1, Zenon DEF SameBatches
<1>3. QueueInv' /\ StoreOK'
  BY <1>1, <1>2, Basics, SameQueue, Zenon DEF StoreOK
<1>4. quota.persistent => Anchored'
  BY <1>1, Zenon DEF PosterInv, Anchored
<1>5. \A m \in DOMAIN queue : queue[m].fee >= queue[m].fee
  BY Basics, SMTT(60) DEF StoreOK
<1>6. WaysStay
  BY <1>2, SameWay, Zenon DEF WaysStay, QuotaStays
<1>7. ASSUME NEW m \in DOMAIN queue PROVE queue'[m].batch = queue[m].batch /\ queue'[m].fee >= queue[m].fee
  <2>1. CASE m = n
    BY <1>1, <2>1, Zenon
  <2>2. CASE m # n
    BY <1>1, <1>5, <2>2, Zenon
  <2> QED
    BY <2>1, <2>2
<1> QED
  BY <1>1, <1>3, <1>4, <1>6, <1>7, Zenon DEF QueueMoves

\* A step of one poster.
LEMMA PosterMoves ==
  ASSUME PosterInv, QuotaStays, l1' = l1, fin' = fin, NEW p \in Posters, QueueMoves,
         WaysStay \/ \A r \in Posters : r # p => bt[r].pc = "idle",
         dpNonce' \in [Posters -> Nat], \A r \in Posters : dpNonce'[r] <= fin,
         \A t \in mempool' : t \in Claims,
         bt' = [r \in Posters |-> bt'[r]], dt' = [r \in Posters |-> dt'[r]],
         \A r \in Posters : r # p => bt'[r] = bt[r] /\ dt'[r] = dt[r],
         BtTypeOK(p)', DtTypeOK(p)', BtInv(p)',
         quota.persistent => \A c : ClaimedBy(p, c)' => c \in Claims \/ StoredNow(c)
  PROVE  PosterInv'
<1>1. ChainOK' /\ fin <= fin'
  BY Basics DEF ChainOK
<1>2. \A t \in mempool' : t.nonce \in Nat /\ t.fee \in Nat
  BY Basics, ClaimTypes, Zenon
<1>3. ASSUME NEW r \in Posters PROVE BtTypeOK(r)' /\ DtTypeOK(r)' /\ BtInv(r)'
  <2>1. CASE r = p
    BY <2>1, Zenon
  <2>2. CASE r # p
    <3>1. BtTypeOK(r) /\ DtTypeOK(r) /\ BtInv(r) /\ bt'[r] = bt[r] /\ dt'[r] = dt[r]
      BY <2>2, Zenon DEF PosterInv, PosterTypeOK
    <3>2. DtTypeOK(r)'
      BY <3>1, Zenon DEF DtTypeOK
    <3>3. CASE WaysStay
      BY <3>1, <3>2, <3>3, OtherBt, ZenonT(60)
    <3>4. CASE bt[r].pc = "idle"
      BY <3>1, <3>2, <3>4 DEF BtTypeOK, BtInv
    <3> QED
      BY <2>2, <3>3, <3>4, Zenon
  <2> QED
    BY <2>1, <2>2
<1>4. quota.persistent => \A c \in Claims' : c \in Claims \/ StoredNow(c)
  BY ClaimsStep, Zenon
<1> QED
  BY <1>1, <1>2, <1>3, <1>4, StepInv, ZenonT(60)

\* A step of the batch poster thread.
LEMMA BtMoves ==
  ASSUME PosterInv, QuotaStays, l1' = l1, fin' = fin, dt' = dt, NEW p \in Posters, QueueMoves,
         WaysStay \/ \A r \in Posters : r # p => bt[r].pc = "idle",
         dpNonce' \in [Posters -> Nat], \A r \in Posters : dpNonce'[r] <= fin,
         \A t \in mempool' : t \in Claims,
         NEW v, bt' = [bt EXCEPT ![p] = v], bt'[p] = v => BtTypeOK(p)' /\ BtInv(p)',
         quota.persistent /\ v.pc \in {"send", "mark"} =>
           Claim(v.nonce, v.item) \in Claims \/ StoredNow(Claim(v.nonce, v.item))
  PROVE  PosterInv'
<1>1. bt = [r \in Posters |-> bt[r]] /\ dt = [r \in Posters |-> dt[r]] /\ DtTypeOK(p)
  BY Zenon DEF PosterInv, PosterTypeOK
<1>2. bt' = [r \in Posters |-> IF r = p THEN v ELSE bt[r]]
  BY <1>1, Zenon
<1>3. bt' = [r \in Posters |-> bt'[r]] /\ bt'[p] = v /\ \A r \in Posters : r # p => bt'[r] = bt[r] /\ dt'[r] = dt[r]
  BY <1>2, Zenon
<1>4. BtTypeOK(p)' /\ BtInv(p)'
  BY <1>3, Zenon
<1>5. DtTypeOK(p)' /\ dt' = [r \in Posters |-> dt'[r]]
  BY <1>1, Zenon DEF DtTypeOK
<1>6. ASSUME quota.persistent, NEW c, ClaimedBy(p, c)' PROVE c \in Claims \/ StoredNow(c)
  <2>1. CASE v.pc \in {"send", "mark"} /\ c = Claim(v.nonce, v.item)
    BY <1>6, <2>1, Zenon
  <2>2. CASE ClaimedBy(p, c)
    BY <2>2, ClaimsAre, Zenon
  <2>3. ClaimedBy(p, c) \/ (v.pc \in {"send", "mark"} /\ c = Claim(v.nonce, v.item))
    BY <1>3, <1>6, Zenon DEF ClaimedBy
  <2> QED
    BY <2>1, <2>2, <2>3, SMTT(60)
<1> QED
  BY <1>3, <1>4, <1>5, <1>6, PosterMoves, Zenon

\* A step of the data poster thread.
LEMMA DtMoves ==
  ASSUME PosterInv, QuotaStays, l1' = l1, fin' = fin, bt' = bt, NEW p \in Posters, QueueMoves, WaysStay,
         dpNonce' \in [Posters -> Nat], \A r \in Posters : dpNonce'[r] <= fin,
         \A t \in mempool' : t \in Claims,
         NEW v, dt' = [dt EXCEPT ![p] = v], dt'[p] = v => DtTypeOK(p)',
         quota.persistent => \A x \in v.todo : Claim(x.nonce, x.prev) \in Claims \/ StoredNow(Claim(x.nonce, x.prev)),
         quota.persistent /\ v.pc \in {"send", "mark"} =>
           Claim(v.nonce, v.item) \in Claims \/ StoredNow(Claim(v.nonce, v.item))
  PROVE  PosterInv'
<1>1. bt = [r \in Posters |-> bt[r]] /\ dt = [r \in Posters |-> dt[r]] /\ BtTypeOK(p) /\ BtInv(p)
  BY Zenon DEF PosterInv, PosterTypeOK
<1>2. dt' = [r \in Posters |-> IF r = p THEN v ELSE dt[r]]
  BY <1>1, Zenon
<1>3. dt' = [r \in Posters |-> dt'[r]] /\ dt'[p] = v /\ \A r \in Posters : r # p => bt'[r] = bt[r] /\ dt'[r] = dt[r]
  BY <1>2, Zenon
<1>4. DtTypeOK(p)'
  BY <1>3, Zenon
<1>5. BtTypeOK(p)' /\ BtInv(p)' /\ bt' = [r \in Posters |-> bt'[r]]
  BY <1>1, OtherBt, ZenonT(60)
<1>6. ASSUME quota.persistent, NEW c, ClaimedBy(p, c)' PROVE c \in Claims \/ StoredNow(c)
  <2>1. CASE v.pc \in {"send", "mark"} /\ c = Claim(v.nonce, v.item)
    BY <1>6, <2>1, Zenon
  <2>2. CASE \E x \in v.todo : c = Claim(x.nonce, x.prev)
    BY <1>6, <2>2, Zenon
  <2>3. CASE ClaimedBy(p, c)
    BY <2>3, ClaimsAre, Zenon
  <2>4. ClaimedBy(p, c) \/ (v.pc \in {"send", "mark"} /\ c = Claim(v.nonce, v.item)) \/ \E x \in v.todo : c = Claim(x.nonce, x.prev)
    BY <1>3, <1>6, Zenon DEF ClaimedBy
  <2> QED
    BY <2>1, <2>2, <2>3, <2>4, SMTT(60)
<1> QED
  BY <1>3, <1>4, <1>5, <1>6, PosterMoves, Zenon

\* The mempool and the data posters' nonces, when a step leaves them alone.
LEMMA NoncesStay ==
  ASSUME PosterInv PROVE dpNonce \in [Posters -> Nat] /\ (\A r \in Posters : dpNonce[r] <= fin) /\ \A t \in mempool : t \in Claims
BY ClaimsAre, Zenon DEF PosterInv, PosterTypeOK

\* A poll that ends.
LEMMA EndPollInv ==
  ASSUME PosterInv, QuotaStays, NEW p \in Posters, EndPoll(p), QueueMoves,
         WaysStay \/ \A r \in Posters : r # p => bt[r].pc = "idle",
         UNCHANGED <<mempool, l1, fin, dpNonce, dt>>
  PROVE  PosterInv'
<1>1. bt' = [bt EXCEPT ![p] = BtIdle] /\ BtIdle.pc = "idle"
  BY SMTT(60) DEF EndPoll, BtIdle
<1>2. bt'[p] = BtIdle => BtTypeOK(p)' /\ BtInv(p)'
  BY <1>1, SMTT(60) DEF BtTypeOK, BtInv
<1>3. BtIdle.pc \notin {"send", "mark"}
  BY <1>1
<1> QED
  BY <1>1, <1>2, <1>3, NoncesStay, BtMoves, ZenonT(60)

\* A step that spends nothing of the scenario keeps it.
LEMMA QuotaSame == ASSUME PosterInv, quota' = quota PROVE QuotaStays
BY Zenon DEF PosterInv, PosterTypeOK, QuotaOK, QuotaStays

\* So does one that spends one event.
LEMMA QuotaSpent ==
  ASSUME PosterInv, NEW f \in {"msg", "hold", "rep", "lost", "crash", "l1reorg", "reorg"}, Spend(f) PROVE QuotaStays
<1>1. QuotaOK
  BY Zenon DEF PosterInv, PosterTypeOK
<1> QED
  BY <1>1, SpendKeeps, Zenon DEF QuotaStays

\* A step outside the posters.
LEMMA EnvMoves ==
  ASSUME PosterInv, QuotaStays, UNCHANGED <<mempool, dpNonce, bt, dt>>, QueueMoves, WaysStay, ChainOK',
         fin' \in Nat, fin <= fin', \A p \in Posters : bt[p].pc = "put" => bt[p].nonce >= fin'
  PROVE  PosterInv'
<1>1. fin \in Nat /\ dpNonce \in [Posters -> Nat] /\ \A p \in Posters : dpNonce[p] <= fin
  BY Basics, NoncesStay, SMTT(60)
<1>2. \A p \in Posters : dpNonce'[p] <= fin'
  BY <1>1, SMTT(60)
<1>3. ASSUME NEW p \in Posters PROVE BtTypeOK(p)' /\ DtTypeOK(p)' /\ BtInv(p)'
  <2>1. BtTypeOK(p) /\ DtTypeOK(p) /\ BtInv(p)
    BY Zenon DEF PosterInv, PosterTypeOK
  <2>2. BtTypeOK(p)' /\ DtTypeOK(p)'
    BY <2>1, Zenon DEF BtTypeOK, DtTypeOK, QuotaStays
  <2>3. BtInv(p)'
    BY <2>1, Zenon DEF BtInv, BtTypeOK, WaysStay
  <2> QED
    BY <2>2, <2>3
<1>4. \A c \in Claims' : c \in Claims
  <2>1. \A p, c : ClaimedBy(p, c)' => ClaimedBy(p, c)
    BY Zenon DEF ClaimedBy
  <2> QED
    BY <2>1, ClaimsAre, ClaimsAreNext, Zenon
<1>5. (\A t \in mempool' : t.nonce \in Nat /\ t.fee \in Nat) /\ bt' = [p \in Posters |-> bt'[p]] /\ dt' = [p \in Posters |-> dt'[p]]
  BY Zenon DEF PosterInv, PosterTypeOK
<1> QED
  BY <1>1, <1>2, <1>3, <1>4, <1>5, StepInv, ZenonT(60)

\* A step that none of the invariant's variables notices.
LEMMA QuietInv ==
  ASSUME PosterInv, QuotaStays, UNCHANGED <<queue, mempool, l1, fin, dpNonce, bt, dt>> PROVE PosterInv'
<1>1. QueueMoves /\ WaysStay
  BY QueueStill, SMTT(60)
<1>2. ChainOK' /\ fin' \in Nat /\ fin <= fin'
  BY Basics DEF ChainOK
<1>3. \A p \in Posters : bt[p].pc = "put" => bt[p].nonce >= fin'
  BY Zenon DEF PosterInv, BtInv
<1> QED
  BY <1>1, <1>2, <1>3, EnvMoves, Zenon

\* The nonce and the position that GetNextNonceAndMeta returns.
LEMMA NextIsOnItsWay ==
  ASSUME PosterInv, NEW p \in Posters, NEW x \in NextNonceAndMeta(p)
  PROVE  /\ x.nonce \in Nat /\ x.nonce >= fin
         /\ \A b : b.seq = x.pos.seq /\ b.from = x.pos.count => OnItsWay(x.nonce, b)
<1>0. StoreOK /\ QueueInv /\ fin \in Nat /\ Len(l1) \in Nat /\ fin <= Len(l1)
  BY Basics
<1>1. CASE DOMAIN queue # {}
  <2>1. x = [nonce |-> LastNonce + 1, pos |-> PositionAfter(queue[LastNonce].batch)] /\ CanPostWithNonce(x.nonce)
    BY <1>1, ZenonT(60) DEF NextNonceAndMeta
  <2>2. x.nonce = LastNonce + 1 /\ x.pos.count = queue[LastNonce].batch.to /\ x.pos.seq = queue[LastNonce].batch.seq + 1
    BY <2>1 DEF PositionAfter
  <2>3. LastNonce \in DOMAIN queue /\ LastNonce \in Nat
    BY <1>0, <1>1, LastNonceIs
  <2>4. Len(l1) <= x.nonce
    BY <2>1, Zenon DEF CanPostWithNonce
  <2>5. x.nonce \in Nat /\ x.nonce >= fin /\ x.nonce - 1 = LastNonce
    BY <1>0, <2>2, <2>3, <2>4, SMTT(60)
  <2>6. \A b : b.seq = x.pos.seq /\ b.from = x.pos.count => Links(queue[LastNonce].batch, b)
    BY <2>2, Zenon DEF Links
  <2> QED
    BY <1>1, <2>3, <2>5, <2>6, Zenon DEF OnItsWay
<1>2. CASE DOMAIN queue = {}
  <2>1. PICK n \in fin..(IF quota.persistent THEN Len(l1) ELSE fin) :
           x = [nonce |-> IF n > dpNonce[p] THEN n ELSE dpNonce[p], pos |-> Position(Accepted(SubSeq(l1, 1, n)))]
    BY <1>2, Zenon DEF NextNonceAndMeta
  <2>2. x.nonce = IF n > dpNonce[p] THEN n ELSE dpNonce[p]
    BY <2>1, Zenon
  <2>3. dpNonce[p] \in Nat /\ dpNonce[p] <= fin
    BY NoncesStay, SMTT(60)
  <2>4. n \in Nat /\ n >= fin /\ x.nonce = n
    BY <1>0, <2>1, <2>2, <2>3, SMTT(60)
  <2>5. ~quota.persistent => n = fin
    BY <1>0, <2>1, SMTT(60)
  <2>6. quota.persistent => n = 0 /\ n <= fin
    <3>1. quota.persistent => Len(l1) = 0
      BY <1>2, Zenon DEF PosterInv, Anchored
    <3> QED
      BY <1>0, <2>1, <3>1, SMTT(60)
  <2>7. n <= fin /\ (quota.persistent => n = 0)
    BY <1>0, <2>4, <2>5, <2>6, SMTT(60)
  <2> QED
    BY <1>2, <2>4, <2>7, Zenon DEF OnItsWay
<1> QED
  BY <1>1, <1>2, ZenonT(60)

\* maybePostSequencerBatch keeps the invariant.
LEMMA MaybePostInv ==
  ASSUME PosterInv, NEW p \in quota.posters, MaybePostSequencerBatch(p) PROVE PosterInv'
<1>0. p \in Posters /\ fin \in Nat /\ dpNonce \in [Posters -> Nat] /\ \A r \in Posters : dpNonce[r] <= fin
  BY Basics, NoncesStay
<1>1. /\ l1' = l1 /\ fin' = fin /\ dt' = dt /\ queue' = queue /\ mempool' = mempool
      /\ dpNonce' = [dpNonce EXCEPT ![p] = IF DOMAIN queue = {} /\ fin > dpNonce[p] THEN fin ELSE dpNonce[p]]
  BY Zenon DEF MaybePostSequencerBatch
<1>2. dpNonce' \in [Posters -> Nat] /\ \A r \in Posters : dpNonce'[r] <= fin
  BY <1>0, <1>1, SMTT(60)
<1>3. PICK x \in NextNonceAndMeta(p) : (bt' = bt /\ Spend("hold")) \/ (quota' = quota /\ \E to, data : TakeBatch(p, x, to, data))
  BY ZenonT(60) DEF MaybePostSequencerBatch
<1>4. CASE bt' = bt /\ Spend("hold")
  <2>1. QuotaStays
    BY <1>4, QuotaSpent, SMTT(60)
  <2>2. QueueMoves /\ WaysStay
    BY <1>1, <2>1, QueueStill, SMTT(60)
  <2>3. BtTypeOK(p)' /\ BtInv(p)' /\ bt' = [bt EXCEPT ![p] = bt[p]]
    BY <1>0, <1>1, <1>4, <2>1, <2>2, OtherBt, ZenonT(60) DEF PosterInv, PosterTypeOK
  <2>4. bt[p].pc \in {"send", "mark"} => Claim(bt[p].nonce, bt[p].item) \in Claims
    BY <1>0, ClaimsAre, Zenon DEF ClaimedBy
  <2> QED
    BY <1>0, <1>1, <1>2, <2>1, <2>2, <2>3, <2>4, NoncesStay, BtMoves, Zenon
<1>5. ASSUME quota' = quota, NEW to, NEW data, TakeBatch(p, x, to, data) PROVE PosterInv'
  <2>0. PICK pc \in {"das", "post"} :
          bt' = [bt EXCEPT ![p] = [pc |-> pc, nonce |-> x.nonce, pos |-> x.pos,
                  batch |-> [seq |-> x.pos.seq, from |-> x.pos.count, to |-> to, data |-> data]]]
    BY <1>5, ZenonT(60) DEF TakeBatch
  <2> DEFINE b == [seq |-> x.pos.seq, from |-> x.pos.count, to |-> to, data |-> data]
             v == [pc |-> pc, nonce |-> x.nonce, pos |-> x.pos, batch |-> b]
  <2>1. QuotaStays
    BY <1>5, QuotaSame, SMTT(60)
  <2>2. QueueMoves /\ WaysStay
    BY <1>1, <2>1, QueueStill, SMTT(60)
  <2>3. v.pc \in {"das", "post"} /\ v.nonce = x.nonce /\ v.batch = b
    OBVIOUS
  <2>4. b.seq = x.pos.seq /\ b.from = x.pos.count
    OBVIOUS
  <2>5. bt' = [bt EXCEPT ![p] = v]
    BY <2>0, Zenon
  <2> HIDE DEF b, v
  <2>6. v.nonce \in Nat /\ OnItsWay(v.nonce, v.batch)
    BY <1>0, <2>3, <2>4, NextIsOnItsWay, Zenon
  <2>7. OnItsWay(v.nonce, v.batch)'
    BY <2>2, <2>6, Zenon DEF WaysStay
  <2>8. v.pc \notin {"put", "send", "mark", "idle"} /\ v.pc \in {"idle", "das", "post", "put", "send", "mark"}
    BY <2>3, SMTT(60)
  <2>9. bt'[p] = v => BtTypeOK(p)'
    BY <2>1, <2>6, <2>8, SMTT(60) DEF BtTypeOK, QuotaStays
  <2>10. bt'[p] = v => BtInv(p)'
    BY <2>7, <2>8, SMTT(60) DEF BtInv
  <2> QED
    BY <1>0, <1>1, <1>2, <2>1, <2>2, <2>5, <2>8, <2>9, <2>10, NoncesStay, BtMoves, ZenonT(60)
<1> QED
  BY <1>3, <1>4, <1>5, Zenon

\* The store to the DAS keeps the invariant.
LEMMA PostToDASInv ==
  ASSUME PosterInv, NEW p \in quota.posters, PostToDAS(p) PROVE PosterInv'
<1>0. p \in Posters /\ UNCHANGED <<queue, mempool, l1, fin, dpNonce, dt>>
  BY Basics, Zenon DEF PostToDAS
<1>1. QuotaStays
  BY QuotaSame, Zenon DEF PostToDAS
<1>2. QueueMoves /\ WaysStay
  BY <1>0, <1>1, QueueStill, SMTT(60)
<1>3. CASE EndPoll(p)
  BY <1>0, <1>1, <1>2, <1>3, EndPollInv, SMTT(60)
<1>4. CASE bt' = [bt EXCEPT ![p] = [pc |-> "post", nonce |-> bt[p].nonce, pos |-> bt[p].pos, batch |-> bt[p].batch]]
  <2>1. PICK n, b, q : n = bt[p].nonce /\ b = bt[p].batch /\ q = bt[p].pos
    BY SMTT(60)
  <2> DEFINE v == [pc |-> "post", nonce |-> n, pos |-> q, batch |-> b]
  <2>2. bt[p].pc = "das" /\ BtTypeOK(p) /\ BtInv(p)
    BY <1>0, Zenon DEF PostToDAS, PosterInv, PosterTypeOK
  <2>3. n \in Nat /\ OnItsWay(n, b)
    BY <2>1, <2>2 DEF BtTypeOK, BtInv
  <2>4. OnItsWay(n, b)'
    BY <1>2, <2>3, Zenon DEF WaysStay
  <2>5. v.pc = "post" /\ v.nonce = n /\ v.batch = b /\ bt' = [bt EXCEPT ![p] = v]
    BY <1>4, <2>1, SMTT(60)
  <2> HIDE DEF v
  <2>6. bt'[p] = v => BtTypeOK(p)' /\ BtInv(p)'
    <3>1. bt'[p] = v => BtTypeOK(p)'
      BY <1>1, <2>3, <2>5, SMTT(60) DEF BtTypeOK, QuotaStays
    <3>2. bt'[p] = v => BtInv(p)'
      BY <2>4, <2>5, SMTT(60) DEF BtInv
    <3> QED
      BY <3>1, <3>2, SMTT(60)
  <2>7. v.pc \notin {"send", "mark"}
    BY <2>5
  <2> QED
    BY <1>0, <1>1, <1>2, <2>5, <2>6, <2>7, NoncesStay, BtMoves, ZenonT(60)
<1> QED
  BY <1>3, <1>4, Zenon DEF PostToDAS

\* PostTransaction keeps the invariant: the nonce is compared again, so it is not final.
LEMMA PostTransactionInv ==
  ASSUME PosterInv, NEW p \in quota.posters, PostTransaction(p) PROVE PosterInv'
<1>0. p \in Posters /\ UNCHANGED <<queue, mempool, l1, fin, dpNonce, dt>>
  BY Basics, Zenon DEF PostTransaction
<1>1. QuotaStays
  BY QuotaSame, Zenon DEF PostTransaction
<1>2. QueueMoves /\ WaysStay
  BY <1>0, <1>1, QueueStill, SMTT(60)
<1>3. CASE EndPoll(p)
  BY <1>0, <1>1, <1>2, <1>3, EndPollInv, SMTT(60)
<1>4. CASE /\ \E x \in NextNonceAndMeta(p) : x.nonce = bt[p].nonce
           /\ bt' = [bt EXCEPT ![p] = [pc |-> "put", nonce |-> bt[p].nonce,
                       item |-> [batch |-> bt[p].batch, fee |-> 0, rep |-> 0, sent |-> FALSE]]]
  <2>1. PICK n, b : n = bt[p].nonce /\ b = bt[p].batch
    OBVIOUS
  <2> DEFINE i == [batch |-> b, fee |-> 0, rep |-> 0, sent |-> FALSE]
             v == [pc |-> "put", nonce |-> n, item |-> i]
  <2>2. bt[p].pc = "post" /\ BtTypeOK(p) /\ BtInv(p)
    BY <1>0, ZenonT(60) DEF PostTransaction, PosterInv, PosterTypeOK
  <2>3. n \in Nat /\ OnItsWay(n, b)
    BY <2>1, <2>2 DEF BtTypeOK, BtInv
  <2>4. OnItsWay(n, b)' /\ n >= fin'
    BY <1>0, <1>2, <1>4, <2>1, <2>3, NextIsOnItsWay, ZenonT(60) DEF WaysStay
  <2>5. v.pc = "put" /\ v.nonce = n /\ v.item.batch = b /\ v.item.fee \in Nat /\ bt' = [bt EXCEPT ![p] = v]
    BY <1>4, <2>1, SMTT(60)
  <2> HIDE DEF v
  <2>6. bt'[p] = v => BtTypeOK(p)' /\ BtInv(p)'
    <3>1. bt'[p] = v => BtTypeOK(p)'
      BY <1>1, <2>3, <2>5, SMTT(60) DEF BtTypeOK, QuotaStays
    <3>2. bt'[p] = v => BtInv(p)'
      BY <2>4, <2>5, SMTT(60) DEF BtInv
    <3> QED
      BY <3>1, <3>2, SMTT(60)
  <2>7. v.pc \notin {"send", "mark"}
    BY <2>5, SMTT(60)
  <2> QED
    BY <1>0, <1>1, <1>2, <2>5, <2>6, <2>7, NoncesStay, BtMoves, ZenonT(60)
<1> QED
  BY <1>3, <1>4, Zenon DEF PostTransaction

\* A queue in memory has one poster.
LEMMA AloneInMemory ==
  ASSUME PosterInv, NEW p \in quota.posters, ~quota.persistent PROVE \A r \in Posters : r # p => bt[r].pc = "idle"
BY Zenon DEF PosterInv, PosterTypeOK, QuotaOK, BtTypeOK

\* What a successful Put saw.
LEMMA PutSaw ==
  ASSUME NEW n, NEW i
  PROVE  (PutOK(n, {}, i) => n \notin DOMAIN queue) /\ \A x : PutOK(n, {x}, i) => n \in DOMAIN queue /\ queue[n] = x
<1>1. PutOK(n, {}, i) => n \notin DOMAIN queue
  BY Zenon DEF PutOK
<1>2. ASSUME NEW x, PutOK(n, {x}, i) PROVE n \in DOMAIN queue /\ queue[n] = x
  BY <1>2, ZenonT(60) DEF PutOK
<1> QED
  BY <1>1, <1>2

\* A batch poster that stores a batch for a nonce that is free.
LEMMA NewStored ==
  ASSUME PosterInv, QuotaStays, l1' = l1, fin' = fin, NEW p \in quota.posters, NEW n, NEW item,
         bt[p].pc = "put", n = bt[p].nonce, item = bt[p].item, n \notin DOMAIN queue, queue' = Stored(n, item)
  PROVE  /\ n \in Nat /\ item.fee \in Nat /\ QueueMoves /\ StoredNow(Claim(n, item))
         /\ WaysStay \/ \A r \in Posters : r # p => bt[r].pc = "idle"
<1>0. p \in Posters /\ StoreOK /\ QueueInv /\ fin \in Nat
  BY Basics, SMTT(60)
<1>1. n \in Nat /\ item.fee \in Nat /\ OnItsWay(n, item.batch) /\ n >= fin
  <2>1. BtTypeOK(p) /\ BtInv(p)
    BY <1>0, Zenon DEF PosterInv, PosterTypeOK
  <2> QED
    BY <2>1 DEF BtTypeOK, BtInv
<1>2. StoreOK' /\ QueueInv'
  BY <1>0, <1>1, StoredNew, ZenonT(60)
<1>3. /\ DOMAIN queue' = DOMAIN queue \cup {n} /\ queue'[n] = item
      /\ \A m \in DOMAIN queue : queue'[m] = queue[m]
  BY StoredFree, SMTT(60)
<1>4. quota.persistent => Anchored'
  BY <1>3, Zenon DEF PosterInv, Anchored
<1>5. QueueMoves
  <2>1. \A m \in DOMAIN queue : queue[m].fee >= queue[m].fee
    BY <1>0 DEF StoreOK
  <2>2. \A m \in DOMAIN queue' : m \notin DOMAIN queue => m >= fin
    BY <1>1, <1>3, Zenon
  <2> QED
    BY <1>2, <1>3, <1>4, <2>1, <2>2, ZenonT(60) DEF QueueMoves
<1>6. StoredNow(Claim(n, item))
  <2>1. Claim(n, item).nonce = n /\ Claim(n, item).batch = item.batch /\ Claim(n, item).fee = item.fee /\ item.fee >= item.fee
    BY <1>1, SMTT(60) DEF Claim
  <2> QED
    BY <1>3, <2>1, ZenonT(60) DEF StoredNow
<1>7. CASE quota.persistent
  <2>1. WaysStay
    BY <1>0, <1>1, <1>7, StoredNewWay, Zenon DEF WaysStay, QuotaStays
  <2> QED
    BY <1>1, <1>5, <1>6, <2>1, SMTT(60)
<1>8. CASE ~quota.persistent
  BY <1>1, <1>5, <1>6, <1>8, AloneInMemory, ZenonT(60)
<1> QED
  BY <1>7, <1>8, SMTT(60)

\* The first saveTx of sendTx keeps the invariant.
LEMMA SavePostedInv ==
  ASSUME PosterInv, NEW p \in quota.posters, SavePosted(p) PROVE PosterInv'
<1>0. p \in Posters /\ UNCHANGED <<mempool, l1, fin, dpNonce, dt>> /\ bt[p].pc = "put"
  BY Basics, Zenon DEF SavePosted
<1>1. PICK n, item : n = bt[p].nonce /\ item = bt[p].item
  OBVIOUS
<1>2. ASSUME n \notin DOMAIN queue, queue' = Stored(n, item), EndPoll(p), Spend("lost") PROVE PosterInv'
  <2>1. QuotaStays
    BY <1>2, QuotaSpent, SMTT(60)
  <2>2. QueueMoves /\ (WaysStay \/ \A r \in Posters : r # p => bt[r].pc = "idle")
    BY <1>0, <1>1, <1>2, <2>1, NewStored, ZenonT(60)
  <2> QED
    BY <1>0, <1>2, <2>1, <2>2, EndPollInv, ZenonT(60)
<1>3. ASSUME queue' = queue, EndPoll(p), quota' = quota PROVE PosterInv'
  <2>1. QuotaStays
    BY <1>3, QuotaSame, SMTT(60)
  <2>2. QueueMoves /\ WaysStay
    BY <1>0, <1>3, <2>1, QueueStill, SMTT(60)
  <2> QED
    BY <1>0, <1>3, <2>1, <2>2, EndPollInv, ZenonT(60)
<1>4. ASSUME n \notin DOMAIN queue, queue' = Stored(n, item), quota' = quota,
             bt' = [bt EXCEPT ![p] = [pc |-> "send", nonce |-> n, item |-> item]]
      PROVE  PosterInv'
  <2>1. QuotaStays
    BY <1>4, QuotaSame, SMTT(60)
  <2>2. /\ QueueMoves /\ n \in Nat /\ item.fee \in Nat /\ StoredNow(Claim(n, item))
        /\ WaysStay \/ \A r \in Posters : r # p => bt[r].pc = "idle"
    BY <1>0, <1>1, <1>4, <2>1, NewStored, ZenonT(60)
  <2> DEFINE v == [pc |-> "send", nonce |-> n, item |-> item]
  <2>3. v.pc = "send" /\ v.nonce = n /\ v.item = item /\ bt' = [bt EXCEPT ![p] = v]
    BY <1>4, SMTT(30)
  <2> HIDE DEF v
  <2>4. bt'[p] = v => BtTypeOK(p)' /\ BtInv(p)'
    BY <2>1, <2>2, <2>3, SMTT(60) DEF BtTypeOK, BtInv, QuotaStays
  <2> QED
    BY <1>0, <2>1, <2>2, <2>3, <2>4, NoncesStay, BtMoves, ZenonT(60)
<1> QED
  BY <1>1, <1>2, <1>3, <1>4, PutSaw, ZenonT(60) DEF SavePosted

\* SendTransaction keeps the invariant: what is broadcast was claimed before.
LEMMA SendPostedInv ==
  ASSUME PosterInv, NEW p \in quota.posters, SendPosted(p) PROVE PosterInv'
<1>0. p \in Posters /\ UNCHANGED <<queue, l1, fin, dpNonce, dt>> /\ bt[p].pc = "send"
  BY Basics, ZenonT(60) DEF SendPosted
<1>1. PICK n, item : n = bt[p].nonce /\ item = bt[p].item
  OBVIOUS
<1>2. ASSUME mempool' = mempool, EndPoll(p), Spend("lost") PROVE PosterInv'
  <2>1. QuotaStays
    BY <1>2, QuotaSpent, SMTT(60)
  <2>2. QueueMoves /\ WaysStay
    BY <1>0, <2>1, QueueStill, SMTT(60)
  <2> QED
    BY <1>0, <1>2, <2>1, <2>2, EndPollInv, ZenonT(60)
<1>3. ASSUME mempool' = mempool \cup {Claim(n, item)}, quota' = quota,
             bt' = [bt EXCEPT ![p] = [pc |-> "mark", nonce |-> n, item |-> item]]
      PROVE  PosterInv'
  <2>1. QuotaStays
    BY <1>3, QuotaSame, SMTT(60)
  <2>2. QueueMoves /\ WaysStay
    BY <1>0, <2>1, QueueStill, SMTT(60)
  <2>3. Claim(n, item) \in Claims
    BY <1>0, <1>1, ClaimsAre, Zenon DEF ClaimedBy
  <2>4. \A t \in mempool' : t \in Claims
    BY <1>3, <2>3, NoncesStay, ZenonT(60)
  <2>5. n \in Nat /\ item.fee \in Nat
    BY <1>0, <1>1, ZenonT(60) DEF PosterInv, PosterTypeOK, BtTypeOK
  <2> DEFINE v == [pc |-> "mark", nonce |-> n, item |-> item]
  <2>6. v.pc = "mark" /\ v.nonce = n /\ v.item = item /\ bt' = [bt EXCEPT ![p] = v]
    BY <1>3, SMTT(60)
  <2> HIDE DEF v
  <2>7. bt'[p] = v => BtTypeOK(p)' /\ BtInv(p)'
    BY <2>1, <2>5, <2>6, SMTT(60) DEF BtTypeOK, BtInv, QuotaStays
  <2> QED
    BY <1>0, <2>1, <2>2, <2>3, <2>4, <2>6, <2>7, NoncesStay, BtMoves, ZenonT(60)
<1> QED
  BY <1>1, <1>2, <1>3, Zenon DEF SendPosted, Claim

\* The second saveTx of sendTx keeps the invariant.
LEMMA MarkPostedInv ==
  ASSUME PosterInv, NEW p \in quota.posters, MarkPosted(p) PROVE PosterInv'
<1>0. p \in Posters /\ UNCHANGED <<mempool, l1, fin, dpNonce, dt>> /\ bt[p].pc = "mark" /\ EndPoll(p)
  BY Basics, Zenon DEF MarkPosted
<1>1. QuotaStays
  BY QuotaSame, Zenon DEF MarkPosted
<1>2. PICK n, item : n = bt[p].nonce /\ item = bt[p].item
  BY SMTT(60)
<1>3. CASE queue' = queue
  BY <1>0, <1>1, <1>3, QueueStill, EndPollInv, Zenon
<1>4. CASE PutOK(n, {item}, item) /\ queue' = Stored(n, MarkedSent(item))
  <2>1. n \in DOMAIN queue /\ queue[n] = item
    BY <1>4, PutSaw, SMTT(60)
  <2>2. MarkedSent(item).batch = queue[n].batch /\ MarkedSent(item).fee = item.fee
    BY <2>1, SMTT(60) DEF MarkedSent
  <2>3. item.fee \in Nat
    BY <1>0, <1>2, ZenonT(60) DEF PosterInv, PosterTypeOK, BtTypeOK
  <2>4. MarkedSent(item).fee \in Nat /\ MarkedSent(item).fee >= queue[n].fee
    BY <2>1, <2>2, <2>3, SMTT(60)
  <2>5. QueueMoves /\ WaysStay
    BY <1>0, <1>1, <1>4, <2>1, <2>2, <2>4, ItemReplaced, ZenonT(60)
  <2> QED
    BY <1>0, <1>1, <2>5, EndPollInv, ZenonT(60)
<1> QED
  BY <1>2, <1>3, <1>4, Zenon DEF MarkPosted

\* updateNonce keeps what the invariant says of the queue.
LEMMA QueuePruned ==
  ASSUME PosterInv, QuotaStays, l1' = l1, fin' = fin, queue' = Prune(queue, fin - 1)
  PROVE  QueueMoves /\ WaysStay /\ \A n \in DOMAIN queue : n >= Len(l1) => n \in DOMAIN queue' /\ queue'[n] = queue[n]
<1>0. StoreOK /\ QueueInv /\ ChainOK /\ fin \in Nat /\ Len(l1) \in Nat /\ fin <= Len(l1)
  BY Basics
<1>1. /\ \A n : n \in DOMAIN queue' <=> n \in DOMAIN queue /\ n >= fin - 1
      /\ \A n \in DOMAIN queue' : queue'[n] = queue[n]
      /\ StoreOK' /\ QueueInv'
  BY <1>0, PruneIs, PrunedQueue, ZenonT(60)
<1>2. \A n \in DOMAIN queue : n \in Nat /\ queue[n].fee >= queue[n].fee
  BY <1>0, SMTT(60) DEF StoreOK
<1>3. \A n \in DOMAIN queue : n + 1 >= Len(l1) => n \in DOMAIN queue'
  BY <1>0, <1>1, <1>2, SMTT(60)
<1>4. quota.persistent => Anchored'
  BY <1>3, ZenonT(60) DEF PosterInv, Anchored
<1>5. \A n \in DOMAIN queue : n \notin DOMAIN queue' => n < fin - 1
  BY <1>0, <1>1, <1>2, SMTT(60)
<1>6. WaysStay
  BY <1>0, PrunedWay, Zenon DEF WaysStay, QuotaStays, PosterInv
<1>7. \A n \in DOMAIN queue : n >= Len(l1) => n + 1 >= Len(l1)
  BY <1>0, <1>2
<1> QED
  BY <1>1, <1>2, <1>3, <1>4, <1>5, <1>6, <1>7, ZenonT(60) DEF QueueMoves

\* The start of an iteration of the data poster keeps the invariant: what it fetches is stored.
LEMMA DataPosterPollInv ==
  ASSUME PosterInv, NEW p \in quota.posters, DataPosterPoll(p) PROVE PosterInv'
<1>0. p \in Posters /\ UNCHANGED <<mempool, l1, fin, bt>> /\ UpdateNonce(p)
  BY Basics, Zenon DEF DataPosterPoll
<1>1. QuotaStays
  BY QuotaSame, Zenon DEF DataPosterPoll
<1>2. fin \in Nat /\ StoreOK /\ dpNonce \in [Posters -> Nat] /\ \A r \in Posters : dpNonce[r] <= fin
  BY Basics, NoncesStay, SMTT(60)
<1>3. /\ QueueMoves /\ WaysStay /\ \A n \in DOMAIN queue : n >= Len(l1) => n \in DOMAIN queue' /\ queue'[n] = queue[n]
      /\ dpNonce' \in [Posters -> Nat] /\ \A r \in Posters : dpNonce'[r] <= fin
  <2>1. CASE queue' = queue /\ dpNonce' = dpNonce
    BY <1>0, <1>1, <1>2, <2>1, QueueStill, ZenonT(60)
  <2>2. CASE queue' = Prune(queue, fin - 1) /\ dpNonce' = [dpNonce EXCEPT ![p] = fin]
    <3>1. dpNonce' \in [Posters -> Nat] /\ \A r \in Posters : dpNonce'[r] <= fin
      BY <1>0, <1>2, <2>2, SMTT(60)
    <3> QED
      BY <1>0, <1>1, <2>2, <3>1, QueuePruned, ZenonT(60)
  <2> QED
    BY <1>0, <2>1, <2>2, Zenon DEF UpdateNonce
<1>4. PICK todo, pc : /\ pc \in {"idle", "item"} /\ dt' = [dt EXCEPT ![p] = [pc |-> pc, todo |-> todo]]
                      /\ todo \subseteq FetchContents(Len(l1), MaxTxsToRbf)
  BY Zenon DEF DataPosterPoll
<1>5. ASSUME NEW x \in todo
      PROVE  /\ x.nonce \in Nat /\ x.prev.fee \in Nat
             /\ x.nonce \in DOMAIN queue' /\ queue'[x.nonce] = x.prev
  <2>1. PICK n \in DOMAIN queue : n >= Len(l1) /\ x = [nonce |-> n, prev |-> queue[n]]
    BY <1>4, Zenon DEF FetchContents
  <2>2. x.nonce = n /\ x.prev = queue[n]
    BY <2>1
  <2> QED
    BY <1>2, <1>3, <2>1, <2>2, ZenonT(60) DEF StoreOK
<1>6. ASSUME NEW x \in todo PROVE StoredNow(Claim(x.nonce, x.prev))
  <2>1. Claim(x.nonce, x.prev).nonce = x.nonce /\ Claim(x.nonce, x.prev).batch = x.prev.batch /\ Claim(x.nonce, x.prev).fee = x.prev.fee
    BY DEF Claim
  <2>2. x.prev.fee >= x.prev.fee
    BY <1>5, SMTT(60)
  <2> QED
    BY <1>5, <2>1, <2>2, ZenonT(60) DEF StoredNow
<1> DEFINE v == [pc |-> pc, todo |-> todo]
<1>7. v.pc \in {"idle", "item"} /\ v.todo = todo /\ dt' = [dt EXCEPT ![p] = v]
  BY <1>4, SMTT(60)
<1> HIDE DEF v
<1>8. v.pc \notin {"send", "mark"} /\ v.pc \in {"idle", "item", "send", "mark"}
  BY <1>7
<1>9. dt'[p] = v => DtTypeOK(p)'
  BY <1>5, <1>7, <1>8, ZenonT(60) DEF DtTypeOK
<1> QED
  BY <1>0, <1>1, <1>3, <1>6, <1>7, <1>8, <1>9, NoncesStay, DtMoves, ZenonT(60)

\* Whatever items are left to a data poster thread, it claims them; and so the one that it sends.
LEMMA DtHolds ==
  ASSUME PosterInv, NEW p \in Posters
  PROVE  /\ \A x \in dt[p].todo : Claim(x.nonce, x.prev) \in Claims /\ x.nonce \in Nat /\ x.prev.fee \in Nat
         /\ dt[p].pc \in {"send", "mark"} =>
              Claim(dt[p].nonce, dt[p].item) \in Claims /\ dt[p].nonce \in Nat /\ dt[p].item.fee \in Nat
BY ClaimsAre, ZenonT(60) DEF ClaimedBy, PosterInv, PosterTypeOK, DtTypeOK

\* The thread goes on with the items that are left.
LEMMA NextItemInv ==
  ASSUME PosterInv, QuotaStays, NEW p \in Posters, QueueMoves, WaysStay, NEW others, others \subseteq dt[p].todo,
         UNCHANGED <<mempool, l1, fin, dpNonce, bt>>, dt' = [dt EXCEPT ![p] = NextItem(others)]
  PROVE  PosterInv'
<1>1. PICK v : v = NextItem(others)
  BY SMTT(60)
<1>2. v.pc \in {"idle", "item"} /\ v.todo = others
  BY <1>1, SMTT(60) DEF NextItem
<1>3. v.pc \notin {"send", "mark"} /\ v.pc \in {"idle", "item", "send", "mark"}
  BY <1>2, SMTT(60)
<1>4. \A x \in v.todo : Claim(x.nonce, x.prev) \in Claims /\ x.nonce \in Nat /\ x.prev.fee \in Nat
  BY <1>2, DtHolds
<1>5. dt'[p] = v => DtTypeOK(p)'
  BY <1>3, <1>4, Zenon DEF DtTypeOK
<1> QED
  BY <1>1, <1>3, <1>4, <1>5, NoncesStay, DtMoves, ZenonT(60)

\* The thread holds an item that it claims, or that was just stored.
LEMMA HoldItemInv ==
  ASSUME PosterInv, QuotaStays, NEW p \in Posters, QueueMoves, WaysStay, NEW others, others \subseteq dt[p].todo,
         NEW pc \in {"send", "mark"}, NEW n \in Nat, NEW item, item.fee \in Nat,
         Claim(n, item) \in Claims \/ StoredNow(Claim(n, item)), \A t \in mempool' : t \in Claims,
         UNCHANGED <<l1, fin, dpNonce, bt>>, dt' = [dt EXCEPT ![p] = [pc |-> pc, todo |-> others, nonce |-> n, item |-> item]]
  PROVE  PosterInv'
<1>1. PICK v : v = [pc |-> pc, todo |-> others, nonce |-> n, item |-> item]
  BY ZenonT(60)
<1>2. v.pc \in {"idle", "item", "send", "mark"} /\ v.todo = others /\ v.nonce = n /\ v.item = item
  BY <1>1, SMTT(60)
<1>3. \A x \in v.todo : Claim(x.nonce, x.prev) \in Claims /\ x.nonce \in Nat /\ x.prev.fee \in Nat
  BY <1>2, DtHolds, SMTT(60)
<1>4. dt'[p] = v => DtTypeOK(p)'
  BY <1>2, <1>3, Zenon DEF DtTypeOK
<1> QED
  BY <1>1, <1>2, <1>3, <1>4, NoncesStay, DtMoves, ZenonT(60)

\* replaceTx, or the re-send of an item, keeps the invariant.
LEMMA SaveItemInv ==
  ASSUME PosterInv, NEW p \in quota.posters, SaveItem(p) PROVE PosterInv'
<1>0. p \in Posters /\ UNCHANGED <<mempool, l1, fin, dpNonce, bt>> /\ \A t \in mempool' : t \in Claims
  BY Basics, NoncesStay, Zenon DEF SaveItem
<1>1. PICK x \in dt[p].todo :
        \/ /\ Spend("rep")
           /\ \E fee \in {x.prev.fee, x.prev.fee + 1} :
                IF PutOK(x.nonce, {x.prev}, Replacement(x.prev, fee))
                THEN queue' = Stored(x.nonce, Replacement(x.prev, fee)) /\ HoldItem(p, x, Replacement(x.prev, fee))
                ELSE queue' = queue /\ SkipItem(p, x)
        \/ UNCHANGED <<queue, quota>> /\ (HoldItem(p, x, x.prev) \/ SkipItem(p, x))
  BY Zenon DEF SaveItem
<1>r. PICK others : others = dt[p].todo \ {x} /\ others \subseteq dt[p].todo
  BY ZenonT(60)
<1>2. x.nonce \in Nat /\ x.prev.fee \in Nat /\ Claim(x.nonce, x.prev) \in Claims
  BY <1>0, DtHolds, SMTT(60)
<1>3. ASSUME NEW item, HoldItem(p, x, item) PROVE dt' = [dt EXCEPT ![p] = [pc |-> "send", todo |-> others, nonce |-> x.nonce, item |-> item]]
  BY <1>3, <1>r, Zenon DEF HoldItem
<1>4. ASSUME queue' = queue, QuotaStays, SkipItem(p, x) PROVE PosterInv'
  <2>1. QueueMoves /\ WaysStay
    BY <1>0, <1>4, QueueStill, SMTT(60)
  <2>2. dt' = [dt EXCEPT ![p] = NextItem(others)]
    BY <1>4, <1>r, Zenon DEF SkipItem
  <2> QED
    BY <1>0, <1>r, <1>4, <2>1, <2>2, NextItemInv, ZenonT(60)
<1>5. ASSUME queue' = queue, QuotaStays, HoldItem(p, x, x.prev) PROVE PosterInv'
  <2>1. QueueMoves /\ WaysStay /\ "send" \in {"send", "mark"}
    BY <1>0, <1>5, QueueStill, SMTT(60)
  <2>2. dt' = [dt EXCEPT ![p] = [pc |-> "send", todo |-> others, nonce |-> x.nonce, item |-> x.prev]]
    BY <1>3, <1>5, SMTT(60)
  <2> QED
    BY <1>0, <1>r, <1>2, <1>5, <2>1, <2>2, HoldItemInv, ZenonT(60)
<1>6. ASSUME QuotaStays, NEW item, item.batch = x.prev.batch, item.fee \in {x.prev.fee, x.prev.fee + 1},
             PutOK(x.nonce, {x.prev}, item), queue' = Stored(x.nonce, item), HoldItem(p, x, item)
      PROVE  PosterInv'
  <2>1. x.nonce \in DOMAIN queue /\ queue[x.nonce] = x.prev
    BY <1>6, PutSaw, ZenonT(60)
  <2>2. item.fee \in Nat /\ item.fee >= queue[x.nonce].fee /\ item.fee >= item.fee
    BY <1>2, <1>6, <2>1, SMTT(60)
  <2>3. QueueMoves /\ WaysStay /\ queue'[x.nonce] = item
    BY <1>0, <1>6, <2>1, <2>2, ItemReplaced, ZenonT(60)
  <2>4. x.nonce \in DOMAIN queue'
    BY <1>6, StoredIs, ZenonT(60)
  <2>5. StoredNow(Claim(x.nonce, item))
    <3>1. Claim(x.nonce, item).nonce = x.nonce /\ Claim(x.nonce, item).batch = item.batch /\ Claim(x.nonce, item).fee = item.fee
      BY SMTT(60) DEF Claim
    <3> QED
      BY <2>2, <2>3, <2>4, <3>1, Zenon DEF StoredNow
  <2>6. "send" \in {"send", "mark"} /\ dt' = [dt EXCEPT ![p] = [pc |-> "send", todo |-> others, nonce |-> x.nonce, item |-> item]]
    BY <1>3, <1>6, SMTT(60)
  <2> QED
    BY <1>0, <1>r, <1>2, <1>6, <2>2, <2>3, <2>5, <2>6, HoldItemInv, ZenonT(60)
<1>7. \A fee : Replacement(x.prev, fee).batch = x.prev.batch /\ Replacement(x.prev, fee).fee = fee
  BY DEF Replacement
<1>8. CASE Spend("rep")
  BY <1>1, <1>4, <1>5, <1>6, <1>7, <1>8, QuotaSpent, QuotaSame, ZenonT(60)
<1>9. CASE UNCHANGED <<queue, quota>> /\ (HoldItem(p, x, x.prev) \/ SkipItem(p, x))
  BY <1>4, <1>5, <1>9, QuotaSame, SMTT(60)
<1> QED
  BY <1>1, <1>8, <1>9, Zenon

\* The broadcast of an item keeps the invariant.
LEMMA SendItemInv ==
  ASSUME PosterInv, NEW p \in quota.posters, SendItem(p) PROVE PosterInv'
<1>0. p \in Posters /\ UNCHANGED <<queue, l1, fin, dpNonce, bt>> /\ dt[p].pc = "send"
  BY Basics, Zenon DEF SendItem
<1>1. PICK n, item, others : n = dt[p].nonce /\ item = dt[p].item /\ others = dt[p].todo
  BY SMTT(60)
<1>2. n \in Nat /\ item.fee \in Nat /\ Claim(n, item) \in Claims /\ others \subseteq dt[p].todo
  BY <1>0, <1>1, DtHolds, SMTT(60)
<1>3. ASSUME mempool' = mempool, dt' = [dt EXCEPT ![p] = NextItem(others)], Spend("lost") PROVE PosterInv'
  <2>1. QuotaStays
    BY <1>3, QuotaSpent, SMTT(60)
  <2>2. QueueMoves /\ WaysStay
    BY <1>0, <2>1, QueueStill, SMTT(60)
  <2> QED
    BY <1>0, <1>2, <1>3, <2>1, <2>2, NextItemInv, ZenonT(60)
<1>4. ASSUME mempool' = mempool \cup {Claim(n, item)}, quota' = quota,
             dt' = [dt EXCEPT ![p] = [pc |-> "mark", todo |-> others, nonce |-> n, item |-> item]]
      PROVE  PosterInv'
  <2>1. QuotaStays
    BY <1>4, QuotaSame, SMTT(60)
  <2>2. QueueMoves /\ WaysStay /\ "mark" \in {"send", "mark"}
    BY <1>0, <2>1, QueueStill, SMTT(60)
  <2>3. \A t \in mempool' : t \in Claims
    BY <1>2, <1>4, NoncesStay, Zenon
  <2> QED
    BY <1>0, <1>2, <1>4, <2>1, <2>2, <2>3, HoldItemInv, ZenonT(60)
<1> QED
  BY <1>1, <1>3, <1>4, Zenon DEF SendItem, Claim

\* Marking an item as sent keeps the invariant.
LEMMA MarkItemInv ==
  ASSUME PosterInv, NEW p \in quota.posters, MarkItem(p) PROVE PosterInv'
<1>0. p \in Posters /\ UNCHANGED <<mempool, l1, fin, dpNonce, bt>> /\ dt[p].pc = "mark"
  BY Basics, Zenon DEF MarkItem
<1>1. QuotaStays
  BY QuotaSame, Zenon DEF MarkItem
<1>2. PICK n, item, others : n = dt[p].nonce /\ item = dt[p].item /\ others = dt[p].todo
  BY SMTT(60)
<1>3. item.fee \in Nat /\ others \subseteq dt[p].todo /\ dt' = [dt EXCEPT ![p] = NextItem(others)]
  BY <1>0, <1>2, DtHolds, Zenon DEF MarkItem
<1>4. CASE queue' = queue
  BY <1>0, <1>1, <1>3, <1>4, QueueStill, NextItemInv, ZenonT(60)
<1>5. CASE PutOK(n, {item}, item) /\ queue' = Stored(n, MarkedSent(item))
  <2>1. n \in DOMAIN queue /\ queue[n] = item
    BY <1>5, PutSaw, ZenonT(60)
  <2>2. MarkedSent(item).batch = queue[n].batch /\ MarkedSent(item).fee = item.fee
    BY <2>1, SMTT(60) DEF MarkedSent
  <2>3. MarkedSent(item).fee \in Nat /\ MarkedSent(item).fee >= queue[n].fee
    BY <1>3, <2>1, <2>2, SMTT(60)
  <2>4. QueueMoves /\ WaysStay
    BY <1>0, <1>1, <1>5, <2>1, <2>2, <2>3, ItemReplaced, ZenonT(60)
  <2> QED
    BY <1>0, <1>1, <1>3, <2>4, NextItemInv, ZenonT(60)
<1> QED
  BY <1>2, <1>4, <1>5, Zenon DEF MarkItem

\* A crash keeps the invariant: with a queue in memory, everything that is on its way is lost too.
LEMMA PosterCrashInv ==
  ASSUME PosterInv, NEW p \in quota.posters, PosterCrash(p) PROVE PosterInv'
<1>0. /\ p \in Posters /\ UNCHANGED <<mempool, l1, fin>> /\ Spend("crash") /\ fin \in Nat
      /\ bt' = [bt EXCEPT ![p] = BtIdle] /\ dt' = [dt EXCEPT ![p] = DtIdle] /\ dpNonce' = [dpNonce EXCEPT ![p] = 0]
      /\ queue' = IF quota.persistent THEN queue ELSE <<>>
  BY Basics, ZenonT(60) DEF PosterCrash
<1>1. QuotaStays
  BY <1>0, QuotaSpent, SMTT(60)
<1>2. QueueMoves /\ (WaysStay \/ \A r \in Posters : r # p => bt[r].pc = "idle")
  <2>1. CASE quota.persistent
    BY <1>0, <1>1, <2>1, QueueStill, Zenon
  <2>2. CASE ~quota.persistent
    <3>1. queue' = <<>>
      BY <1>0, <2>2, SMTT(60)
    <3>2. DOMAIN queue' = {} /\ queue' = [n \in DOMAIN queue' |-> queue'[n]]
      BY <3>1
    <3>3. StoreOK' /\ QueueInv'
      BY <3>2, ZenonT(60) DEF StoreOK, QueueInv
    <3> QED
      BY <2>2, <3>3, AloneInMemory, ZenonT(60) DEF QueueMoves
  <2> QED
    BY <2>1, <2>2, SMTT(60)
<1>3. dpNonce' \in [Posters -> Nat] /\ \A r \in Posters : dpNonce'[r] <= fin
  BY <1>0, NoncesStay, SMTT(60)
<1>4. bt = [r \in Posters |-> bt[r]] /\ dt = [r \in Posters |-> dt[r]]
  BY Zenon DEF PosterInv, PosterTypeOK
<1>5. bt' = [r \in Posters |-> IF r = p THEN BtIdle ELSE bt[r]] /\ dt' = [r \in Posters |-> IF r = p THEN DtIdle ELSE dt[r]]
  BY <1>0, <1>4, Zenon
<1>6. /\ bt' = [r \in Posters |-> bt'[r]] /\ dt' = [r \in Posters |-> dt'[r]] /\ bt'[p] = BtIdle /\ dt'[p] = DtIdle
      /\ \A r \in Posters : r # p => bt'[r] = bt[r] /\ dt'[r] = dt[r]
  BY <1>0, <1>5, ZenonT(60)
<1>7. bt'[p].pc = "idle" /\ dt'[p].pc = "idle" /\ dt'[p].todo = {}
  BY <1>6, SMTT(60) DEF BtIdle, DtIdle
<1>8. BtTypeOK(p)' /\ BtInv(p)' /\ DtTypeOK(p)' /\ \A c : ~ClaimedBy(p, c)'
  BY <1>7 DEF BtTypeOK, BtInv, DtTypeOK, ClaimedBy
<1> QED
  BY <1>0, <1>1, <1>2, <1>3, <1>6, <1>8, NoncesStay, PosterMoves, ZenonT(60)

\* The parent chain takes a transaction: a queue that persists has it.
LEMMA IncludeInv == ASSUME PosterInv, Include PROVE PosterInv'
<1>0. /\ UNCHANGED <<queue, mempool, fin, dpNonce, bt, dt, quota>> /\ fin \in Nat /\ Len(l1) \in Nat /\ fin <= Len(l1)
      /\ StoreOK /\ QueueInv /\ ChainOK
  BY Basics, Zenon DEF Include
<1>1. PICK tx \in mempool : tx.nonce = Len(l1) /\ l1' = Append(l1, tx)
  BY Zenon DEF Include
<1>2. QuotaStays
  BY <1>0, QuotaSame, SMTT(60)
<1>3. ChainOK' /\ Len(l1') = Len(l1) + 1
  <2>1. PICK S : S = {l1[i] : i \in DOMAIN l1} \cup {tx}
    BY ZenonT(60)
  <2>2. l1 \in Seq(S) /\ tx \in S
    BY <1>0, <2>1, SeqIsOf, SMTT(60) DEF ChainOK
  <2>3. l1' \in Seq(S) /\ Len(l1') = Len(l1) + 1
    BY <1>1, <2>2, SMTT(60)
  <2>4. l1' \in Seq({l1'[i] : i \in DOMAIN l1'})
    BY <2>3, SeqOfItself
  <2> QED
    BY <1>0, <2>3, <2>4, SMTT(60) DEF ChainOK
<1>4. quota.persistent => Anchored'
  <2>1. ASSUME quota.persistent PROVE tx.nonce \in DOMAIN queue
    <3>1. tx \in Claims /\ ClaimStored(tx)
      BY <2>1, ClaimsAre, Zenon DEF PosterInv, ClaimsAgree
    <3>2. ~(tx.nonce < fin - 1)
      BY <1>0, <1>1, SMTT(60)
    <3> QED
      BY <3>1, <3>2, Zenon DEF ClaimStored
  <2>2. tx.nonce + 1 >= Len(l1')
    BY <1>0, <1>1, <1>3, SMTT(60)
  <2> QED
    BY <1>0, <2>1, <2>2, Zenon DEF Anchored
<1>5. SameBatches
  BY <1>0 DEF SameBatches
<1>6. StoreOK' /\ QueueInv' /\ WaysStay
  BY <1>0, <1>2, <1>5, SameQueue, SameWay, ZenonT(60) DEF StoreOK, WaysStay, QuotaStays
<1>7. \A n \in DOMAIN queue : queue[n].fee >= queue[n].fee
  BY <1>0 DEF StoreOK
<1>8. QueueMoves
  BY <1>0, <1>4, <1>6, <1>7, ZenonT(60) DEF QueueMoves
<1>9. fin' \in Nat /\ fin <= fin' /\ \A p \in Posters : bt[p].pc = "put" => bt[p].nonce >= fin'
  BY <1>0 DEF PosterInv, BtInv
<1> QED
  BY <1>0, <1>2, <1>3, <1>6, <1>8, <1>9, EnvMoves, ZenonT(60)

\* A transaction that becomes final keeps the invariant.
LEMMA PosterFinalizeInv == ASSUME PosterInv, PosterFinalize PROVE PosterInv'
<1>0. /\ UNCHANGED <<queue, mempool, l1, dpNonce, bt, dt, quota>> /\ fin \in Nat /\ Len(l1) \in Nat
      /\ fin < Len(l1) /\ fin' = fin + 1 /\ StoreOK /\ QueueInv /\ ChainOK
      /\ \A p \in Posters : bt[p].pc = "put" => bt[p].nonce > fin
  BY Basics, Zenon DEF PosterFinalize
<1>1. QuotaStays
  BY <1>0, QuotaSame, SMTT(60)
<1>2. ChainOK' /\ fin' \in Nat /\ fin <= fin'
  BY <1>0, SMTT(60) DEF ChainOK
<1>3. SameBatches
  BY <1>0, <1>2 DEF SameBatches
<1>4. StoreOK' /\ QueueInv' /\ WaysStay
  BY <1>0, <1>1, <1>3, SameQueue, SameWay, ZenonT(60) DEF StoreOK, WaysStay, QuotaStays
<1>5. \A n \in DOMAIN queue : queue[n].fee >= queue[n].fee
  BY <1>0 DEF StoreOK
<1>6. QueueMoves
  BY <1>0, <1>4, <1>5, ZenonT(60) DEF QueueMoves, PosterInv, Anchored
<1>7. ASSUME NEW p \in Posters, bt[p].pc = "put" PROVE bt[p].nonce >= fin'
  <2>1. bt[p].nonce \in Nat
    BY <1>7, SMTT(60) DEF PosterInv, PosterTypeOK, BtTypeOK
  <2> QED
    BY <1>0, <1>7, <2>1, SMTT(60)
<1> QED
  BY <1>0, <1>1, <1>2, <1>4, <1>6, <1>7, EnvMoves, ZenonT(60)

\* A reorganization of the parent chain keeps the invariant.
LEMMA PosterL1ReorgInv == ASSUME PosterInv, PosterL1Reorg PROVE PosterInv'
<1>0. /\ UNCHANGED <<queue, mempool, fin, dpNonce, bt, dt>> /\ fin \in Nat /\ Len(l1) \in Nat /\ fin <= Len(l1)
      /\ StoreOK /\ QueueInv /\ ChainOK /\ Spend("l1reorg")
  BY Basics, Zenon DEF PosterL1Reorg
<1>1. PICK k \in fin..(Len(l1) - 1) : l1' = SubSeq(l1, 1, k)
  BY Zenon DEF PosterL1Reorg
<1>2. QuotaStays
  BY <1>0, QuotaSpent, SMTT(60)
<1>3. ChainOK' /\ Len(l1') = k /\ k \in Nat /\ k < Len(l1)
  <2>1. PICK S : l1 \in Seq(S)
    BY <1>0, SMTT(60) DEF ChainOK
  <2>2. k \in Nat /\ k < Len(l1) /\ fin <= k
    BY <1>0, <1>1, SMTT(60)
  <2>3. l1' \in Seq(S) /\ Len(l1') = k
    BY <1>1, <2>1, <2>2, SMTT(60)
  <2>4. l1' \in Seq({l1'[i] : i \in DOMAIN l1'})
    BY <2>3, SeqOfItself
  <2> QED
    BY <1>0, <2>2, <2>3, <2>4, SMTT(60) DEF ChainOK
<1>4. quota.persistent => Anchored'
  <2>1. \A m \in DOMAIN queue : m + 1 >= Len(l1) => m + 1 >= Len(l1')
    BY <1>0, <1>3, SMTT(60) DEF StoreOK
  <2>2. Len(l1) # 0
    BY <1>0, <1>3, SMTT(60)
  <2> QED
    BY <1>0, <2>1, <2>2, ZenonT(60) DEF PosterInv, Anchored
<1>5. SameBatches
  BY <1>0 DEF SameBatches
<1>6. StoreOK' /\ QueueInv' /\ WaysStay
  BY <1>0, <1>2, <1>5, SameQueue, SameWay, ZenonT(60) DEF StoreOK, WaysStay, QuotaStays
<1>7. \A n \in DOMAIN queue : queue[n].fee >= queue[n].fee
  BY <1>0 DEF StoreOK
<1>8. QueueMoves
  BY <1>0, <1>4, <1>6, <1>7, ZenonT(60) DEF QueueMoves
<1>9. fin' \in Nat /\ fin <= fin' /\ \A p \in Posters : bt[p].pc = "put" => bt[p].nonce >= fin'
  BY <1>0, SMTT(60) DEF PosterInv, BtInv
<1> QED
  BY <1>0, <1>2, <1>3, <1>6, <1>8, <1>9, EnvMoves, ZenonT(60)

\* At first there is nothing.
LEMMA PosterInitInv == ASSUME PosterInit PROVE PosterInv
<1>1. /\ queue = <<>> /\ mempool = {} /\ l1 = <<>> /\ fin = 0 /\ dpNonce = [p \in Posters |-> 0]
      /\ bt = [p \in Posters |-> BtIdle] /\ dt = [p \in Posters |-> DtIdle] /\ quota \in PosterBudgets
  BY Zenon DEF PosterInit
<1>2. QuotaOK
  BY <1>1, BudgetsAssumption, Zenon DEF QuotaOK
<1>3. DOMAIN queue = {} /\ queue = [n \in DOMAIN queue |-> queue[n]]
  BY <1>1
<1>4. StoreOK /\ QueueInv
  BY <1>3, Zenon DEF StoreOK, QueueInv
<1>5. ChainOK /\ Len(l1) = 0
  BY <1>1 DEF ChainOK
<1>6. \A p \in Posters : bt[p] = BtIdle /\ dt[p] = DtIdle
  BY <1>1, Zenon
<1>7. BtIdle.pc = "idle" /\ DtIdle.pc = "idle" /\ DtIdle.todo = {}
  BY SMTT(60) DEF BtIdle, DtIdle
<1>8. ASSUME NEW p \in Posters PROVE BtTypeOK(p) /\ DtTypeOK(p) /\ BtInv(p) /\ \A c : ~ClaimedBy(p, c)
  <2>1. bt[p].pc = "idle" /\ dt[p].pc = "idle" /\ dt[p].todo = {}
    BY <1>6, <1>7, Zenon
  <2> QED
    BY <2>1 DEF BtTypeOK, DtTypeOK, BtInv, ClaimedBy
<1>9. \A c : c \notin Claims
  BY <1>1, <1>8, ClaimsAre, Zenon
<1>10. ClaimsAgree /\ Anchored
  BY <1>5, <1>9, Zenon DEF ClaimsAgree, Anchored
<1>11. dpNonce \in [Posters -> Nat] /\ \A p \in Posters : dpNonce[p] <= fin
  BY <1>1
<1>12. (\A t \in mempool : t.nonce \in Nat /\ t.fee \in Nat) /\ bt = [p \in Posters |-> bt[p]] /\ dt = [p \in Posters |-> dt[p]]
  BY <1>1, Zenon
<1> QED
  BY <1>2, <1>4, <1>5, <1>8, <1>10, <1>11, <1>12, ZenonT(60) DEF PosterInv, PosterTypeOK

\* Every step keeps the invariant.
LEMMA PosterNextInv == ASSUME PosterInv, [PosterNext]_posterVars PROVE PosterInv'
<1>1. ASSUME UNCHANGED posterVars PROVE PosterInv'
  BY <1>1, QuotaSame, QuietInv, Zenon DEF posterVars
<1>2. ASSUME NEW p \in quota.posters, PollWithoutLock(p) \/ PollForReverts(p) \/ InboxRead(p) PROVE PosterInv'
  BY <1>2, QuotaSame, QuietInv, Zenon DEF PollWithoutLock, PollForReverts, InboxRead
<1>3. ASSUME NewMessage \/ LogReorg PROVE PosterInv'
  <2>1. UNCHANGED <<queue, mempool, l1, fin, dpNonce, bt, dt>> /\ (Spend("msg") \/ Spend("reorg"))
    BY <1>3, Zenon DEF NewMessage, LogReorg
  <2>2. QuotaStays
    BY <2>1, QuotaSpent
  <2> QED
    BY <2>1, <2>2, QuietInv, Zenon
<1>4. ASSUME NEW p \in quota.posters, PosterStep(p) PROVE PosterInv'
  BY <1>2, <1>4, MaybePostInv, PostToDASInv, PostTransactionInv, SavePostedInv, SendPostedInv, MarkPostedInv,
     DataPosterPollInv, SaveItemInv, SendItemInv, MarkItemInv, PosterCrashInv, ZenonT(60) DEF PosterStep
<1> QED
  BY <1>1, <1>3, <1>4, IncludeInv, PosterFinalizeInv, PosterL1ReorgInv, ZenonT(60) DEF PosterNext

\* The invariant implies what is said of the queue.
LEMMA PosterInvSound == ASSUME PosterInv PROVE QueueSound
<1>0. StoreOK /\ QueueInv /\ fin \in Nat
  BY Basics
<1>1. ASSUME NEW n \in DOMAIN queue, n + 1 <= LastNonce
      PROVE  n + 1 \in DOMAIN queue /\ queue[n + 1].batch.seq = queue[n].batch.seq + 1 /\ queue[n + 1].batch.from = queue[n].batch.to
  <2>1. LastNonce \in DOMAIN queue
    BY <1>0, LastNonceIs, SMTT(60)
  <2>2. n \in Nat /\ n + 1 \in Nat /\ n <= n + 1
    BY <1>0, SMTT(60) DEF StoreOK
  <2>3. n + 1 \in DOMAIN queue
    BY <1>0, <1>1, <2>1, <2>2, NoHoles, SMTT(60)
  <2> QED
    BY <1>0, <2>3, Zenon DEF QueueInv, Links
<1>2. QueueChained
  BY <1>1, Zenon DEF QueueChained
<1>3. \A t \in mempool : t \in Claims
  BY NoncesStay
<1>4. OneBatchPerNonce
  BY <1>3, Zenon DEF OneBatchPerNonce, PosterInv, ClaimsAgree
<1>5. SentIsStored
  BY <1>3, Zenon DEF SentIsStored, PosterInv, ClaimsAgree, ClaimStored
<1> QED
  BY <1>2, <1>4, <1>5, SMTT(60) DEF QueueSound

\* For any posters, limits and scenarios: the stored queue is one chain of batches, all
\* transactions that were broadcast with one nonce carry one batch, and what was broadcast is
\* stored until it is final, however the posters interleave and crash (PostTransaction, sendTx).
THEOREM QueueIsSound == PosterSpec => []QueueSound
<1>1. PosterInit => PosterInv
  BY PosterInitInv
<1>2. PosterInv /\ [PosterNext]_posterVars => PosterInv'
  BY PosterNextInv
<1>3. PosterInv => QueueSound
  BY PosterInvSound
<1> QED
  BY <1>1, <1>2, <1>3, PTL DEF PosterSpec

\* The invariant implies that there is a reference point.
LEMMA PosterInvReference == ASSUME PosterInv PROVE ReferenceKept
<1>1. SUFFICES ASSUME quota.persistent, l1 # <<>> PROVE DOMAIN queue # {} /\ LastNonce + 1 >= Len(l1)
  BY Zenon DEF ReferenceKept
<1>2. StoreOK /\ QueueInv /\ Anchored /\ ChainOK
  BY <1>1, Zenon DEF PosterInv, PosterTypeOK
<1>3. Len(l1) \in Nat /\ Len(l1) # 0
  BY <1>1, <1>2 DEF ChainOK
<1>4. PICK m \in DOMAIN queue : m + 1 >= Len(l1)
  BY <1>2, <1>3, Zenon DEF Anchored
<1>5. LastNonce \in Nat /\ m <= LastNonce
  BY <1>2, <1>4, LastNonceIs, SMTT(60)
<1>6. m \in Nat
  BY <1>2, <1>4 DEF StoreOK
<1> QED
  BY <1>3, <1>4, <1>5, <1>6, SMTT(60)

\* For any posters, limits and scenarios: a queue that persists reaches at least up to the last
\* transaction in a block, so the next batch continues there, whatever is pruned, reorganized
\* or lost in a crash (updateNonce, getNextNonceAndMaybeMeta).
THEOREM ReferenceIsKept == PosterSpec => []ReferenceKept
<1>1. PosterInit => PosterInv
  BY PosterInitInv
<1>2. PosterInv /\ [PosterNext]_posterVars => PosterInv'
  BY PosterNextInv
<1>3. PosterInv => ReferenceKept
  BY PosterInvReference
<1> QED
  BY <1>1, <1>2, <1>3, PTL DEF PosterSpec
=============================================================================
