------------------------------ MODULE RedisLock ------------------------------
(***************************************************************************)
(* The lock of arbnode/redislock/redis.go, which batch posters take before *)
(* they store a batch in the DAS and sequencers before database            *)
(* maintenance (arbnode/maintenance.go).  The lock is one Redis key with an*)
(* expiry; each client also keeps lockedUntil, up to which it believes that*)
(* it holds the lock without asking Redis.  A client's clock may run behind*)
(* the clock of Redis by up to MaxSkew; a client that refreshes the lock   *)
(* in the background believes in it for the whole LockoutDuration and has  *)
(* no such margin.                                                         *)
(***************************************************************************)
EXTENDS Integers

CONSTANTS
  Clients,           \* the values of myId that are alive
  LockoutDuration,   \* config.LockoutDuration
  RefreshDuration,   \* config.RefreshDuration
  Pause,             \* how long a client waits after Release before it asks again
  MaxSkew,           \* how far a client's clock is behind that of Redis
  Free,              \* the owner of a key that is not set
  Gone,              \* the myId of a process that crashed
  MaxTime            \* bound on the clock

ASSUME LockDurations ==
  /\ LockoutDuration \in Nat /\ RefreshDuration \in Nat /\ Pause \in Nat /\ MaxSkew \in Nat
  /\ RefreshDuration + MaxSkew <= LockoutDuration
  /\ Pause >= LockoutDuration
  /\ Free \notin Clients /\ Gone \notin Clients /\ MaxTime \in Nat

VARIABLES
  background,   \* config.BackgroundLock
  now,          \* the clock of Redis
  key,          \* the Redis key: its owner, and when it expires
  skew,         \* skew[c]: how far the clock of c is behind
  lockedUntil,  \* lockedUntil[c], on the clock of c; 0 is time.Time{}
  attempt,      \* attempt[c]: timeAtStart of the attemptLock in progress, -1 when none is
  use,          \* use[c]: what the thread that calls AttemptLock is doing
  rest,         \* rest[c]: c asks for the lock again from this time on
  stopping      \* stopping[c]

lockVars == <<background, now, key, skew, lockedUntil, attempt, use, rest, stopping>>

LockInit ==
  /\ now = MaxSkew
  /\ key = [owner |-> Free, exp |-> 0]
  /\ background \in BOOLEAN
  /\ skew \in [Clients -> 0..(IF background THEN 0 ELSE MaxSkew)]
  /\ lockedUntil = [c \in Clients |-> 0]
  /\ attempt = [c \in Clients |-> -1]
  /\ use = [c \in Clients |-> "idle"]
  /\ rest = [c \in Clients |-> 0]
  /\ stopping = [c \in Clients |-> FALSE]

Clock(c) == now - skew[c]

\* Redis drops a key at its expiry.
Kept(k, t) == IF k.owner # Free /\ k.exp <= t THEN [owner |-> Free, exp |-> 0] ELSE k

Locked(c) == Clock(c) < lockedUntil[c]

Tick ==
  /\ now < MaxTime
  /\ now' = now + 1
  /\ key' = Kept(key, now + 1)
  /\ UNCHANGED <<background, skew, lockedUntil, attempt, use, rest, stopping>>

\* AttemptLock: the answer is known without Redis, or a foreground client asks Redis.
AttemptLock(c) ==
  /\ use[c] = "idle" /\ attempt[c] = -1 /\ ~stopping[c] /\ Clock(c) >= rest[c]
  /\ \/ /\ Locked(c)
        /\ use' = [use EXCEPT ![c] = "holding"]
        /\ UNCHANGED attempt
     \/ /\ ~Locked(c) /\ ~background
        /\ use' = [use EXCEPT ![c] = "asking"]
        /\ attempt' = [attempt EXCEPT ![c] = Clock(c)]
  /\ UNCHANGED <<background, now, key, skew, lockedUntil, rest, stopping>>

\* The background loop of Start.
BackgroundAttempt(c) ==
  /\ background /\ attempt[c] = -1 /\ ~stopping[c] /\ Clock(c) >= rest[c]
  /\ attempt' = [attempt EXCEPT ![c] = Clock(c)]
  /\ UNCHANGED <<background, now, key, skew, lockedUntil, use, rest, stopping>>

\* The Redis transaction of attemptLock and what follows it.  Another write of the key, or
\* an error, loses the attempt; the error may also come after the key was set.
AttemptExec(c) ==
  /\ attempt[c] # -1
  /\ attempt' = [attempt EXCEPT ![c] = -1]
  /\ \/ /\ key.owner \in {Free, c}
        /\ key' = Kept([owner |-> c, exp |-> attempt[c] + LockoutDuration], now)
        /\ lockedUntil' = [lockedUntil EXCEPT ![c] =
             attempt[c] + (IF background THEN LockoutDuration ELSE RefreshDuration)]
        /\ use' = [use EXCEPT ![c] = IF @ = "asking" THEN "holding" ELSE @]
     \/ /\ key' \in {key} \cup {k \in {Kept([owner |-> c, exp |-> attempt[c] + LockoutDuration], now)} :
                                  key.owner \in {Free, c}}
        /\ lockedUntil' = [lockedUntil EXCEPT ![c] = 0]
        /\ use' = [use EXCEPT ![c] = IF @ = "asking" THEN "idle" ELSE @]
  /\ UNCHANGED <<background, now, skew, rest, stopping>>

\* The user of the lock is done and keeps it (maybePostSequencerBatch).
Done(c) ==
  /\ use[c] = "holding"
  /\ use' = [use EXCEPT ![c] = "idle"]
  /\ UNCHANGED <<background, now, key, skew, lockedUntil, attempt, rest, stopping>>

\* A variant that deletes the key whoever owns it.
ReleaseAny(c) ==
  /\ use[c] = "holding" /\ attempt[c] = -1
  /\ use' = [use EXCEPT ![c] = "idle"]
  /\ key' = [owner |-> Free, exp |-> 0]
  /\ rest' = [rest EXCEPT ![c] = Clock(c) + Pause]
  /\ UNCHANGED <<background, now, skew, lockedUntil, attempt, stopping>>

\* Release, as maybeRunMaintenance calls it when it returns; lockedUntil keeps its value.
Release(c) ==
  /\ use[c] = "holding" /\ attempt[c] = -1
  /\ use' = [use EXCEPT ![c] = "idle"]
  /\ key' = IF key.owner = c THEN [owner |-> Free, exp |-> 0] ELSE key
  /\ rest' = [rest EXCEPT ![c] = Clock(c) + Pause]
  /\ UNCHANGED <<background, now, skew, lockedUntil, attempt, stopping>>

\* StopAndWait: the user of the lock was stopped before.
LockStop(c) ==
  /\ ~stopping[c] /\ use[c] = "idle" /\ attempt[c] = -1
  /\ stopping' = [stopping EXCEPT ![c] = TRUE]
  /\ key' = IF key.owner = c THEN [owner |-> Free, exp |-> 0] ELSE key
  /\ rest' = [rest EXCEPT ![c] = Clock(c) + Pause]
  /\ UNCHANGED <<background, now, skew, lockedUntil, attempt, use>>

\* A crash: NewSimple gives the next process a new random myId.
LockCrash(c) ==
  /\ key' = IF key.owner = c THEN [key EXCEPT !.owner = Gone] ELSE key
  /\ lockedUntil' = [lockedUntil EXCEPT ![c] = 0]
  /\ attempt' = [attempt EXCEPT ![c] = -1]
  /\ use' = [use EXCEPT ![c] = "idle"]
  /\ rest' = [rest EXCEPT ![c] = 0]
  /\ stopping' = [stopping EXCEPT ![c] = FALSE]
  /\ UNCHANGED <<background, now, skew>>

LockNext ==
  \/ Tick
  \/ \E c \in Clients : \/ AttemptLock(c) \/ BackgroundAttempt(c) \/ AttemptExec(c)
                        \/ Done(c) \/ Release(c) \/ LockStop(c) \/ LockCrash(c)

LockSpec == LockInit /\ [][LockNext]_lockVars

-----------------------------------------------------------------------------
\* The types of the state: the key is free with no expiry, or owned and not expired.
LockTypeOK ==
  /\ background \in BOOLEAN /\ now \in Nat
  /\ skew \in [Clients -> 0..(IF background THEN 0 ELSE MaxSkew)]
  /\ key \in [owner : Clients \cup {Free, Gone}, exp : Nat]
  /\ key.owner # Free => now < key.exp
  /\ lockedUntil \in [Clients -> Nat] /\ rest \in [Clients -> Nat]
  /\ attempt \in [Clients -> Nat \cup {-1}] /\ stopping \in [Clients -> BOOLEAN]
  /\ use \in [Clients -> {"idle", "asking", "holding"}]
  /\ now >= MaxSkew

\* A client is at work under the lock while it has the lock in hand and the time up to which
\* it may believe so is not over.
InUse(c) == use[c] = "holding" /\ Locked(c)

\* Two clients are never at work under the lock at once, whatever crashes, lost answers and
\* late transactions there are, although a client that still believes in its lock does not
\* ask Redis again (AttemptLock, Locked).
LockExclusive == \A c, d \in Clients : InUse(c) /\ InUse(d) => c = d

\* The inductive invariant: a client that may act on its belief owns the key, and the key
\* outlives the belief by the margin the clocks may differ.
LockInv ==
  /\ LockTypeOK
  /\ \A c \in Clients :
       /\ Locked(c) /\ (use[c] = "holding" \/ Clock(c) >= rest[c]) =>
            key.owner = c /\ lockedUntil[c] + skew[c] <= key.exp
       /\ lockedUntil[c] # 0 => lockedUntil[c] <= Clock(c) + LockoutDuration
       /\ attempt[c] <= Clock(c)
       /\ attempt[c] # -1 => rest[c] <= attempt[c]
       /\ use[c] = "holding" => rest[c] <= Clock(c)
       /\ use[c] = "asking" => attempt[c] # -1
       /\ rest[c] > Clock(c) => lockedUntil[c] <= rest[c]
=============================================================================
