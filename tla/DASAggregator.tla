--------------------------- MODULE DASAggregator ---------------------------
(***************************************************************************)
(* Aggregator.Store of das/aggregator.go: one call that stores a batch     *)
(* with every member of the data availability committee in parallel, and   *)
(* answers with a certificate as soon as enough members have signed.  A    *)
(* response is checked (signature, hash, timeout) by the thread that gets  *)
(* it, so here it is good or bad; one that passes these checks may still   *)
(* have another version, which the check of the aggregate signature finds. *)
(***************************************************************************)
EXTENDS Integers, FiniteSets

CONSTANTS
  Services,        \* a.services
  AssumedHonest    \* config.AssumedHonest

ASSUME ServicesFinite == IsFiniteSet(Services)
ASSUME AssumedHonestNat == AssumedHonest \in Nat

VARIABLES
  stored,      \* the members that hold the data
  backend,     \* the thread of each member: running, or how it was answered
  responses,   \* the members whose response is in the channel
  i,           \* the collector's count of rounds
  signers,     \* the members in aggSignersMask
  successes,   \* successfullyStoredCount
  failures,    \* storeFailures
  ctxDone,     \* the context is cancelled
  result       \* what Store returned: none yet, a certificate, an error, refused

vars == <<stored, backend, responses, i, signers, successes, failures, ctxDone, result>>

N == Cardinality(Services)
RequiredServicesForStore == N + 1 - AssumedHonest
MaxAllowedServiceStoreFailures == AssumedHonest - 1

\* The members' calls, the collector and the result keep their types.
TypeOK ==
  /\ stored \subseteq Services
  /\ backend \in [Services -> {"idle", "running", "good", "other", "bad"}]
  /\ responses \subseteq Services /\ signers \subseteq Services
  /\ i \in 0 .. N /\ successes \in 0 .. N /\ failures \in 0 .. N
  /\ ctxDone \in BOOLEAN
  /\ result \in {"none", "cert", "error", "refused"}

Init ==
  /\ stored = {} /\ backend = [s \in Services |-> "idle"]
  /\ responses = {} /\ i = 0 /\ signers = {} /\ successes = 0 /\ failures = 0
  /\ ctxDone = FALSE /\ result = "none"

Started == \A s \in Services : backend[s] # "idle"

\* The data is not signed by the batch poster.
Refuse ==
  /\ ~Started /\ result = "none"
  /\ result' = "refused"
  /\ UNCHANGED <<stored, backend, responses, i, signers, successes, failures, ctxDone>>

Start ==
  /\ ~Started /\ result = "none"
  /\ backend' = [s \in Services |-> "running"]
  /\ UNCHANGED <<stored, responses, i, signers, successes, failures, ctxDone, result>>

\* A member stores the data, which it does before it signs.  Its answer may be
\* lost or come too late.
MemberStores(s) ==
  /\ backend[s] = "running" /\ s \notin stored
  /\ stored' = stored \cup {s}
  /\ UNCHANGED <<backend, responses, i, signers, successes, failures, ctxDone, result>>

\* A certificate whose signature, hash and timeout are right.  Its version is signed too
\* (SerializeSignableFields) but not compared.
GoodResponse(s) ==
  /\ backend[s] = "running" /\ s \in stored
  /\ \E v \in {"good", "other"} : backend' = [backend EXCEPT ![s] = v]
  /\ responses' = responses \cup {s}
  /\ UNCHANGED <<stored, i, signers, successes, failures, ctxDone, result>>

\* An error of the call, its timeout, or an answer that does not verify.
BadResponse(s) ==
  /\ backend[s] = "running"
  /\ backend' = [backend EXCEPT ![s] = "bad"]
  /\ responses' = responses \cup {s}
  /\ UNCHANGED <<stored, i, signers, successes, failures, ctxDone, result>>

Cancel ==
  /\ ~ctxDone /\ Started
  /\ ctxDone' = TRUE
  /\ UNCHANGED <<stored, backend, responses, i, signers, successes, failures, result>>

EnoughStoredOneLess(n) == n + 1 >= RequiredServicesForStore
EnoughStored(n) == n >= RequiredServicesForStore
TooManyFailures(n) == n > MaxAllowedServiceStoreFailures

\* The aggregate signature verifies for a certificate of version 1 only if every signature
\* in it is one of version 1.
Verified(S) == \A s \in S : backend[s] = "good"

\* The end of a round of the collector: Store returns as soon as it is decided, with the
\* certificate if the aggregate of the signatures so far verifies.
Decide(n, f, S) ==
  result' = IF result # "none" THEN result
            ELSE IF EnoughStored(n) THEN IF Verified(S) THEN "cert" ELSE "error"
            ELSE IF TooManyFailures(f) THEN "error" ELSE "none"

Collect(s) ==
  /\ Started /\ i < N /\ s \in responses
  /\ responses' = responses \ {s} /\ i' = i + 1
  /\ IF backend[s] # "bad"
     THEN /\ successes' = successes + 1 /\ UNCHANGED failures
          /\ signers' = signers \cup {s}
     ELSE failures' = failures + 1 /\ UNCHANGED <<successes, signers>>
  /\ Decide(successes', failures', signers')
  /\ UNCHANGED <<stored, backend, ctxDone>>

\* The cancelled context ends the select, not the loop.
CollectDone ==
  /\ Started /\ i < N /\ ctxDone
  /\ i' = i + 1
  /\ Decide(successes, failures, signers)
  /\ UNCHANGED <<stored, backend, responses, signers, successes, failures, ctxDone>>

Member(s) == GoodResponse(s) \/ BadResponse(s)

Next ==
  \/ Refuse \/ Start \/ Cancel \/ CollectDone
  \/ \E s \in Services : MemberStores(s) \/ Member(s) \/ Collect(s)

Spec == Init /\ [][Next]_vars

\* Every call of a member ends, at the latest with its request timeout, and the
\* threads of Store run.
Fairness ==
  /\ WF_vars(Start) /\ WF_vars(CollectDone)
  /\ \A s \in Services : WF_vars(Member(s)) /\ WF_vars(Collect(s))
FairSpec == Spec /\ Fairness

(***************************************************************************)
(* Properties.                                                             *)
(***************************************************************************)

\* What the certificate is for: when AssumedHonest members are honest, one of
\* them at least holds the data, whichever they are.
HonestMemberHasData ==
  result = "cert" =>
    \A H \in SUBSET Services : Cardinality(H) >= AssumedHonest => H \cap stored # {}

\* Store gives up only when the members that can still answer are too few, or when one of
\* those it counted signed another version.  One such member is enough: the others are not
\* asked again, nor is a certificate made of their signatures alone.
ErrorOnlyIfImpossible ==
  result = "error" =>
    \/ Cardinality({s \in Services : backend[s] # "bad"}) < RequiredServicesForStore
    \/ ~Verified(signers)

\* Store certifies what an honest member holds and gives up only when it must (Store).
AggregatorSound == HonestMemberHasData /\ ErrorOnlyIfImpossible

Good == {s \in Services : backend[s] \in {"good", "other"}}
Bad == {s \in Services : backend[s] = "bad"}

\* The collector counts each member once, with what the member really did: the
\* inductive form of the two invariants above.
IInv ==
  /\ TypeOK
  /\ Started \/ \A s \in Services : backend[s] = "idle"
  /\ responses \subseteq Good \cup Bad
  /\ Good \subseteq stored
  /\ signers \subseteq Good \ responses /\ successes = Cardinality(signers)
  /\ failures = Cardinality(Bad \ responses)
  /\ result = "cert" => EnoughStored(successes)
  /\ result = "error" => TooManyFailures(failures) \/ ~Verified(signers)

\* As long as the caller does not cancel it, Store returns, whatever the members
\* answer and in whatever order: the rounds of the collector suffice.
StoreReturns == <>(ctxDone \/ result # "none")

\* "If Store gets not enough successful responses by the time its context is
\* canceled (eg via TimeoutWrapper) then it also returns an error."
CancelledStoreReturns == <>(result # "none")

=============================================================================
