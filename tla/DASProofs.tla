----------------------------- MODULE DASProofs ------------------------------
(***************************************************************************)
(* For every committee and every assumed number of honest members: the     *)
(* certificates Store returns are backed, and its errors are justified.    *)
(* For every parent chain: the synchronisation skips no batch.  For every  *)
(* set of storages: a member keeps what it certified.                      *)
(***************************************************************************)
EXTENDS DASAggregator, DASMember, DASL1Sync, FiniteSetTheorems, NaturalsInduction, WellFoundedInduction, TLAPS

\* The cardinality of a set of members is a number between 0 and N.
LEMMA MembersBounded ==
  ASSUME NEW S \in SUBSET Services
  PROVE  IsFiniteSet(S) /\ Cardinality(S) \in 0 .. N /\ N \in Nat
<1>1. IsFiniteSet(S) /\ Cardinality(S) <= Cardinality(Services)
  BY ServicesFinite, FS_Subset
<1>2. Cardinality(S) \in Nat /\ Cardinality(Services) \in Nat
  BY <1>1, ServicesFinite, FS_CardinalityType
<1> QED
  BY <1>1, <1>2 DEF N

\* One more member adds one.
LEMMA OneMoreMember ==
  ASSUME NEW S \in SUBSET Services, NEW s \in Services, s \notin S
  PROVE  Cardinality(S \cup {s}) = Cardinality(S) + 1
BY MembersBounded, FS_AddElement, Zenon

\* Two sets of members that are together larger than the committee share one.
LEMMA MembersOverlap ==
  ASSUME NEW S \in SUBSET Services, NEW T \in SUBSET Services,
         Cardinality(S) + Cardinality(T) > N
  PROVE  S \cap T # {}
<1>1. IsFiniteSet(S) /\ IsFiniteSet(T)
  BY MembersBounded
<1>2. Cardinality(S \cup T) = Cardinality(S) + Cardinality(T) - Cardinality(S \cap T)
  BY <1>1, FS_Union
<1>3. Cardinality(S \cup T) \in 0 .. N /\ Cardinality(S \cap T) \in 0 .. N
  BY MembersBounded
<1>4. Cardinality(S) \in Nat /\ Cardinality(T) \in Nat /\ N \in Nat
  BY MembersBounded, SMTT(60)
<1>5. Cardinality(S \cap T) # 0
  BY <1>2, <1>3, <1>4, SMTT(60)
<1> QED
  BY <1>5, FS_EmptySet

\* The initial states satisfy the inductive invariant.
LEMMA InitInv == Init => IInv
<1> SUFFICES ASSUME Init PROVE IInv
  OBVIOUS
<1>1. Good = {} /\ Bad = {} /\ Cardinality({}) = 0
  BY FS_EmptySet DEF Init, Good, Bad
<1>2. N \in Nat
  BY MembersBounded
<1>3. 0 \in 0 .. N
  BY <1>2
<1>4. TypeOK
  BY <1>3, Zenon DEF Init, TypeOK
<1> QED
  BY <1>1, <1>4 DEF Init, IInv

\* A round that counts n successes of the members S and f failures decides as the invariant
\* says.
LEMMA DecideInv ==
  ASSUME NEW n \in Nat, NEW f \in Nat, NEW S, IInv, Decide(n, f, S),
         n >= successes, f >= failures, signers \subseteq S
  PROVE  /\ result' \in {"none", "cert", "error", "refused"}
         /\ result' = "cert" => EnoughStored(n)
         /\ result' = "error" => TooManyFailures(f) \/ ~Verified(S)
<1>1. successes \in Nat /\ failures \in Nat /\ N \in Nat
  BY MembersBounded DEF IInv, TypeOK
<1>2. CASE result = "none"
  BY <1>2, Zenon DEF Decide
<1>3. CASE result # "none"
  <2>1. result' = result
    BY <1>3, Zenon DEF Decide
  <2>2. ~Verified(signers) => ~Verified(S)
    BY Zenon DEF Verified
  <2>3. /\ result \in {"none", "cert", "error", "refused"}
        /\ result = "cert" => EnoughStored(successes)
        /\ result = "error" => TooManyFailures(failures) \/ ~Verified(signers)
    BY Zenon DEF IInv, TypeOK
  <2>4. (EnoughStored(successes) => EnoughStored(n)) /\ (TooManyFailures(failures) => TooManyFailures(f))
    BY <1>1, AssumedHonestNat, SMTT(60)
    DEF EnoughStored, TooManyFailures, RequiredServicesForStore, MaxAllowedServiceStoreFailures
  <2> QED
    BY <2>1, <2>2, <2>3, <2>4, Zenon
<1> QED
  BY <1>2, <1>3, ZenonT(60)

\* Collecting a response keeps the invariant: the member was not counted before.
LEMMA CollectInv ==
  ASSUME IInv, NEW s \in Services, Collect(s)
  PROVE  IInv'
<1>1. Good' = Good /\ Bad' = Bad /\ Verified(signers') = Verified(signers)'
  BY Zenon DEF Collect, Good, Bad, Verified
<1>2. s \in responses /\ responses' = responses \ {s} /\ s \notin signers
  BY Zenon DEF Collect, IInv
<1>3. Good \in SUBSET Services /\ Bad \in SUBSET Services /\ signers \in SUBSET Services
  BY Zenon DEF Good, Bad, IInv, TypeOK
<1>4. N \in Nat /\ successes \in Nat /\ failures \in Nat
  BY MembersBounded DEF IInv, TypeOK
<1>5. CASE backend[s] # "bad"
  <2>1. /\ successes' = successes + 1 /\ failures' = failures
        /\ signers' = signers \cup {s} /\ Decide(successes', failures', signers')
    BY <1>5, Zenon DEF Collect
  <2>2. s \in Good /\ s \notin Bad
    BY <1>2, <1>5, Zenon DEF Good, Bad, IInv
  <2>3. successes' = Cardinality(signers') /\ signers' \in SUBSET Services
    BY <1>2, <1>3, <2>1, OneMoreMember, Zenon DEF IInv
  <2>4. Bad \ responses' = Bad \ responses
    BY <1>2, <2>2, Zenon
  <2>5. successes' \in 0 .. N
    BY <2>3, MembersBounded, Zenon
  <2>6. /\ result' \in {"none", "cert", "error", "refused"}
        /\ result' = "cert" => EnoughStored(successes')
        /\ result' = "error" => TooManyFailures(failures') \/ ~Verified(signers')
    <3>1. successes' \in Nat /\ failures' \in Nat /\ successes' >= successes /\ failures' >= failures
      BY <1>4, <2>1, SMTT(60)
    <3>2. signers \subseteq signers'
      BY <2>1, Zenon
    <3> QED
      BY <2>1, <3>1, <3>2, DecideInv, Zenon
  <2>7. TypeOK'
    BY <1>2, <1>4, <2>1, <2>3, <2>5, <2>6, SMTT(60) DEF Collect, IInv, TypeOK
  <2> QED
    BY <1>1, <1>2, <2>1, <2>2, <2>3, <2>4, <2>6, <2>7, ZenonT(60) DEF Collect, Started, IInv, EnoughStored, TooManyFailures
<1>6. CASE backend[s] = "bad"
  <2>1. /\ failures' = failures + 1 /\ successes' = successes
        /\ signers' = signers /\ Decide(successes', failures', signers')
    BY <1>6, Zenon DEF Collect
  <2>2. s \in Bad /\ s \notin Good
    BY <1>2, <1>6, Zenon DEF IInv, Good, Bad
  <2>3. Bad \ responses' = (Bad \ responses) \cup {s}
    BY <1>2, <2>2, Zenon
  <2>4. failures' = Cardinality(Bad \ responses')
    BY <1>2, <1>3, <2>1, <2>3, OneMoreMember, ZenonT(60) DEF IInv
  <2>5. failures' \in 0 .. N
    BY <1>3, <2>4, MembersBounded, Zenon
  <2>6. /\ result' \in {"none", "cert", "error", "refused"}
        /\ result' = "cert" => EnoughStored(successes')
        /\ result' = "error" => TooManyFailures(failures') \/ ~Verified(signers')
    <3>1. successes' \in Nat /\ failures' \in Nat /\ successes' >= successes /\ failures' >= failures
      BY <1>4, <2>1, SMTT(60)
    <3>2. signers \subseteq signers'
      BY <2>1, Zenon
    <3> QED
      BY <2>1, <3>1, <3>2, DecideInv, Zenon
  <2>7. TypeOK'
    BY <1>2, <1>4, <2>1, <2>5, <2>6, SMTT(60) DEF Collect, IInv, TypeOK
  <2> QED
    BY <1>1, <1>2, <2>1, <2>2, <2>4, <2>6, <2>7, ZenonT(60) DEF Collect, Started, IInv, EnoughStored, TooManyFailures
<1> QED
  BY <1>5, <1>6, Zenon

\* The response of a member enters the channel before it is counted.
LEMMA MemberInv ==
  ASSUME IInv, NEW s \in Services, Member(s)
  PROVE  IInv'
<1>1. backend[s] = "running" /\ Started
  BY DEF Member, GoodResponse, BadResponse, IInv
<1>2. responses' = responses \cup {s}
  BY Zenon DEF Member, GoodResponse, BadResponse
<1>3. s \notin Good /\ s \notin Bad /\ s \notin responses /\ s \notin signers
  BY <1>1, ZenonT(60) DEF Good, Bad, IInv
<1>4. /\ Good' = IF GoodResponse(s) THEN Good \cup {s} ELSE Good
      /\ Bad' = IF GoodResponse(s) THEN Bad ELSE Bad \cup {s}
  BY SMTT(60), <1>1 DEF Member, GoodResponse, BadResponse, Good, Bad, IInv, TypeOK
<1>5. Bad' \ responses' = Bad \ responses
  BY <1>2, <1>3, <1>4, Zenon
<1>6. Started' /\ TypeOK'
  BY <1>1, <1>2, Zenon DEF Member, GoodResponse, BadResponse, Started, IInv, TypeOK
<1>7. /\ Good' \subseteq stored' /\ responses' \subseteq Good' \cup Bad'
      /\ signers' \subseteq Good' \ responses'
  BY <1>2, <1>3, <1>4, Zenon DEF Member, GoodResponse, BadResponse, IInv
<1>8. UNCHANGED <<signers, successes, failures, result>> /\ Verified(signers)' = Verified(signers)
  <2>1. UNCHANGED <<signers, successes, failures, result>>
    BY Zenon DEF Member, GoodResponse, BadResponse
  <2>2. \A t \in signers : t # s /\ t \in Services
    BY <1>3, Zenon DEF IInv, TypeOK
  <2>3. \E v : backend' = [backend EXCEPT ![s] = v]
    BY Zenon DEF Member, GoodResponse, BadResponse
  <2>4. \A t \in signers : backend'[t] = backend[t]
    BY <2>2, <2>3, Zenon DEF IInv, TypeOK
  <2> QED
    BY <2>1, <2>4, Zenon DEF Verified
<1> QED
  BY <1>5, <1>6, <1>7, <1>8, ZenonT(60) DEF IInv, EnoughStored, TooManyFailures

\* Every step keeps the invariant.
LEMMA NextInv ==
  ASSUME IInv, [Next]_vars
  PROVE  IInv'
<1>1. CASE Refuse
  BY <1>1 DEF Refuse, Started, IInv, TypeOK, Good, Bad, Verified, EnoughStored, TooManyFailures
<1>2. CASE Start
  <2>1. \A s \in Services : backend[s] = "idle"
    BY <1>2, Zenon DEF Start, IInv
  <2>2. Good = {} /\ Bad = {} /\ Good' = {} /\ Bad' = {}
    BY <1>2, <2>1, Zenon DEF Start, Good, Bad
  <2>3. Started' /\ TypeOK'
    BY <1>2, ZenonT(60) DEF Start, Started, IInv, TypeOK
  <2> QED
    BY <1>2, <2>2, <2>3, Zenon DEF Start, IInv, Verified, EnoughStored, TooManyFailures
<1>3. CASE Cancel
  BY <1>3 DEF Cancel, Started, IInv, TypeOK, Good, Bad, Verified, EnoughStored, TooManyFailures
<1>4. CASE CollectDone
  <2>1. successes \in Nat /\ failures \in Nat /\ N \in Nat
    BY MembersBounded DEF IInv, TypeOK
  <2>2. /\ result' \in {"none", "cert", "error", "refused"}
        /\ result' = "cert" => EnoughStored(successes)
        /\ result' = "error" => TooManyFailures(failures) \/ ~Verified(signers)
    <3>1. Decide(successes, failures, signers) /\ signers \subseteq signers
      BY <1>4, Zenon DEF CollectDone
    <3>2. successes >= successes /\ failures >= failures
      BY <2>1, SMTT(60)
    <3> QED
      BY <2>1, <3>1, <3>2, DecideInv, Zenon
  <2>3. TypeOK'
    BY <1>4, <2>1, <2>2, SMTT(60) DEF CollectDone, IInv, TypeOK
  <2> QED
    BY <1>4, <2>2, <2>3, ZenonT(60) DEF CollectDone, Started, IInv, Good, Bad, Verified, EnoughStored, TooManyFailures
<1>5. ASSUME NEW s \in Services, MemberStores(s)
      PROVE  IInv'
  BY <1>5, Zenon DEF MemberStores, Started, IInv, TypeOK, Good, Bad, Verified, EnoughStored, TooManyFailures
<1>6. ASSUME NEW s \in Services, Member(s)
      PROVE  IInv'
  BY <1>6, MemberInv, Zenon
<1>7. ASSUME NEW s \in Services, Collect(s)
      PROVE  IInv'
  BY <1>7, CollectInv, Zenon
<1>8. CASE UNCHANGED vars
  BY <1>8, Zenon DEF vars, Started, IInv, TypeOK, Good, Bad, Verified, EnoughStored, TooManyFailures
<1> QED
  BY <1>1, <1>2, <1>3, <1>4, <1>5, <1>6, <1>7, <1>8, SMTT(60) DEF Next

\* The collector's counts are right in every reachable state of Store.
THEOREM Invariance == Spec => []IInv
<1> QED
  BY InitInv, NextInv, PTL DEF Spec

\* A certificate of Aggregator.Store says that one honest member has the data.
THEOREM CertificateIsBacked == Spec => []HonestMemberHasData
<1>1. ASSUME IInv PROVE HonestMemberHasData
  <2> SUFFICES ASSUME result = "cert", NEW H \in SUBSET Services, Cardinality(H) >= AssumedHonest
               PROVE  H \cap stored # {}
    BY DEF HonestMemberHasData
  <2>1. signers \in SUBSET Services /\ signers \subseteq stored
    BY <1>1, Zenon DEF IInv, TypeOK
  <2>2. Cardinality(signers) >= N + 1 - AssumedHonest
    BY <1>1, Zenon DEF IInv, EnoughStored, RequiredServicesForStore
  <2>3. Cardinality(signers) \in Nat /\ Cardinality(H) \in Nat /\ N \in Nat
    BY <2>1, MembersBounded
  <2>4. H \cap signers # {}
    BY <2>1, <2>2, <2>3, AssumedHonestNat, MembersOverlap, SMTT(60)
  <2> QED
    BY <2>1, <2>4, SMTT(60)
<1> QED
  BY <1>1, Invariance, PTL

\* An error of Aggregator.Store says that too few members are left to sign, or that one of
\* the members it counted signed another version.
THEOREM ErrorIsJustified == Spec => []ErrorOnlyIfImpossible
<1>1. ASSUME IInv PROVE ErrorOnlyIfImpossible
  <2> SUFFICES ASSUME result = "error", Verified(signers)
               PROVE  Cardinality({s \in Services : backend[s] # "bad"}) < RequiredServicesForStore
    BY DEF ErrorOnlyIfImpossible
  <2> DEFINE Left == {s \in Services : backend[s] # "bad"}
             Failed == Bad \ responses
  <2>1. Left \in SUBSET Services /\ Failed \in SUBSET Services /\ Left \cap Failed = {}
    BY DEF Bad
  <2>2. Cardinality(Failed) > AssumedHonest - 1
    BY <1>1, Zenon DEF IInv, TooManyFailures, MaxAllowedServiceStoreFailures
  <2>3. Cardinality(Left) \in Nat /\ Cardinality(Failed) \in Nat /\ N \in Nat
    BY <2>1, MembersBounded
  <2>4. ~(Cardinality(Left) + Cardinality(Failed) > N)
    BY <2>1, MembersOverlap, Zenon
  <2> HIDE DEF Left, Failed
  <2>5. Cardinality(Left) < RequiredServicesForStore
    BY <2>2, <2>3, <2>4, AssumedHonestNat, SMTT(60) DEF RequiredServicesForStore
  <2> QED
    BY <2>5 DEF Left
<1> QED
  BY <1>1, Invariance, PTL

\* However many members answer, fail or are slow, and in whatever order the collector hears of
\* them: Store certifies only what an honest member holds, and gives up only when it must.
THEOREM StoreIsSound == Spec => []AggregatorSound
<1> QED
  BY CertificateIsBacked, ErrorIsJustified, PTL DEF AggregatorSound
-----------------------------------------------------------------------------
(* The synchronisation from the parent chain.                              *)

Blocks == [kind : {"none", "das", "other", "old"}, n : Nat, fork : Nat]
Logs == [block : Blocks, acc : SUBSET Blocks]
Syncs == [pc : {"read", "fetch", "logs"}, low : Nat, catchingUp : BOOLEAN, high : Nat, finalized : Nat,
          logs : SUBSET Logs, lastCount : Int, lastAcc : SUBSET Blocks, retry : BOOLEAN, news : BOOLEAN]
Budgets == [forks : Nat, faults : Nat]

\* The blocks that no reorganisation replaces.
Settled == Len(l1) - Confirmations

ChainInv ==
  /\ l1 \in Seq(Blocks) /\ Len(l1) \in Confirmations + 1 .. SyMaxHead + 1
  /\ \A k \in 1 .. Len(l1) : l1[k].n = k - 1

\* What is remembered of the inbox is never what it holds: the count is one too low.
LastInv ==
  /\ \A log \in sy.logs : IsFiniteSet(log.acc)
  /\ (sy.lastAcc = {} /\ sy.lastCount = 0) \/ Cardinality(sy.lastAcc) = sy.lastCount + 1

\* What is on the chain up to the end of the range is kept or among the logs to come.
RangeInv ==
  /\ sy.pc # "read" => sy.finalized < Settled /\ sy.finalized <= sy.high
  /\ sy.pc = "logs"
       => \A k \in 1 .. Len(l1) :
            k - 1 <= sy.finalized /\ l1[k].kind = "das" => l1[k] \in kept \/ \E log \in sy.logs : log.block = l1[k]

SyInv ==
  /\ ChainInv /\ sy \in Syncs /\ sybudget \in Budgets
  /\ file \in Int /\ file >= -1 /\ file <= Settled /\ sy.low <= Settled
  /\ NothingSkipped /\ LastInv /\ RangeInv

\* The batches on a chain are finitely many.
LEMMA DeliveredFinite ==
  ASSUME ChainInv
  PROVE  IsFiniteSet(Delivered(l1)) /\ Delivered(l1) \subseteq Blocks
<1> DEFINE J == {j \in 1 .. Len(l1) : l1[j].kind # "none"}
<1>1. IsFiniteSet(J)
  <2>1. IsFiniteSet(1 .. Len(l1))
    BY FS_Interval DEF ChainInv
  <2> QED
    BY <2>1, FS_Subset, Zenon
<1>2. Delivered(l1) = {l1[j] : j \in J}
  BY Zenon DEF Delivered
<1>3. IsFiniteSet({l1[j] : j \in J})
  <2> DEFINE f == [j \in J |-> l1[j]]
  <2>1. f \in Surjection(J, {l1[j] : j \in J})
    BY Zenon DEF Surjection
  <2> HIDE DEF f
  <2> QED
    BY <1>1, <2>1, FS_Surjection, Zenon
<1>4. {l1[j] : j \in J} \subseteq Blocks
  BY DEF ChainInv
<1> QED
  BY <1>2, <1>3, <1>4, Zenon

\* A block of the parent chain carries its number.
LEMMA BlockType ==
  ASSUME NEW kind \in {"none", "das", "other", "old"}, NEW n \in Nat, NEW fork \in Nat
  PROVE  Block1(kind, n, fork) \in Blocks /\ Block1(kind, n, fork).n = n
<1> DEFINE f == IF kind = "none" THEN 0 ELSE fork
<1>1. f \in Nat
  OBVIOUS
<1>2. Block1(kind, n, fork) = [kind |-> kind, n |-> n, fork |-> f]
  BY Zenon DEF Block1
<1> HIDE DEF f
<1> QED
  BY <1>1, <1>2, SMTT(60) DEF Blocks

\* Some number of a set is the least.
LEMMA LeastNat ==
  ASSUME NEW X \in SUBSET Nat, X # {}
  PROVE  \E x \in X : \A y \in X : x <= y
<1>1. PICK x \in X : \A y \in X : ~(<<y, x>> \in OpToRel(<, Nat))
  BY NatLessThanWellFounded, WFMin, Zenon
<1>2. \A y \in X : ~(y < x)
  BY <1>1, Zenon DEF OpToRel
<1> QED
  BY <1>2

\* A fault uses up one of those allowed.
LEMMA FaultBudget ==
  ASSUME sybudget \in Budgets, Fault
  PROVE  sybudget' \in Budgets
<1>1. sybudget.faults \in Nat /\ sybudget.faults > 0
  BY Zenon DEF Fault, Budgets
<1>2. sybudget.faults - 1 \in Nat
  BY <1>1
<1> QED
  BY <1>2, Zenon DEF Fault, Budgets

\* A step of the service that leaves the chain alone, keeps what is in the storage, and goes on from
\* where it was, reads again.
LEMMA SyReadsAgain ==
  ASSUME SyInv, sy' \in Syncs, sy'.pc = "read", sy'.low = sy.low, sy'.logs = {},
         sy'.lastCount = sy.lastCount, sy'.lastAcc = sy.lastAcc, sybudget' \in Budgets,
         UNCHANGED <<l1, file, kept>>
  PROVE  SyInv'
<1>1. ChainInv' /\ Settled' = Settled /\ NothingSkipped'
  BY Zenon DEF SyInv, ChainInv, Settled, NothingSkipped, HasAllBelow
<1>2. LastInv' /\ RangeInv'
  BY Zenon DEF SyInv, LastInv, RangeInv
<1> QED
  BY <1>1, <1>2, Zenon DEF SyInv

\* A chain that keeps its settled blocks keeps what the service relies on.
LEMMA SyChainStep ==
  ASSUME SyInv, ChainInv', Len(l1') >= Len(l1), \A k \in 1 .. Settled : l1'[k] = l1[k],
         sy' = [sy EXCEPT !.news = TRUE], sybudget' \in Budgets, UNCHANGED <<file, kept>>
  PROVE  SyInv'
<1>0. /\ Settled \in 1 .. Len(l1) /\ Settled' >= Settled /\ Settled' \in Int
      /\ sy \in Syncs /\ file \in Int /\ file <= Settled /\ sy.low <= Settled
  <2>1. Len(l1) \in Confirmations + 1 .. SyMaxHead + 1 /\ Len(l1') \in Confirmations + 1 .. SyMaxHead + 1
    BY Zenon DEF SyInv, ChainInv
  <2>2. sy \in Syncs /\ file \in Int /\ file <= Settled /\ sy.low <= Settled
    BY Zenon DEF SyInv
  <2>3. Confirmations \in Nat /\ SyMaxHead \in Nat
    BY SyAssumption, Zenon
  <2>4. Settled \in 1 .. Len(l1) /\ Settled' >= Settled /\ Settled' \in Int
    BY <2>1, <2>3, SMTT(60) DEF Settled
  <2> QED
    BY <2>2, <2>4, ZenonT(60)
<1>1. /\ sy' \in Syncs /\ sy'.pc = sy.pc /\ sy'.low = sy.low /\ sy'.finalized = sy.finalized /\ sy'.high = sy.high
      /\ sy'.logs = sy.logs /\ sy'.lastCount = sy.lastCount /\ sy'.lastAcc = sy.lastAcc
  BY <1>0, Zenon DEF Syncs
<1>2. ASSUME NEW low \in Int, low <= Settled, HasAllBelow(low) PROVE HasAllBelow(low)'
  <2> SUFFICES ASSUME NEW k \in 1 .. Len(l1'), k - 1 < low, l1'[k].kind = "das" PROVE l1'[k] \in kept
    BY Zenon DEF HasAllBelow
  <2>1. k \in 1 .. Settled /\ k \in 1 .. Len(l1)
    BY <1>0, <1>2, SMTT(60)
  <2> QED
    BY <1>2, <2>1, Zenon DEF HasAllBelow
<1>3. sy.low \in Int /\ sy.finalized \in Nat
  BY <1>0 DEF Syncs
<1>4. HasAllBelow(sy.low)' /\ HasAllBelow(file)'
  <2>1. HasAllBelow(sy.low) /\ HasAllBelow(file)
    BY Zenon DEF SyInv, NothingSkipped
  <2> DEFINE a == sy.low
             b == file
  <2>2. HasAllBelow(a)' /\ HasAllBelow(b)'
    <3>1. \A low \in Int : low <= Settled /\ HasAllBelow(low) => \A k \in 1 .. Len(l1') : k - 1 < low /\ l1'[k].kind = "das" => l1'[k] \in kept'
      BY <1>2, Zenon DEF HasAllBelow
    <3> QED
      BY <1>0, <1>1, <1>3, <2>1, <3>1, Zenon DEF HasAllBelow
  <2> QED
    BY <2>2
<1>5. RangeInv'
  <2>1. sy'.pc # "read" => sy'.finalized < Settled' /\ sy'.finalized <= sy'.high
    BY <1>0, <1>1, <1>3, SMTT(60) DEF SyInv, RangeInv
  <2>2. ASSUME sy'.pc = "logs", NEW k \in 1 .. Len(l1'), k - 1 <= sy'.finalized, l1'[k].kind = "das"
        PROVE  l1'[k] \in kept' \/ \E log \in sy'.logs : log.block = l1'[k]
    <3>1. sy.finalized < Settled
      BY <1>1, <2>2, SMTT(60) DEF SyInv, RangeInv
    <3>2. k \in 1 .. Settled /\ k \in 1 .. Len(l1)
      BY <1>0, <1>1, <1>3, <2>2, <3>1, SMTT(60)
    <3> QED
      <4>1. sy.pc = "logs" /\ k - 1 <= sy.finalized /\ l1[k].kind = "das" /\ l1'[k] = l1[k]
        BY <1>1, <2>2, <3>2, Zenon
      <4>2. l1[k] \in kept \/ \E log \in sy.logs : log.block = l1[k]
        BY <3>2, <4>1, Zenon DEF SyInv, RangeInv
      <4> QED
        BY <1>1, <4>1, <4>2, Zenon
  <2> QED
    BY <2>1, <2>2, Zenon DEF RangeInv
<1>6. LastInv'
  BY <1>1, Zenon DEF SyInv, LastInv
<1>7. file <= Settled' /\ sy.low <= Settled'
  BY <1>0, <1>3, SMTT(60)
<1> QED
  BY <1>0, <1>1, <1>4, <1>5, <1>6, <1>7, ZenonT(60) DEF SyInv, NothingSkipped

\* Every step of the service and of the parent chain keeps the invariant.
LEMMA SyStep == SyInv /\ [SyNext]_syvars => SyInv'
<1> SUFFICES ASSUME SyInv, [SyNext]_syvars PROVE SyInv'
  OBVIOUS
<1>0. /\ ChainInv /\ sy \in Syncs /\ file \in Int /\ NothingSkipped /\ LastInv /\ RangeInv
      /\ file <= Settled /\ sy.low <= Settled /\ sybudget \in Budgets
  BY Zenon DEF SyInv
<1>a. /\ Confirmations \in Nat /\ BlocksPerRead \in Nat /\ SyWord \in Nat /\ SyMaxHead \in Nat /\ SyMaxHead + 1 < SyWord
      /\ Len(l1) \in Confirmations + 1 .. SyMaxHead + 1
  BY <1>0, SyAssumption, Zenon DEF ChainInv
<1>b. /\ sy.low \in Nat /\ sy.finalized \in Nat /\ sy.high \in Nat /\ sy.lastCount \in Int
      /\ sy.logs \in SUBSET Logs /\ sy.lastAcc \in SUBSET Blocks /\ sy.catchingUp \in BOOLEAN /\ sy.pc \in {"read", "fetch", "logs"}
  BY <1>0, Zenon DEF Syncs
<1>1. CASE UNCHANGED syvars
  BY <1>0, <1>1, Zenon DEF syvars, SyInv, ChainInv, Settled, NothingSkipped, HasAllBelow, LastInv, RangeInv
<1>2. CASE ReadHeader
  <2> DEFINE s == [sy EXCEPT !.retry = FALSE, !.news = FALSE]
             count == Cardinality(Delivered(l1))
  <2>1. /\ UNCHANGED <<l1, file, kept, sybudget>> /\ sy.pc = "read"
        /\ sy' = IF count = s.lastCount /\ count = 0 THEN FailRead(s)
                 ELSE IF count = s.lastCount /\ Delivered(l1) = s.lastAcc
                 THEN [s EXCEPT !.low = FinalizedNumber(Head1), !.catchingUp = FALSE]
                 ELSE RangeOf(s, Head1)
    BY <1>2, Zenon DEF ReadHeader, Awake
  <2>2. /\ s \in Syncs /\ s.pc = "read" /\ s.low = sy.low /\ s.lastCount = sy.lastCount /\ s.lastAcc = sy.lastAcc
        /\ s.logs = sy.logs
    BY <1>0, <2>1, Zenon DEF Syncs
  <2> HIDE DEF s
  <2>3. ~(count = s.lastCount /\ count # 0 /\ Delivered(l1) = s.lastAcc)
    <3>1. count \in Nat
      BY <1>0, DeliveredFinite, FS_CardinalityType, Zenon
    <3>2. (s.lastAcc = {} /\ s.lastCount = 0) \/ Cardinality(s.lastAcc) = s.lastCount + 1
      BY <1>0, <2>2, Zenon DEF LastInv
    <3> HIDE DEF count
    <3>3. ~(count = s.lastCount /\ count = s.lastCount + 1)
      BY <3>1, SMTT(60)
    <3> QED
      BY <3>1, <3>2, <3>3, Zenon DEF count
  <2>4. CASE sy' = FailRead(s)
    <3>1. /\ sy' \in Syncs /\ sy'.pc = "read" /\ sy'.low = sy.low /\ sy'.logs = {}
          /\ sy'.lastCount = sy.lastCount /\ sy'.lastAcc = sy.lastAcc
      BY <2>2, <2>4, Zenon DEF FailRead, Syncs
    <3> QED
      BY <1>0, <2>1, <3>1, SyReadsAgain, Zenon
  <2>5. CASE sy' = RangeOf(s, Head1)
    <3> DEFINE limit == (s.low + BlocksPerRead) % SyWord
               fin == FinalizedNumber(Head1)
    <3>1. limit \in Nat /\ fin = Len(l1) - 1 - Confirmations /\ fin \in Nat /\ Head1 \in Nat /\ fin <= Head1
      <4>1. s.low + BlocksPerRead \in Nat /\ SyWord > 0
        BY <1>a, <1>b, <2>2, SMTT(60)
      <4>2. limit \in Nat
        BY <4>1, <1>a
      <4>3. Head1 = Len(l1) - 1 /\ Len(l1) - 1 - Confirmations \in 0 .. SyWord - 1
        BY <1>a DEF Head1
      <4>4. (Len(l1) - 1 - Confirmations) % SyWord = Len(l1) - 1 - Confirmations
        BY <1>a, <4>3
      <4> QED
        BY <1>a, <4>2, <4>3, <4>4, SMTT(60) DEF FinalizedNumber
    <3>2. \E c \in BOOLEAN, high \in Nat, f \in Nat :
            /\ f <= fin /\ f <= high
            /\ sy' = [s EXCEPT !.pc = "fetch", !.catchingUp = c, !.high = high, !.finalized = f]
      <4> HIDE DEF limit, fin
      <4>1. CASE Head1 > limit
        <5>1. sy' = [s EXCEPT !.pc = "fetch", !.catchingUp = TRUE, !.high = limit, !.finalized = IF fin > limit THEN limit ELSE fin]
          BY <2>5, <4>1, Zenon DEF RangeOf, limit, fin
        <5> DEFINE f == IF fin > limit THEN limit ELSE fin
        <5>2. f \in Nat /\ f <= fin /\ f <= limit
          BY <3>1
        <5> HIDE DEF f
        <5>3. sy' = [s EXCEPT !.pc = "fetch", !.catchingUp = TRUE, !.high = limit, !.finalized = f]
          BY <5>1, Zenon DEF f
        <5> QED
          BY <3>1, <5>2, <5>3, Zenon
      <4>2. CASE ~(Head1 > limit)
        <5>1. sy' = [s EXCEPT !.pc = "fetch", !.catchingUp = FALSE, !.high = Head1, !.finalized = fin]
          BY <2>5, <4>2, Zenon DEF RangeOf, limit, fin
        <5>2. fin <= fin
          BY <3>1
        <5> QED
          BY <3>1, <5>1, <5>2, Zenon
      <4> QED
        BY <4>1, <4>2, Zenon
    <3>3. PICK c \in BOOLEAN, high \in Nat, f \in Nat :
            /\ f <= fin /\ f <= high
            /\ sy' = [s EXCEPT !.pc = "fetch", !.catchingUp = c, !.high = high, !.finalized = f]
      BY <3>2, Zenon
    <3>4. /\ sy' \in Syncs /\ sy'.pc = "fetch" /\ sy'.low = sy.low /\ sy'.high = high /\ sy'.finalized = f
          /\ sy'.logs = sy.logs /\ sy'.lastCount = sy.lastCount /\ sy'.lastAcc = sy.lastAcc
      BY <2>2, <3>3, Zenon DEF Syncs
    <3>5. f < Settled
      BY <1>a, <3>1, <3>3, SMTT(60) DEF Settled
    <3>6. RangeInv' /\ LastInv'
      BY <1>0, <2>1, <3>3, <3>4, <3>5, Zenon DEF RangeInv, LastInv, Settled
    <3>7. ChainInv' /\ Settled' = Settled /\ NothingSkipped'
      BY <1>0, <2>1, <3>4, Zenon DEF ChainInv, Settled, NothingSkipped, HasAllBelow
    <3> QED
      BY <1>0, <2>1, <3>4, <3>6, <3>7, ZenonT(60) DEF SyInv
  <2> QED
    BY <2>1, <2>3, <2>4, <2>5, Zenon
<1>3. CASE CallFails \/ BatchFails
  <2>1. /\ UNCHANGED <<l1, file, kept>> /\ (sybudget' = sybudget \/ Fault)
        /\ \E news \in BOOLEAN : sy' = FailRead([sy EXCEPT !.news = news])
    <3>1. CASE CallFails
      BY <3>1, Zenon DEF CallFails
    <3>2. CASE BatchFails
      <4>1. sy = [sy EXCEPT !.news = sy.news] /\ sy.news \in BOOLEAN
        BY <1>0, Zenon DEF Syncs
      <4> QED
        BY <3>2, <4>1, Zenon DEF BatchFails
    <3> QED
      BY <1>3, <3>1, <3>2, Zenon
  <2>2. PICK news \in BOOLEAN : sy' = FailRead([sy EXCEPT !.news = news])
    BY <2>1, Zenon
  <2>3. /\ sy' \in Syncs /\ sy'.pc = "read" /\ sy'.low = sy.low /\ sy'.logs = {}
        /\ sy'.lastCount = sy.lastCount /\ sy'.lastAcc = sy.lastAcc
    BY <1>0, <2>2, Zenon DEF FailRead, Syncs
  <2>4. sybudget' \in Budgets
    BY <1>0, <2>1, FaultBudget, Zenon
  <2> QED
    BY <2>1, <2>3, <2>4, SyReadsAgain, ZenonT(60)
<1>4. CASE FilterLogs
  <2>1. /\ sy.pc = "fetch" /\ UNCHANGED <<l1, file, kept, sybudget>>
        /\ sy' = IF sy.low > sy.high THEN FailRead(sy) ELSE [sy EXCEPT !.pc = "logs", !.logs = LogsIn(sy.low, sy.high)]
    BY <1>4, Zenon DEF FilterLogs
  <2>2. CASE sy.low > sy.high
    <3>1. /\ sy' \in Syncs /\ sy'.pc = "read" /\ sy'.low = sy.low /\ sy'.logs = {}
          /\ sy'.lastCount = sy.lastCount /\ sy'.lastAcc = sy.lastAcc
      BY <1>0, <2>1, <2>2, Zenon DEF FailRead, Syncs
    <3> QED
      BY <1>0, <2>1, <3>1, SyReadsAgain, Zenon
  <2>3. CASE ~(sy.low > sy.high)
    <3>1. sy' = [sy EXCEPT !.pc = "logs", !.logs = LogsIn(sy.low, sy.high)]
      BY <2>1, <2>3, Zenon
    <3>2. LogsIn(sy.low, sy.high) \subseteq Logs /\ \A log \in LogsIn(sy.low, sy.high) : IsFiniteSet(log.acc)
      <4> SUFFICES ASSUME NEW b \in Delivered(l1) PROVE LogOf(b) \in Logs /\ IsFiniteSet(LogOf(b).acc)
        BY Zenon DEF LogsIn
      <4>1. {d \in Delivered(l1) : d.n <= b.n} \subseteq Delivered(l1)
        BY Zenon
      <4>2. IsFiniteSet({d \in Delivered(l1) : d.n <= b.n})
        BY <1>0, <4>1, DeliveredFinite, FS_Subset, Zenon
      <4> QED
        BY <1>0, <4>1, <4>2, DeliveredFinite, Zenon DEF LogOf, Logs
    <3>3. /\ sy' \in Syncs /\ sy'.pc = "logs" /\ sy'.low = sy.low /\ sy'.high = sy.high /\ sy'.finalized = sy.finalized
          /\ sy'.logs = LogsIn(sy.low, sy.high) /\ sy'.lastCount = sy.lastCount /\ sy'.lastAcc = sy.lastAcc
      BY <1>0, <3>1, <3>2, Zenon DEF Syncs
    <3>4. LastInv' /\ ChainInv' /\ Settled' = Settled /\ NothingSkipped'
      BY <1>0, <2>1, <3>2, <3>3, Zenon DEF LastInv, ChainInv, Settled, NothingSkipped, HasAllBelow
    <3>5. ASSUME NEW k \in 1 .. Len(l1), k - 1 <= sy.finalized, l1[k].kind = "das"
          PROVE  l1[k] \in kept \/ \E log \in LogsIn(sy.low, sy.high) : log.block = l1[k]
      <4>1. l1[k].n = k - 1
        BY <1>0, Zenon DEF ChainInv
      <4>2. CASE k - 1 < sy.low
        BY <1>0, <3>5, <4>2, Zenon DEF NothingSkipped, HasAllBelow
      <4>3. CASE ~(k - 1 < sy.low)
        <5>1. l1[k].n \in sy.low .. sy.high
          <6>1. sy.finalized <= sy.high
            BY <1>0, <2>1, Zenon DEF RangeInv
          <6> QED
            BY <1>b, <3>5, <4>1, <4>3, <6>1, SMTT(60)
        <5>2. l1[k] \in Delivered(l1)
          BY <3>5, Zenon DEF Delivered
        <5>3. LogOf(l1[k]) \in LogsIn(sy.low, sy.high) /\ LogOf(l1[k]).block = l1[k]
          BY <5>1, <5>2, Zenon DEF LogsIn, LogOf
        <5> QED
          BY <5>3, Zenon
      <4> QED
        BY <4>2, <4>3, Zenon
    <3>6. RangeInv'
      BY <1>0, <2>1, <3>3, <3>4, <3>5, ZenonT(60) DEF RangeInv
    <3> QED
      BY <1>0, <2>1, <3>3, <3>4, <3>6, ZenonT(60) DEF SyInv
  <2> QED
    BY <2>2, <2>3, Zenon
<1>5. CASE ProcessBatch
  <2> DEFINE log == NextLog(sy.logs)
             s == [sy EXCEPT !.logs = @ \ {log}]
  <2>1. /\ sy.pc = "logs" /\ sy.logs # {} /\ UNCHANGED <<l1, file, sybudget>>
        /\ IF log.block.kind # "das" THEN sy' = s /\ UNCHANGED kept
           ELSE /\ kept' = kept \cup {log.block}
                /\ sy' = IF s.lastCount <= SeqNumber(log) + 1
                         THEN [s EXCEPT !.lastCount = SeqNumber(log), !.lastAcc = log.acc] ELSE s
    BY <1>5, Zenon DEF ProcessBatch
  <2>2. log \in sy.logs
    <3>1. \E first \in sy.logs : \A other \in sy.logs : first.block.n <= other.block.n
      <4> DEFINE X == {other.block.n : other \in sy.logs}
      <4>1. X \subseteq Nat /\ X # {}
        <5>1. ASSUME NEW other \in sy.logs PROVE other.block.n \in Nat
          <6>1. other.block \in Blocks
            BY <1>b, Zenon DEF Logs
          <6> QED
            BY <6>1, Zenon DEF Blocks
        <5>2. PICK other \in sy.logs : TRUE
          BY <2>1, Zenon
        <5>3. other.block.n \in X
          BY <5>2, Zenon
        <5>4. X \subseteq Nat
          BY <5>1, Zenon
        <5> QED
          BY <5>3, <5>4, Zenon
      <4>2. PICK x \in X : \A y \in X : x <= y
        <5> HIDE DEF X
        <5> QED
          BY <4>1, LeastNat, Zenon
      <4> QED
        BY <4>2, Zenon
    <3> QED
      BY <3>1, Zenon DEF NextLog
  <2>3. log \in Logs /\ log.acc \subseteq Blocks /\ IsFiniteSet(log.acc)
    BY <1>0, <1>b, <2>2, Zenon DEF Logs, LastInv
  <2>4. SeqNumber(log) \in Int /\ Cardinality(log.acc) = SeqNumber(log) + 1
    <3>1. Cardinality(log.acc) \in Nat
      BY <2>3, FS_CardinalityType, Zenon
    <3> QED
      BY <3>1 DEF SeqNumber
  <2> HIDE DEF log
  <2>5. /\ s \in Syncs /\ s.pc = "logs" /\ s.low = sy.low /\ s.high = sy.high /\ s.finalized = sy.finalized
        /\ s.logs = sy.logs \ {log} /\ s.lastCount = sy.lastCount /\ s.lastAcc = sy.lastAcc
    BY <1>0, <2>1, Zenon DEF Syncs
  <2> HIDE DEF s
  <2>6. /\ sy' \in Syncs /\ sy'.pc = "logs" /\ sy'.low = sy.low /\ sy'.high = sy.high /\ sy'.finalized = sy.finalized
        /\ sy'.logs = sy.logs \ {log}
        /\ (sy'.lastCount = sy.lastCount /\ sy'.lastAcc = sy.lastAcc)
           \/ (sy'.lastCount = SeqNumber(log) /\ sy'.lastAcc = log.acc)
        /\ kept \subseteq kept' /\ (log.block.kind = "das" => log.block \in kept')
    <3>1. CASE sy' = s
      BY <2>1, <2>5, <3>1, Zenon
    <3>2. CASE sy' = [s EXCEPT !.lastCount = SeqNumber(log), !.lastAcc = log.acc]
      <4>1. /\ sy' \in Syncs /\ sy'.pc = s.pc /\ sy'.low = s.low /\ sy'.high = s.high /\ sy'.finalized = s.finalized
            /\ sy'.logs = s.logs /\ sy'.lastCount = SeqNumber(log) /\ sy'.lastAcc = log.acc
        BY <2>3, <2>4, <2>5, <3>2, ZenonT(60) DEF Syncs
      <4> QED
        BY <2>1, <2>5, <4>1, Zenon
    <3> QED
      BY <2>1, <3>1, <3>2, Zenon
  <2>7. LastInv'
    BY <1>0, <2>4, <2>6, Zenon DEF LastInv
  <2>8. ChainInv' /\ Settled' = Settled /\ NothingSkipped'
    BY <1>0, <2>1, <2>6, Zenon DEF ChainInv, Settled, NothingSkipped, HasAllBelow
  <2>9. RangeInv'
    <3>1. sy'.finalized < Settled' /\ sy'.finalized <= sy'.high
      BY <1>0, <2>1, <2>6, <2>8, Zenon DEF RangeInv
    <3>2. ASSUME NEW k \in 1 .. Len(l1), k - 1 <= sy.finalized, l1[k].kind = "das"
          PROVE  l1[k] \in kept' \/ \E other \in sy.logs \ {log} : other.block = l1[k]
      BY <1>0, <2>1, <2>6, <3>2, Zenon DEF RangeInv
    <3> QED
      BY <2>1, <2>6, <3>1, <3>2, ZenonT(60) DEF RangeInv
  <2> QED
    BY <1>0, <2>1, <2>6, <2>7, <2>8, <2>9, Zenon DEF SyInv
<1>6. CASE Advance
  <2> DEFINE low == (sy.finalized + 1) % SyWord
  <2>1. /\ sy.pc = "logs" /\ sy.logs = {} /\ UNCHANGED <<l1, kept>>
        /\ sy' = [sy EXCEPT !.pc = "read", !.low = low]
        /\ (file' = low /\ UNCHANGED sybudget) \/ (Fault /\ UNCHANGED file)
    BY <1>6, Zenon DEF Advance
  <2>2. low = sy.finalized + 1 /\ low \in Nat /\ low <= Settled
    <3>1. sy.finalized < Settled
      BY <1>0, <2>1, Zenon DEF RangeInv
    <3>2. sy.finalized + 1 \in 0 .. SyWord - 1 /\ sy.finalized + 1 <= Settled
      BY <1>a, <1>b, <3>1, SMTT(60) DEF Settled
    <3> QED
      BY <1>a, <3>2, SMTT(60)
  <2> HIDE DEF low
  <2>3. /\ sy' \in Syncs /\ sy'.pc = "read" /\ sy'.low = low /\ sy'.logs = {}
        /\ sy'.lastCount = sy.lastCount /\ sy'.lastAcc = sy.lastAcc
    BY <1>0, <2>1, <2>2, Zenon DEF Syncs
  <2>4. HasAllBelow(low)
    <3> SUFFICES ASSUME NEW k \in 1 .. Len(l1), k - 1 < low, l1[k].kind = "das" PROVE l1[k] \in kept
      BY Zenon DEF HasAllBelow
    <3>1. k - 1 <= sy.finalized
      BY <1>b, <2>2
    <3> QED
      BY <1>0, <2>1, <3>1, Zenon DEF RangeInv
  <2>5. ChainInv' /\ Settled' = Settled /\ LastInv' /\ RangeInv'
    BY <1>0, <2>1, <2>3, Zenon DEF ChainInv, Settled, LastInv, RangeInv
  <2>6. sybudget' \in Budgets
    BY <1>0, <2>1, FaultBudget, Zenon
  <2>7. file' \in Int /\ file' >= -1 /\ file' <= Settled /\ (file' = low \/ file' = file)
    <3>1. file >= -1
      BY Zenon DEF SyInv
    <3> QED
      BY <1>0, <2>1, <2>2, <3>1, SMTT(60)
  <2>8. NothingSkipped'
    BY <1>0, <2>1, <2>3, <2>4, <2>7, Zenon DEF NothingSkipped, HasAllBelow
  <2> QED
    BY <2>2, <2>3, <2>5, <2>6, <2>7, <2>8, Zenon DEF SyInv
<1>7. CASE SyRestart
  <2> DEFINE low == IF file = -1 THEN 0 ELSE file
  <2>1. sy' = Fresh(low) /\ UNCHANGED <<l1, file, kept>> /\ sybudget' \in Budgets
    BY <1>0, <1>7, FaultBudget, Zenon DEF SyRestart
  <2>2. low \in Nat /\ low <= Settled /\ HasAllBelow(low)
    <3>1. file >= -1
      BY <1>0, Zenon DEF SyInv
    <3>2. low \in Nat /\ low <= Settled /\ (low = file \/ low = 0)
      BY <1>0, <1>a, <3>1, SMTT(60) DEF Settled
    <3>3. HasAllBelow(0)
      BY <1>a DEF HasAllBelow
    <3> QED
      BY <1>0, <3>2, <3>3, Zenon DEF NothingSkipped
  <2> HIDE DEF low
  <2>3. /\ sy' \in Syncs /\ sy'.pc = "read" /\ sy'.low = low /\ sy'.logs = {}
        /\ sy'.lastCount = 0 /\ sy'.lastAcc = {}
    <3>1. 0 \in Nat /\ 0 \in Int
      OBVIOUS
    <3> QED
      BY <2>1, <2>2, <3>1, Zenon DEF Syncs, Fresh
  <2>4. ChainInv' /\ Settled' = Settled /\ LastInv' /\ RangeInv'
    BY <1>0, <2>1, <2>3, Zenon DEF ChainInv, Settled, LastInv, RangeInv
  <2>5. NothingSkipped'
    BY <1>0, <2>1, <2>2, <2>3, ZenonT(60) DEF NothingSkipped, HasAllBelow
  <2> QED
    BY <1>0, <2>1, <2>2, <2>3, <2>4, <2>5, ZenonT(60) DEF SyInv
<1>8. CASE Mine
  <2>1. PICK kind \in SyKinds[Len(l1) + 1] : l1' = Append(l1, Block1(kind, Len(l1), sybudget.forks))
    BY <1>8, Zenon DEF Mine
  <2> DEFINE b == Block1(kind, Len(l1), sybudget.forks)
  <2>2. b \in Blocks /\ b.n = Len(l1)
    <3>1. kind \in {"none", "das", "other", "old"}
      <4>1. Len(l1) + 1 \in 1 .. Len(SyKinds)
        BY <1>8, <1>a, SyAssumption, SMTT(60) DEF Mine, Head1
      <4> QED
        BY <4>1, SyAssumption
    <3>2. sybudget.forks \in Nat /\ Len(l1) \in Nat /\ 0 \in Nat
      BY <1>0, <1>a DEF Budgets
    <3> QED
      BY <3>1, <3>2, BlockType, ZenonT(60)
  <2> HIDE DEF b
  <2>3. l1 \in Seq(Blocks) /\ (\A k \in 1 .. Len(l1) : l1[k].n = k - 1)
    BY <1>0, Zenon DEF ChainInv
  <2>4. l1' = Append(l1, b)
    BY <2>1, Zenon DEF b
  <2>5. /\ l1' \in Seq(Blocks) /\ Len(l1') = Len(l1) + 1 /\ \A k \in 1 .. Len(l1) : l1'[k] = l1[k]
        /\ l1'[Len(l1) + 1] = b
    BY <2>2, <2>3, <2>4
  <2>6. ChainInv'
    <3>1. Len(l1') \in Confirmations + 1 .. SyMaxHead + 1
      BY <1>8, <1>a, <2>5, SMTT(60) DEF Mine, Head1
    <3>2. ASSUME NEW k \in 1 .. Len(l1') PROVE l1'[k].n = k - 1
      <4>1. CASE k \in 1 .. Len(l1)
        BY <2>3, <2>5, <4>1, Zenon
      <4>2. CASE ~(k \in 1 .. Len(l1))
        <5>1. k = Len(l1) + 1 /\ Len(l1) = k - 1
          BY <1>a, <2>5, <4>2, SMTT(60)
        <5> QED
          BY <2>2, <2>5, <5>1, Zenon
      <4> QED
        BY <4>1, <4>2, Zenon
    <3> QED
      BY <2>5, <3>1, <3>2, Zenon DEF ChainInv
  <2>7. Len(l1') >= Len(l1) /\ \A k \in 1 .. Settled : k \in 1 .. Len(l1)
    BY <1>a, <2>5 DEF Settled
  <2>8. \A k \in 1 .. Settled : l1'[k] = l1[k]
    BY <2>5, <2>7, Zenon
  <2>9. sy' = [sy EXCEPT !.news = TRUE] /\ UNCHANGED <<file, kept>> /\ sybudget' \in Budgets
    BY <1>0, <1>8, Zenon DEF Mine
  <2> QED
    BY <2>6, <2>7, <2>8, <2>9, SyChainStep, Zenon
<1>9. CASE Reorganise
  <2>1. PICK d \in 1 .. Confirmations, ks \in [1 .. Confirmations -> Kinds] :
           l1' = [k \in 1 .. Len(l1) |-> IF k <= Len(l1) - d THEN l1[k]
                                         ELSE Block1(ks[k - Len(l1) + d], k - 1, sybudget.forks - 1)]
    BY <1>9, Zenon DEF Reorganise
  <2>2. Kinds \subseteq {"none", "das", "other", "old"}
    BY SyAssumption DEF Kinds
  <2>3. sybudget.forks - 1 \in Nat /\ sybudget' \in Budgets /\ 0 \in Nat
    <3>1. sybudget.forks \in Nat /\ sybudget.forks > 0 /\ sybudget' = [sybudget EXCEPT !.forks = sybudget.forks - 1]
      BY <1>0, <1>9, Zenon DEF Reorganise, Budgets
    <3>2. sybudget.forks - 1 \in Nat
      BY <3>1, SMTT(60)
    <3> QED
      BY <1>0, <3>1, <3>2, Zenon DEF Budgets
  <2>4. l1 \in Seq(Blocks) /\ (\A k \in 1 .. Len(l1) : l1[k] \in Blocks /\ l1[k].n = k - 1)
    BY <1>0 DEF ChainInv
  <2>5. ASSUME NEW k \in 1 .. Len(l1)
        PROVE  l1'[k] \in Blocks /\ l1'[k].n = k - 1 /\ (k <= Settled => l1'[k] = l1[k])
    <3>1. CASE k <= Len(l1) - d
      BY <2>1, <2>4, <3>1, Zenon
    <3>2. CASE ~(k <= Len(l1) - d)
      <4>1. k - Len(l1) + d \in 1 .. Confirmations /\ k - 1 \in Nat /\ ~(k <= Settled)
        BY <1>a, <3>2, SMTT(60) DEF Settled
      <4>2. l1'[k] = Block1(ks[k - Len(l1) + d], k - 1, sybudget.forks - 1)
        BY <2>1, <3>2, Zenon
      <4>3. ks[k - Len(l1) + d] \in {"none", "das", "other", "old"}
        BY <2>1, <2>2, <4>1, Zenon
      <4> DEFINE kind == ks[k - Len(l1) + d]
                 fork == sybudget.forks - 1
      <4>4. kind \in {"none", "das", "other", "old"} /\ fork \in Nat /\ l1'[k] = Block1(kind, k - 1, fork)
        BY <2>3, <4>2, <4>3, ZenonT(60)
      <4> HIDE DEF kind, fork
      <4>5. Block1(kind, k - 1, fork) \in Blocks /\ Block1(kind, k - 1, fork).n = k - 1
        BY <4>1, <4>4, BlockType, ZenonT(60)
      <4> QED
        BY <4>1, <4>4, <4>5, Zenon
    <3> QED
      BY <3>1, <3>2, Zenon
  <2>6. l1' \in Seq(Blocks) /\ Len(l1') = Len(l1)
    <3>1. Len(l1) \in Nat /\ l1' = [k \in 1 .. Len(l1) |-> l1'[k]]
      BY <1>a, <2>1
    <3> QED
      BY <2>5, <3>1
  <2>7. ChainInv'
    BY <1>a, <2>5, <2>6, Zenon DEF ChainInv
  <2>8. Len(l1') >= Len(l1) /\ \A k \in 1 .. Settled : k \in 1 .. Len(l1) /\ k <= Settled
    BY <1>a, <2>6 DEF Settled
  <2>9. \A k \in 1 .. Settled : l1'[k] = l1[k]
    BY <2>5, <2>8, Zenon
  <2>10. sy' = [sy EXCEPT !.news = TRUE] /\ UNCHANGED <<file, kept>>
    BY <1>9, Zenon DEF Reorganise
  <2> QED
    BY <2>3, <2>7, <2>8, <2>9, <2>10, SyChainStep, ZenonT(60)
<1> QED
  BY <1>1, <1>2, <1>3, <1>4, <1>5, <1>6, <1>7, <1>8, <1>9, ZenonT(60) DEF SyNext, SyncSteps

\* A service that has just been set up, on any chain, satisfies the invariant.
LEMMA SyFirst == SyInit => SyInv
<1> SUFFICES ASSUME SyInit PROVE SyInv
  OBVIOUS
<1>1. PICK ks \in [1 .. Confirmations + 1 -> Kinds] :
        l1 = [k \in 1 .. Confirmations + 1 |-> Block1(ks[k], k - 1, SyMaxForks)]
  BY Zenon DEF SyInit
<1>2. Confirmations \in Nat /\ SyMaxHead \in Nat /\ Confirmations <= SyMaxHead /\ SyMaxForks \in Nat /\ SyMaxFaults \in Nat
  BY SyAssumption, Zenon
<1>3. Kinds \subseteq {"none", "das", "other", "old"}
  BY SyAssumption DEF Kinds
<1>4. ASSUME NEW k \in 1 .. Confirmations + 1 PROVE l1[k] \in Blocks /\ l1[k].n = k - 1
  <2>1. ks[k] \in {"none", "das", "other", "old"} /\ l1[k] = Block1(ks[k], k - 1, SyMaxForks)
    BY <1>1, <1>3, Zenon
  <2>2. k - 1 \in Nat /\ SyMaxForks \in Nat
    BY <1>2
  <2> DEFINE kind == ks[k]
             n == k - 1
  <2>3. kind \in {"none", "das", "other", "old"} /\ l1[k] = Block1(kind, k - 1, SyMaxForks)
    BY <2>1, Zenon
  <2> HIDE DEF kind
  <2>4. Block1(kind, k - 1, SyMaxForks) \in Blocks /\ Block1(kind, k - 1, SyMaxForks).n = k - 1
    <3>1. kind \in {"none", "das", "other", "old"} /\ n \in Nat /\ SyMaxForks \in Nat
      BY <2>2, <2>3, SMTT(60)
    <3> HIDE DEF n
    <3>2. Block1(kind, n, SyMaxForks) \in Blocks /\ Block1(kind, n, SyMaxForks).n = n
      BY <3>1, BlockType, SMTT(60)
    <3> QED
      BY <3>2, SMTT(60) DEF n
  <2> QED
    BY <2>3, <2>4, Zenon
<1>5. l1 \in Seq(Blocks) /\ Len(l1) = Confirmations + 1
  <2>1. Confirmations + 1 \in Nat /\ l1 = [k \in 1 .. Confirmations + 1 |-> l1[k]]
    BY <1>1, <1>2, SMTT(60)
  <2> QED
    BY <1>4, <2>1, SMTT(60)
<1>6. ChainInv /\ Settled = 1
  BY <1>2, <1>4, <1>5, SMTT(60) DEF ChainInv, Settled
<1>7. sy = Fresh(0) /\ file = -1 /\ kept = {} /\ sybudget = [forks |-> SyMaxForks, faults |-> SyMaxFaults]
  BY Zenon DEF SyInit
<1>8. sy \in Syncs /\ sy.pc = "read" /\ sy.low = 0 /\ sy.logs = {} /\ sy.lastAcc = {} /\ sy.lastCount = 0
  <2>1. 0 \in Nat /\ 0 \in Int
    BY SMTT(60)
  <2> QED
    BY <1>7, <2>1, Zenon DEF Fresh, Syncs
<1>9. sybudget \in Budgets /\ file \in Int /\ file >= -1 /\ file <= Settled /\ sy.low <= Settled
  BY <1>2, <1>6, <1>7, <1>8, SMTT(60) DEF Budgets
<1>10. HasAllBelow(0) /\ HasAllBelow(-1)
  BY <1>2, <1>5 DEF HasAllBelow
<1>11. NothingSkipped /\ LastInv /\ RangeInv
  BY <1>7, <1>8, <1>10, Zenon DEF NothingSkipped, LastInv, RangeInv
<1> QED
  BY <1>6, <1>8, <1>9, <1>11, Zenon DEF SyInv

\* readMore and writeSyncState: whatever the parent chain does to the blocks that are not yet
\* final, and wherever a range is cut short by a fault or a restart, every certificate below the
\* block the service goes on from, now or after a restart, is in the storage; the numbers of
\* the blocks never wrap.
THEOREM SyncSkipsNothing == SySpec => []NothingSkipped
<1>1. SySpec => []SyInv
  BY SyFirst, SyStep, PTL DEF SySpec
<1>2. SyInv => NothingSkipped
  BY DEF SyInv
<1> QED
  BY <1>1, <1>2, PTL
-----------------------------------------------------------------------------
(* A member of the committee.                                              *)

StoreStates == [pc : {"start", "ask", "yes", "no", "put", "sync", "cert", "refused", "error"}, asked : Nat,
                todo : SUBSET Storages, failed : BOOLEAN, late : Int]
Reads == [pc : {"none", "wait", "found", "missing", "cancelled"}, waiting : SUBSET Storages,
          held : SUBSET (Storages \cup {"gone"}), failed : SUBSET Storages]

MbType ==
  /\ scenario \in MbScenarios /\ now \in Nat
  /\ holds \in [Storages -> [StoreCalls -> {"none", "written", "synced"}]]
  /\ call \in [StoreCalls -> StoreStates]
  /\ verifier \in [cache : SUBSET {"poster"}, expiry : Nat]
  /\ posters \in [named : SUBSET {"poster"}, last : Nat]
  /\ read \in Reads

\* A storage has the data as far as that, or was allowed to discard it.
Kept(s, c, states) == holds[s][c] \in states \/ MayDiscard(scenario.policies[s])

\* The storages that have answered without an error have the data.
StoreInv(c) ==
  /\ CallAt(c, "cert") => \A s \in Storages : Kept(s, c, {"synced"})
  /\ CallAt(c, "sync") /\ ~call[c].failed
       => \A s \in Storages : Kept(s, c, {"written", "synced"}) /\ (s \notin call[c].todo => Kept(s, c, {"synced"}))
  /\ CallAt(c, "put") /\ ~call[c].failed
       => \A s \in Storages : s \notin call[c].todo => Kept(s, c, {"written", "synced"})

\* An answer of the parent chain is young, and was right when it was given.
AnswerInv(c) ==
  /\ call[c].pc \in {"yes", "no"} => now <= call[c].asked + CallTime
  /\ CallAt(c, "yes") => scenario.signer[c] = "poster" /\ call[c].asked <= posters.last
  /\ call[c].late <= Lifetime + CallTime

\* What is remembered expires soon after the poster was last named.
CacheInv ==
  /\ posters.last <= now /\ (posters.named # {} => posters.last = now)
  /\ verifier.expiry <= now + Lifetime
  /\ verifier.cache # {} => verifier.expiry <= posters.last + Lifetime + CallTime

Holding(s) == holds[s][FirstCall] # "none"

\* A storage that held the data all along has not answered yet, or failed to.
ReadInv ==
  /\ read.pc = "wait" => \A s \in read.held : s \in read.waiting \cup read.failed /\ Holding(s)
  /\ read.pc = "missing" => read.held \subseteq read.failed

MbInv == MbType /\ CacheInv /\ ReadInv /\ \A c \in StoreCalls : StoreInv(c) /\ AnswerInv(c)

\* What a storage may discard it may discard from then on.
LEMMA MayDiscardStays ==
  ASSUME MbType, now' \in Nat, now' >= now, NEW policy, MayDiscard(policy)
  PROVE  MayDiscard(policy)'
<1>1. now \in Nat /\ ArchiveTime \in Nat /\ DataTime \in Nat
  BY MbAssumption DEF MbType
<1>2. (now >= ArchiveTime => now' >= ArchiveTime) /\ (now >= DataTime => now' >= DataTime)
  BY <1>1
<1> QED
  BY <1>2, Zenon DEF MayDiscard

\* The first call is one of the calls.
LEMMA FirstIsCall ==
  ASSUME StoreCalls # {}
  PROVE  FirstCall \in StoreCalls
<1>1. StoreCalls \in SUBSET Nat
  BY MbAssumption, Zenon
<1>2. \E c \in StoreCalls : \A d \in StoreCalls : c <= d
  BY <1>1, LeastNat, Zenon
<1> QED
  BY <1>2, Zenon DEF FirstCall

\* Certified data is where the policies say, by what is known of each storage.
LEMMA MemberConclusion == MbInv => MemberSound
<1> SUFFICES ASSUME MbInv PROVE MemberSound
  OBVIOUS
<1>0. scenario.policies \in [Storages -> {"forever", "archive", "data"}] /\ Storages # {}
  BY MbAssumption, Zenon DEF MbInv, MbType
<1>1. CertifiedIsKept
  <2> SUFFICES ASSUME NEW c \in StoreCalls, CallAt(c, "cert"), ~MayDiscard(PolicyOf(scenario.policies))
               PROVE  \E s \in Storages : holds[s][c] = "synced"
    BY Zenon DEF CertifiedIsKept
  <2>1. \E s \in Storages : ~MayDiscard(scenario.policies[s])
    <3>1. CASE \E s \in Storages : scenario.policies[s] = "forever"
      BY <3>1, Zenon DEF MayDiscard
    <3>2. CASE (~\E s \in Storages : scenario.policies[s] = "forever") /\ \E s \in Storages : scenario.policies[s] = "archive"
      <4>1. PolicyOf(scenario.policies) = "archive"
        BY <3>2, Zenon DEF PolicyOf
      <4> QED
        BY <3>2, <4>1, Zenon
    <3>3. CASE ~\E s \in Storages : scenario.policies[s] \in {"forever", "archive"}
      <4>1. PolicyOf(scenario.policies) = "data"
        BY <3>3, Zenon DEF PolicyOf
      <4>2. PICK s \in Storages : scenario.policies[s] = "data"
        BY <1>0, <3>3, Zenon
      <4> QED
        BY <4>1, <4>2, Zenon
    <3> QED
      BY <3>1, <3>2, <3>3, Zenon
  <2> QED
    BY <2>1, Zenon DEF MbInv, StoreInv, Kept
<1>2. CertifiedEverywhere
  <2> SUFFICES ASSUME NEW c \in StoreCalls, CallAt(c, "cert"), now < DataTime, NEW s \in Storages
               PROVE  holds[s][c] = "synced"
    BY ZenonT(60) DEF CertifiedEverywhere
  <2>1. ~(now >= DataTime) /\ ~(now >= ArchiveTime)
    BY MbAssumption DEF MbInv, MbType
  <2> QED
    BY <2>1, Zenon DEF MayDiscard, MbInv, StoreInv, Kept
<1>3. RetiredSoon
  BY Zenon DEF RetiredSoon, MbInv, AnswerInv
<1>4. ReadFindsAny
  BY Zenon DEF ReadFindsAny, MbInv, ReadInv
<1> QED
  BY <1>1, <1>2, <1>3, <1>4, Zenon DEF MemberSound

\* A call that does not move keeps what is known of it while the storages keep its data.
LEMMA StoreFrame ==
  ASSUME MbInv, NEW c \in StoreCalls, call'[c] = call[c], UNCHANGED scenario, now' \in Nat, now' >= now,
         \A s \in Storages : \/ holds'[s][c] = holds[s][c]
                             \/ holds[s][c] = "written" /\ holds'[s][c] = "synced"
                             \/ MayDiscard(scenario.policies[s])
  PROVE  StoreInv(c)'
<1>1. MbType /\ StoreInv(c)
  BY Zenon DEF MbInv
<1>2. \A s \in Storages : MayDiscard(scenario.policies[s]) => MayDiscard(scenario.policies[s])'
  BY <1>1, MayDiscardStays, Zenon
<1>3. ASSUME NEW s \in Storages
      PROVE  /\ Kept(s, c, {"synced"}) => Kept(s, c, {"synced"})'
             /\ Kept(s, c, {"written", "synced"}) => Kept(s, c, {"written", "synced"})'
  BY <1>2, Zenon DEF Kept
<1> QED
  BY <1>1, <1>3, Zenon DEF StoreInv, CallAt

\* A call that does not move keeps its answer while no time passes.
LEMMA AnswerFrame ==
  ASSUME MbInv, NEW c \in StoreCalls, call'[c] = call[c], UNCHANGED <<scenario, now>>, posters'.last = posters.last
  PROVE  AnswerInv(c)'
BY Zenon DEF MbInv, AnswerInv, CallAt

\* A read goes on while the storages keep the data.
LEMMA ReadFrame ==
  ASSUME MbInv, UNCHANGED read, \A s \in Storages : Holding(s) => Holding(s)'
  PROVE  ReadInv'
<1>1. read.pc = "wait" => read.held \subseteq Storages
  BY ZenonT(60) DEF MbInv, MbType, Reads, ReadInv
<1> QED
  BY <1>1, Zenon DEF MbInv, ReadInv

\* The checks before anything is stored keep the invariant.
LEMMA CheckStep ==
  ASSUME MbInv, NEW c \in StoreCalls, Check(c) \/ Ask(c) \/ Answered(c)
  PROVE  MbInv'
<1>0. /\ MbType /\ CacheInv /\ StoreInv(c) /\ AnswerInv(c)
      /\ UNCHANGED <<scenario, now, holds, posters, read>>
  BY Zenon DEF MbInv, Check, Ask, Answered
<1>a. /\ now \in Nat /\ Lifetime \in Nat /\ CallTime \in Nat /\ now + Lifetime \in Nat
      /\ verifier.expiry \in Nat /\ verifier.cache \subseteq {"poster"}
      /\ posters.last \in Nat /\ posters.named \subseteq {"poster"}
      /\ call[c].asked \in Nat /\ call[c].late \in Int
  <2>1. /\ now \in Nat /\ Lifetime \in Nat /\ CallTime \in Nat
        /\ verifier.expiry \in Nat /\ verifier.cache \subseteq {"poster"}
        /\ posters.last \in Nat /\ posters.named \subseteq {"poster"}
        /\ call[c].asked \in Nat /\ call[c].late \in Int
    BY <1>0, MbAssumption, ZenonT(60) DEF MbType, StoreStates
  <2> QED
    BY <2>1
<1>b. now >= now /\ posters.last <= now /\ verifier.expiry <= now + Lifetime
  BY <1>0, <1>a, SMTT(60) DEF CacheInv
\* The verifier after the step.
<1>1. /\ verifier' \in [cache : SUBSET {"poster"}, expiry : Nat] /\ verifier'.expiry <= now + Lifetime
      /\ verifier'.cache # {} => verifier'.expiry <= posters.last + Lifetime + CallTime
  <2>1. CASE UNCHANGED verifier
    BY <1>0, <2>1, Zenon DEF MbType, CacheInv
  <2>2. CASE verifier' = [cache |-> {}, expiry |-> now + Lifetime]
    <3>1. now + Lifetime <= now + Lifetime
      BY <1>a, SMTT(60)
    <3> QED
      BY <1>a, <2>2, <3>1, ZenonT(60)
  <2>3. CASE CallAt(c, "yes") /\ verifier' = [verifier EXCEPT !.cache = @ \cup {scenario.signer[c]}]
    <3>1. scenario.signer[c] = "poster" /\ call[c].asked <= posters.last /\ now <= call[c].asked + CallTime
      BY <1>0, <2>3, ZenonT(60) DEF AnswerInv, CallAt
    <3>2. verifier.expiry <= posters.last + Lifetime + CallTime
      BY <1>a, <1>b, <3>1, SMTT(60)
    <3> QED
      BY <1>0, <1>b, <2>3, <3>1, <3>2, ZenonT(60) DEF MbType
  <2>4. UNCHANGED verifier \/ verifier' = [cache |-> {}, expiry |-> now + Lifetime]
        \/ (CallAt(c, "yes") /\ verifier' = [verifier EXCEPT !.cache = @ \cup {scenario.signer[c]}])
    BY Zenon DEF Check, Ask, Answered, Flushed
  <2> QED
    BY <2>1, <2>2, <2>3, <2>4, ZenonT(60)
\* The call after the step.
<1>2. \E k \in StoreStates :
        /\ call' = [call EXCEPT ![c] = k]
        /\ \/ k.pc \in {"ask", "error", "refused"} /\ k.late = call[c].late
           \/ k.pc = "put" /\ k.todo = Storages /\ k.late = call[c].late
           \/ k.pc = "put" /\ k.todo = Storages /\ k.late = now - posters.last /\ k.late <= Lifetime + CallTime
           \/ k.pc = "yes" /\ k.asked = now /\ k.late = call[c].late /\ scenario.signer[c] = "poster" /\ posters.last = now
           \/ k.pc = "no" /\ k.asked = now /\ k.late = call[c].late
  <2>1. call[c] \in StoreStates /\ call = [d \in StoreCalls |-> call[d]]
    BY <1>0, Zenon DEF MbType
  <2>2. CASE call' = Begun(c)
    <3> DEFINE k == [call[c] EXCEPT !.pc = "put", !.todo = Storages]
    <3>1. k \in StoreStates /\ k.pc = "put" /\ k.todo = Storages /\ k.late = call[c].late
      BY <2>1, Zenon DEF StoreStates
    <3>2. call' = [call EXCEPT ![c] = k]
      BY <1>0, <2>2, Zenon DEF Begun, MbType
    <3> QED
      BY <3>1, <3>2, Zenon
  <2>3. CASE verifier' = Flushed(verifier) /\ scenario.signer[c] \in verifier'.cache
             /\ call' = [Begun(c) EXCEPT ![c].late = now - posters.last]
    <3> DEFINE k == [call[c] EXCEPT !.pc = "put", !.todo = Storages, !.late = now - posters.last]
    <3>1. now - posters.last \in Int
      BY <1>a
    <3>2. k \in StoreStates /\ k.pc = "put" /\ k.todo = Storages /\ k.late = now - posters.last
      BY <2>1, <3>1, Zenon DEF StoreStates
    <3>3. call' = [call EXCEPT ![c] = k]
      BY <1>0, <2>3, Zenon DEF Begun, MbType
    <3>4. ~(now > verifier.expiry) /\ verifier.cache # {}
      BY <2>3, Zenon DEF Flushed
    <3>5. verifier.expiry <= posters.last + Lifetime + CallTime
      BY <1>0, <3>4, ZenonT(60) DEF CacheInv
    <3>6. now - posters.last <= Lifetime + CallTime
      BY <1>a, <3>4, <3>5, SMTT(60)
    <3> QED
      BY <3>2, <3>3, <3>6, ZenonT(60)
  <2>4. ASSUME NEW pc \in {"ask", "error", "refused"}, call' = [call EXCEPT ![c].pc = pc]
        PROVE  \E k \in StoreStates : /\ call' = [call EXCEPT ![c] = k]
                                      /\ k.pc \in {"ask", "error", "refused"} /\ k.late = call[c].late
    <3> DEFINE k == [call[c] EXCEPT !.pc = pc]
    <3>1. k \in StoreStates /\ k.pc \in {"ask", "error", "refused"} /\ k.late = call[c].late
      BY <2>1, Zenon DEF StoreStates
    <3>2. call' = [call EXCEPT ![c] = k]
      BY <1>0, <2>4, Zenon DEF MbType
    <3> QED
      BY <3>1, <3>2, Zenon
  <2>5. CASE scenario.signer[c] \in posters.named /\ call' = [call EXCEPT ![c].pc = "yes", ![c].asked = now]
    <3> DEFINE k == [call[c] EXCEPT !.pc = "yes", !.asked = now]
    <3>1. k \in StoreStates /\ k.pc = "yes" /\ k.asked = now /\ k.late = call[c].late
      BY <1>a, <2>1, Zenon DEF StoreStates
    <3>2. call' = [call EXCEPT ![c] = k]
      BY <1>0, <2>5, Zenon DEF MbType
    <3>3. scenario.signer[c] = "poster" /\ posters.last = now
      BY <1>0, <1>a, <2>5, Zenon DEF CacheInv
    <3> QED
      BY <3>1, <3>2, <3>3, Zenon
  <2>6. CASE call' = [call EXCEPT ![c].pc = "no", ![c].asked = now]
    <3> DEFINE k == [call[c] EXCEPT !.pc = "no", !.asked = now]
    <3>1. k \in StoreStates /\ k.pc = "no" /\ k.asked = now /\ k.late = call[c].late
      BY <1>a, <2>1, Zenon DEF StoreStates
    <3>2. call' = [call EXCEPT ![c] = k]
      BY <1>0, <2>6, Zenon DEF MbType
    <3> QED
      BY <3>1, <3>2, Zenon
  <2>7. CASE Check(c)
    BY <2>2, <2>3, <2>4, <2>7, ZenonT(60) DEF Check
  <2>8. CASE Ask(c)
    BY <2>4, <2>5, <2>6, <2>8, ZenonT(60) DEF Ask
  <2>9. CASE Answered(c)
    BY <2>2, <2>4, <2>9, ZenonT(60) DEF Answered
  <2> QED
    BY <2>7, <2>8, <2>9, ZenonT(60)
<1>3. PICK k \in StoreStates :
        /\ call' = [call EXCEPT ![c] = k]
        /\ \/ k.pc \in {"ask", "error", "refused"} /\ k.late = call[c].late
           \/ k.pc = "put" /\ k.todo = Storages /\ k.late = call[c].late
           \/ k.pc = "put" /\ k.todo = Storages /\ k.late = now - posters.last /\ k.late <= Lifetime + CallTime
           \/ k.pc = "yes" /\ k.asked = now /\ k.late = call[c].late /\ scenario.signer[c] = "poster" /\ posters.last = now
           \/ k.pc = "no" /\ k.asked = now /\ k.late = call[c].late
  BY <1>2, Zenon
<1>4. call' \in [StoreCalls -> StoreStates] /\ call'[c] = k /\ \A d \in StoreCalls \ {c} : call'[d] = call[d]
  BY <1>0, <1>3, Zenon DEF MbType
<1>5. MbType'
  BY <1>0, <1>1, <1>4, Zenon DEF MbType
<1>6. CacheInv'
  BY <1>0, <1>1, <1>b, ZenonT(60) DEF CacheInv
<1>7. ReadInv'
  BY <1>0, Zenon DEF MbInv, ReadInv, Holding
<1>8. ASSUME NEW d \in StoreCalls, d # c PROVE StoreInv(d)' /\ AnswerInv(d)'
  BY <1>0, <1>a, <1>b, <1>4, <1>8, StoreFrame, AnswerFrame, ZenonT(60)
<1>9. StoreInv(c)'
  BY <1>3, <1>4, ZenonT(60) DEF StoreInv, CallAt
<1>10. AnswerInv(c)'
  <2>1. now <= now + CallTime /\ now <= now
    BY <1>a
  <2>2. k.late <= Lifetime + CallTime
    BY <1>0, <1>3, Zenon DEF AnswerInv
  <2> QED
    BY <1>0, <1>3, <1>4, <2>1, <2>2, ZenonT(60) DEF AnswerInv, CallAt
<1> QED
  BY <1>5, <1>6, <1>7, <1>8, <1>9, <1>10, ZenonT(60) DEF MbInv

\* A storage that puts or syncs, or fails to, keeps the invariant.
LEMMA StorageStep ==
  ASSUME MbInv, NEW c \in StoreCalls, NEW s \in Storages, PutOne(c, s) \/ SyncOne(c, s)
  PROVE  MbInv'
<1>0. /\ MbType /\ CacheInv /\ StoreInv(c) /\ AnswerInv(c)
      /\ UNCHANGED <<scenario, now, verifier, posters, read>> /\ s \in call[c].todo
  BY ZenonT(60) DEF MbInv, PutOne, SyncOne
<1>a. now' \in Nat /\ now' >= now
  <2>1. now \in Nat
    BY <1>0, Zenon DEF MbType
  <2> QED
    BY <1>0, <2>1, SMTT(60)
<1>b. call[c] \in StoreStates /\ holds[s] \in [StoreCalls -> {"none", "written", "synced"}]
  BY <1>0, Zenon DEF MbType
\* The call after the step.
<1>1. /\ call' \in [StoreCalls -> StoreStates] /\ \A d \in StoreCalls \ {c} : call'[d] = call[d]
      /\ call'[c].pc = call[c].pc /\ call'[c].late = call[c].late /\ call'[c].todo = call[c].todo \ {s}
      /\ \/ call'[c].failed
         \/ /\ call'[c].failed = call[c].failed
            /\ \/ CallAt(c, "put") /\ holds' = [holds EXCEPT ![s][c] = "written"]
               \/ CallAt(c, "sync")
                  /\ holds' = [holds EXCEPT ![s] = [d \in StoreCalls |-> IF @[d] = "written" THEN "synced" ELSE @[d]]]
  <2>1. ASSUME call' = [call EXCEPT ![c].todo = @ \ {s}]
        PROVE  /\ call' \in [StoreCalls -> StoreStates] /\ \A d \in StoreCalls \ {c} : call'[d] = call[d]
               /\ call'[c].pc = call[c].pc /\ call'[c].late = call[c].late /\ call'[c].todo = call[c].todo \ {s}
               /\ call'[c].failed = call[c].failed
    BY <1>0, <1>b, <2>1, ZenonT(60) DEF MbType, StoreStates
  <2>2. CASE call' = [call EXCEPT ![c].todo = @ \ {s}, ![c].failed = TRUE]
    BY <1>0, <1>b, <2>2, ZenonT(60) DEF MbType, StoreStates
  <2> QED
    BY <2>1, <2>2, Zenon DEF PutOne, SyncOne
\* The storages after the step.
<1>2. /\ holds' \in [Storages -> [StoreCalls -> {"none", "written", "synced"}]]
      /\ \A t \in Storages, d \in StoreCalls :
           \/ holds'[t][d] = holds[t][d]
           \/ holds[t][d] = "written" /\ holds'[t][d] = "synced"
           \/ d = c /\ CallAt(c, "put") /\ holds'[t][d] = "written"
  <2>1. CASE UNCHANGED holds
    BY <1>0, <2>1, Zenon DEF MbType
  <2>2. CASE CallAt(c, "put") /\ holds' = [holds EXCEPT ![s][c] = "written"]
    BY <1>0, <1>b, <2>2, Zenon DEF MbType
  <2>3. CASE holds' = [holds EXCEPT ![s] = [d \in StoreCalls |-> IF @[d] = "written" THEN "synced" ELSE @[d]]]
    BY <1>0, <1>b, <2>3, Zenon DEF MbType
  <2> QED
    BY <2>1, <2>2, <2>3, Zenon DEF PutOne, SyncOne
<1>3. MbType' /\ CacheInv'
  BY <1>0, <1>1, <1>2, ZenonT(60) DEF MbType, CacheInv
<1>4. ReadInv'
  <2>1. FirstCall \in StoreCalls
    BY FirstIsCall, Zenon
  <2>2. \A t \in Storages : Holding(t) => Holding(t)'
    BY <1>2, <2>1, Zenon DEF Holding
  <2> QED
    BY <1>0, <2>2, ReadFrame, Zenon
<1>5. ASSUME NEW d \in StoreCalls, d # c PROVE StoreInv(d)' /\ AnswerInv(d)'
  <2>1. call'[d] = call[d]
    BY <1>1, <1>5, Zenon
  <2>2. \A t \in Storages : holds'[t][d] = holds[t][d] \/ (holds[t][d] = "written" /\ holds'[t][d] = "synced")
    BY <1>2, <1>5, Zenon
  <2> QED
    BY <1>0, <1>a, <2>1, <2>2, StoreFrame, AnswerFrame, ZenonT(60)
<1>6. AnswerInv(c)'
  <2>1. call[c].pc \in {"put", "sync"}
    BY Zenon DEF PutOne, SyncOne, CallAt
  <2> QED
    BY <1>0, <1>1, <2>1, Zenon DEF AnswerInv, CallAt
<1>7. StoreInv(c)'
  <2>0. \A t \in Storages : MayDiscard(scenario.policies[t]) => MayDiscard(scenario.policies[t])'
    BY <1>0, <1>a, MayDiscardStays, Zenon
  <2>1. CASE call'[c].failed
    <3>1. ~CallAt(c, "cert")'
      BY <1>1, Zenon DEF PutOne, SyncOne, CallAt
    <3> QED
      BY <2>1, <3>1, Zenon DEF StoreInv
  <2>2. CASE call'[c].failed = call[c].failed /\ CallAt(c, "put") /\ holds' = [holds EXCEPT ![s][c] = "written"]
    <3>1. CallAt(c, "put")' /\ ~CallAt(c, "sync")' /\ ~CallAt(c, "cert")'
      BY <1>1, <2>2, Zenon DEF CallAt
    <3>2. holds'[s][c] = "written"
      BY <1>0, <1>b, <2>2, Zenon DEF MbType
    <3>3. ASSUME ~call[c].failed, NEW t \in Storages, t \notin call'[c].todo
          PROVE  Kept(t, c, {"written", "synced"})'
      <4>1. CASE t = s
        BY <3>2, <4>1, Zenon DEF Kept
      <4>2. CASE t # s
        <5>1. t \notin call[c].todo
          BY <1>1, <3>3, <4>2, ZenonT(60)
        <5>2. Kept(t, c, {"written", "synced"})
          BY <1>0, <2>2, <3>3, <5>1, ZenonT(60) DEF StoreInv
        <5> QED
          BY <1>0, <1>2, <2>0, <5>2, ZenonT(60) DEF Kept
      <4> QED
        BY <4>1, <4>2, ZenonT(60)
    <3> QED
      BY <2>2, <3>1, <3>3, Zenon DEF StoreInv
  <2>3. CASE /\ call'[c].failed = call[c].failed /\ CallAt(c, "sync")
             /\ holds' = [holds EXCEPT ![s] = [d \in StoreCalls |-> IF @[d] = "written" THEN "synced" ELSE @[d]]]
    <3>1. CallAt(c, "sync")' /\ ~CallAt(c, "put")' /\ ~CallAt(c, "cert")'
      BY <1>1, <2>3, Zenon DEF CallAt
    <3>2. holds[s][c] \in {"written", "synced"} => holds'[s][c] = "synced"
      BY <1>0, <1>b, <2>3, Zenon DEF MbType
    <3>3. ASSUME ~call[c].failed, NEW t \in Storages
          PROVE  Kept(t, c, {"written", "synced"})' /\ (t \notin call'[c].todo => Kept(t, c, {"synced"})')
      <4>1. Kept(t, c, {"written", "synced"}) /\ (t \notin call[c].todo => Kept(t, c, {"synced"}))
        BY <1>0, <2>3, <3>3, ZenonT(60) DEF StoreInv
      <4>2. CASE t = s
        BY <1>0, <2>0, <3>2, <4>1, <4>2, ZenonT(60) DEF Kept
      <4>3. CASE t # s
        <5>1. t \notin call'[c].todo => t \notin call[c].todo
          BY <1>1, <4>3, ZenonT(60)
        <5>2. holds'[t][c] = holds[t][c]
          BY <1>0, <2>3, <4>3, ZenonT(60) DEF MbType
        <5> QED
          BY <1>0, <2>0, <4>1, <5>1, <5>2, ZenonT(60) DEF Kept
      <4> QED
        BY <4>2, <4>3, Zenon
    <3> QED
      BY <2>3, <3>1, <3>3, ZenonT(60) DEF StoreInv
  <2> QED
    BY <1>1, <2>1, <2>2, <2>3, ZenonT(60)
<1> QED
  BY <1>3, <1>4, <1>5, <1>6, <1>7, ZenonT(60) DEF MbInv

\* The end of a round of the storages keeps the invariant.
LEMMA AllAnsweredStep ==
  ASSUME MbInv, NEW c \in StoreCalls, AllAnswered(c)
  PROVE  MbInv'
<1>0. /\ MbType /\ CacheInv /\ StoreInv(c) /\ AnswerInv(c)
      /\ UNCHANGED <<scenario, now, holds, verifier, posters, read>>
      /\ call[c].pc \in {"put", "sync"} /\ call[c].todo = {} /\ call' = [call EXCEPT ![c] = Outcome(call[c])]
  BY Zenon DEF MbInv, AllAnswered
<1>a. now' \in Nat /\ now' >= now
  <2>1. now \in Nat
    BY <1>0, Zenon DEF MbType
  <2> QED
    BY <1>0, <2>1, SMTT(60)
<1>b. call[c] \in StoreStates
  BY <1>0, Zenon DEF MbType
<1>1. /\ Outcome(call[c]) \in StoreStates /\ Outcome(call[c]).late = call[c].late
      /\ \/ Outcome(call[c]).pc = "error"
         \/ ~call[c].failed /\ CallAt(c, "put") /\ Outcome(call[c]).pc = "sync" /\ Outcome(call[c]).todo = Storages
            /\ Outcome(call[c]).failed = call[c].failed
         \/ ~call[c].failed /\ CallAt(c, "sync") /\ Outcome(call[c]).pc = "cert"
  <2>1. CASE call[c].failed
    BY <1>b, <2>1, ZenonT(60) DEF Outcome, StoreStates
  <2>2. CASE ~call[c].failed /\ call[c].pc = "put"
    BY <1>b, <2>2, Zenon DEF Outcome, StoreStates, CallAt
  <2>3. CASE ~call[c].failed /\ call[c].pc = "sync"
    BY <1>b, <2>3, Zenon DEF Outcome, StoreStates, CallAt
  <2> QED
    BY <1>0, <2>1, <2>2, <2>3, ZenonT(60)
<1>2. call' \in [StoreCalls -> StoreStates] /\ call'[c] = Outcome(call[c]) /\ \A d \in StoreCalls \ {c} : call'[d] = call[d]
  BY <1>0, <1>1, Zenon DEF MbType
<1>3. MbType' /\ CacheInv' /\ ReadInv'
  BY <1>0, <1>2, Zenon DEF MbInv, MbType, CacheInv, ReadInv, Holding
<1>4. ASSUME NEW d \in StoreCalls, d # c PROVE StoreInv(d)' /\ AnswerInv(d)'
  <2>1. call'[d] = call[d]
    BY <1>2, <1>4, Zenon
  <2> QED
    BY <1>0, <1>a, <2>1, StoreFrame, AnswerFrame, ZenonT(60)
<1>5. AnswerInv(c)'
  BY <1>0, <1>1, <1>2, Zenon DEF AnswerInv, CallAt
<1>6. \A t \in Storages : \A states : Kept(t, c, states)' = Kept(t, c, states)
  BY <1>0, Zenon DEF Kept, MayDiscard
<1>7. StoreInv(c)'
  <2>1. CASE call'[c].pc = "error"
    BY <2>1, Zenon DEF StoreInv, CallAt
  <2>2. CASE ~call[c].failed /\ CallAt(c, "put") /\ call'[c].pc = "sync" /\ call'[c].todo = Storages
    <3>1. \A t \in Storages : Kept(t, c, {"written", "synced"})
      BY <1>0, <2>2, Zenon DEF StoreInv
    <3> QED
      BY <1>6, <2>2, <3>1, Zenon DEF StoreInv, CallAt
  <2>3. CASE ~call[c].failed /\ CallAt(c, "sync") /\ call'[c].pc = "cert"
    <3>1. \A t \in Storages : Kept(t, c, {"synced"})
      BY <1>0, <2>3, Zenon DEF StoreInv
    <3> QED
      BY <1>6, <2>3, <3>1, Zenon DEF StoreInv, CallAt
  <2> QED
    BY <1>1, <1>2, <2>1, <2>2, <2>3, ZenonT(60)
<1> QED
  BY <1>3, <1>4, <1>5, <1>7, ZenonT(60) DEF MbInv

\* A storage that discards, within its policy, keeps the invariant.
LEMMA DiscardStep ==
  ASSUME MbInv, NEW c \in StoreCalls, NEW s \in Storages, Discard(s, c)
  PROVE  MbInv'
<1>0. /\ MbType /\ CacheInv /\ ReadInv /\ UNCHANGED <<scenario, now, call, verifier, posters>>
      /\ MayDiscard(scenario.policies[s]) /\ holds' = [holds EXCEPT ![s][c] = "none"]
      /\ read' = IF c = FirstCall THEN [read EXCEPT !.held = @ \ {s}] ELSE read
  BY Zenon DEF MbInv, Discard
<1>a. now' \in Nat /\ now' >= now
  <2>1. now \in Nat
    BY <1>0, Zenon DEF MbType
  <2> QED
    BY <1>0, <2>1, SMTT(60)
<1>1. /\ holds' \in [Storages -> [StoreCalls -> {"none", "written", "synced"}]]
      /\ \A t \in Storages, d \in StoreCalls : holds'[t][d] = holds[t][d] \/ (t = s /\ d = c)
  <2>1. holds[s] \in [StoreCalls -> {"none", "written", "synced"}]
    BY <1>0, Zenon DEF MbType
  <2> QED
    BY <1>0, <2>1, Zenon DEF MbType
<1>2. FirstCall \in StoreCalls
  BY FirstIsCall, Zenon
<1>3. read' \in Reads /\ ReadInv'
  <2>1. CASE c = FirstCall
    <3>1. /\ read' \in Reads /\ read'.pc = read.pc /\ read'.waiting = read.waiting /\ read'.held = read.held \ {s}
          /\ read'.failed = read.failed
      BY <1>0, <2>1, Zenon DEF MbType, Reads
    <3>2. read.pc = "wait" => read.held \subseteq Storages
      BY <1>0, Zenon DEF ReadInv, MbType, Reads
    <3>3. \A t \in Storages \ {s} : Holding(t)' = Holding(t)
      BY <1>1, <1>2, Zenon DEF Holding
    <3> QED
      BY <1>0, <3>1, <3>2, <3>3, Zenon DEF ReadInv
  <2>2. CASE c # FirstCall
    <3>1. \A t \in Storages : Holding(t) => Holding(t)'
      BY <1>1, <1>2, <2>2, Zenon DEF Holding
    <3>2. UNCHANGED read
      BY <1>0, <2>2, Zenon
    <3> QED
      BY <1>0, <3>1, <3>2, ReadFrame, Zenon DEF MbType
  <2> QED
    BY <2>1, <2>2, Zenon
<1>4. MbType' /\ CacheInv'
  BY <1>0, <1>1, <1>3, Zenon DEF MbType, CacheInv
<1>5. ASSUME NEW d \in StoreCalls PROVE StoreInv(d)' /\ AnswerInv(d)'
  <2>1. \A t \in Storages : holds'[t][d] = holds[t][d] \/ MayDiscard(scenario.policies[t])
    BY <1>0, <1>1, Zenon
  <2> QED
    BY <1>0, <1>a, <2>1, StoreFrame, AnswerFrame, ZenonT(60)
<1> QED
  BY <1>3, <1>4, <1>5, ZenonT(60) DEF MbInv

\* A read of the data of the first call keeps the invariant.
LEMMA ReadStep ==
  ASSUME MbInv, StartRead \/ ReadCancelled \/ \E s \in Storages : ReadOne(s)
  PROVE  MbInv'
<1>0. MbType /\ CacheInv /\ ReadInv /\ UNCHANGED <<scenario, now, holds, call, verifier, posters>>
  BY Zenon DEF MbInv, StartRead, ReadCancelled, ReadOne
<1>a. now' \in Nat /\ now' >= now
  <2>1. now \in Nat
    BY <1>0, Zenon DEF MbType
  <2> QED
    BY <1>0, <2>1, SMTT(60)
<1>1. \A t : Holding(t)' = Holding(t)
  BY <1>0, Zenon DEF Holding
<1>2. read' \in Reads /\ ReadInv'
  <2>1. CASE StartRead
    <3>1. read' = [pc |-> "wait", waiting |-> Storages, held |-> {s \in Storages : Holding(s)}, failed |-> {}]
      BY <2>1, Zenon DEF StartRead, Holding
    <3> QED
      BY <1>1, <3>1, Zenon DEF Reads, ReadInv
  <2>2. CASE \E s \in Storages : ReadOne(s)
    <3>1. PICK s \in Storages : ReadOne(s)
      BY <2>2, Zenon
    <3>a. PICK fails \in BOOLEAN :
            /\ read.pc = "wait" /\ s \in read.waiting
            /\ read' = [read EXCEPT !.waiting = read.waiting \ {s},
                                    !.pc = ReadOn(read, ~fails /\ holds[s][FirstCall] # "none", read.waiting \ {s}),
                                    !.failed = IF fails THEN @ \cup {s} ELSE @]
      BY <3>1, Zenon DEF ReadOne
    <3> DEFINE left == read.waiting \ {s}
               pc == ReadOn(read, ~fails /\ holds[s][FirstCall] # "none", left)
               failed == IF fails THEN read.failed \cup {s} ELSE read.failed
    <3>2. /\ read.pc = "wait" /\ s \in read.waiting
          /\ read' = [read EXCEPT !.waiting = left, !.pc = pc, !.failed = failed]
      BY <3>a, Zenon
    <3>3. pc = IF ~fails /\ Holding(s) THEN "found" ELSE IF left = {} THEN "missing" ELSE "wait"
      BY Zenon DEF ReadOn, Holding
    <3> HIDE DEF pc
    <3>4. pc \in {"found", "missing", "wait"} /\ left \subseteq Storages /\ failed \subseteq Storages
      BY <1>0, <3>3, Zenon DEF MbType, Reads
    <3>b. read.failed \subseteq failed /\ (fails => s \in failed)
      BY Zenon
    <3> HIDE DEF failed
    <3>5. /\ read' \in Reads /\ read'.waiting = left /\ read'.pc = pc
          /\ read'.held = read.held /\ read'.failed = failed
      BY <1>0, <3>2, <3>4, ZenonT(60) DEF MbType, Reads
    <3>6. ~(~fails /\ Holding(s)) => \A t \in read'.held : t \in left \cup failed /\ Holding(t)
      BY <1>0, <3>2, <3>5, <3>b, ZenonT(60) DEF ReadInv
    <3>7. CASE ~fails /\ Holding(s)
      BY <3>3, <3>5, <3>7, Zenon DEF ReadInv
    <3>8. CASE ~(~fails /\ Holding(s)) /\ left = {}
      BY <3>3, <3>5, <3>6, <3>8, Zenon DEF ReadInv
    <3>9. CASE ~(~fails /\ Holding(s)) /\ left # {}
      <4>1. \A t \in read'.held : t \in left \cup failed /\ Holding(t)'
        BY <1>1, <3>6, <3>9, Zenon
      <4> QED
        BY <3>3, <3>5, <3>9, <4>1, Zenon DEF ReadInv
    <3> QED
      BY <3>7, <3>8, <3>9, ZenonT(60)
  <2>3. CASE ReadCancelled
    <3>1. read' = [read EXCEPT !.pc = "cancelled"]
      BY <2>3, Zenon DEF ReadCancelled
    <3>2. read' \in Reads /\ read'.pc = "cancelled"
      BY <1>0, <3>1, Zenon DEF MbType, Reads
    <3> QED
      BY <3>2, Zenon DEF ReadInv
  <2> QED
    BY <2>1, <2>2, <2>3, Zenon
<1>3. MbType' /\ CacheInv'
  BY <1>0, <1>2, Zenon DEF MbType, CacheInv
<1>4. ASSUME NEW d \in StoreCalls PROVE StoreInv(d)' /\ AnswerInv(d)'
  BY <1>0, <1>a, StoreFrame, AnswerFrame, Zenon
<1> QED
  BY <1>2, <1>3, <1>4, Zenon DEF MbInv

\* A crash loses only what no certificate was given for.
LEMMA CrashStep ==
  ASSUME MbInv, MbCrash
  PROVE  MbInv'
<1>0. MbType /\ CacheInv /\ UNCHANGED <<scenario, now, posters>>
  BY Zenon DEF MbInv, MbCrash
<1>a. now' \in Nat /\ now' >= now /\ now + Lifetime \in Nat /\ now + Lifetime <= now + Lifetime
  <2>1. now \in Nat /\ Lifetime \in Nat
    BY <1>0, MbAssumption, Zenon DEF MbType
  <2> QED
    BY <1>0, <2>1
<1>1. /\ holds' \in [Storages -> [StoreCalls -> {"none", "written", "synced"}]]
      /\ \A t \in Storages, d \in StoreCalls : holds[t][d] = "synced" => holds'[t][d] = "synced"
  <2>1. \A t \in Storages, d \in StoreCalls : holds[t][d] \in {"none", "written", "synced"}
    BY <1>0 DEF MbType
  <2>2. holds' = [t \in Storages |-> [d \in StoreCalls |-> IF holds[t][d] = "written" THEN "none" ELSE holds[t][d]]]
    BY Zenon DEF MbCrash
  <2>3. ASSUME NEW t \in Storages, NEW d \in StoreCalls
        PROVE  (IF holds[t][d] = "written" THEN "none" ELSE holds[t][d]) \in {"none", "written", "synced"}
    BY <2>1, Zenon
  <2> QED
    BY <2>2, <2>3, Zenon
<1>2. /\ call' \in [StoreCalls -> StoreStates]
      /\ \A d \in StoreCalls : \/ call'[d] = call[d] /\ call[d].pc \in {"cert", "refused"}
                               \/ call'[d].pc = "error" /\ call'[d].late = call[d].late
  <2>1. ASSUME NEW d \in StoreCalls
        PROVE  LET k == [call[d] EXCEPT !.pc = "error", !.todo = {}]
               IN  k \in StoreStates /\ k.pc = "error" /\ k.late = call[d].late
    <3>1. call[d] \in StoreStates
      BY <1>0, Zenon DEF MbType
    <3> QED
      BY <3>1, Zenon DEF StoreStates
  <2>2. \A d \in StoreCalls : call[d] \in StoreStates
    BY <1>0, Zenon DEF MbType
  <2>3. call' = [d \in StoreCalls |-> IF call[d].pc \in {"cert", "refused"} THEN call[d]
                                      ELSE [call[d] EXCEPT !.pc = "error", !.todo = {}]]
    BY Zenon DEF MbCrash
  <2> QED
    BY <2>1, <2>2, <2>3, Zenon
<1>3. verifier' = [cache |-> {}, expiry |-> now + Lifetime] /\ read' = [pc |-> "none", waiting |-> {}, held |-> {"gone"}, failed |-> {}]
  BY Zenon DEF MbCrash
<1>4. MbType' /\ CacheInv' /\ ReadInv'
  BY <1>0, <1>a, <1>1, <1>2, <1>3, ZenonT(60) DEF MbType, CacheInv, ReadInv, Reads
<1>5. ASSUME NEW d \in StoreCalls PROVE StoreInv(d)' /\ AnswerInv(d)'
  <2>1. StoreInv(d) /\ AnswerInv(d)
    BY Zenon DEF MbInv
  <2>2. CASE call'[d] = call[d] /\ call[d].pc = "cert"
    <3>1. \A t \in Storages : Kept(t, d, {"synced"})'
      BY <1>0, <1>1, <2>1, <2>2, Zenon DEF StoreInv, CallAt, Kept, MayDiscard
    <3> QED
      BY <2>1, <2>2, <3>1, Zenon DEF StoreInv, AnswerInv, CallAt
  <2>3. CASE call'[d] = call[d] /\ call[d].pc = "refused"
    BY <2>1, <2>3, Zenon DEF StoreInv, AnswerInv, CallAt
  <2>4. CASE call'[d].pc = "error" /\ call'[d].late = call[d].late
    BY <2>1, <2>4, Zenon DEF StoreInv, AnswerInv, CallAt
  <2> QED
    BY <1>2, <2>2, <2>3, <2>4, Zenon
<1> QED
  BY <1>4, <1>5, Zenon DEF MbInv

\* Time passing and the retirement of the poster keep the invariant.
LEMMA TickStep ==
  ASSUME MbInv, MbTick \/ Retire
  PROVE  MbInv'
<1>0. MbType /\ CacheInv /\ ReadInv /\ UNCHANGED <<scenario, holds, call, verifier, read>>
  BY Zenon DEF MbInv, MbTick, Retire
<1>a. /\ now \in Nat /\ Lifetime \in Nat /\ CallTime \in Nat /\ posters.last \in Nat /\ verifier.expiry \in Nat
      /\ posters.named \subseteq {"poster"} /\ posters.last <= now /\ (posters.named # {} => posters.last = now)
      /\ verifier.expiry <= now + Lifetime
      /\ (verifier.cache # {} => verifier.expiry <= posters.last + Lifetime + CallTime)
  BY <1>0, MbAssumption, Zenon DEF MbType, CacheInv
<1>1. CASE Retire
  <2>1. UNCHANGED now /\ posters' = [posters EXCEPT !.named = {}]
    BY <1>1, Zenon DEF Retire
  <2>2. posters' \in [named : SUBSET {"poster"}, last : Nat] /\ posters'.named = {} /\ posters'.last = posters.last
    BY <1>0, <2>1, Zenon DEF MbType
  <2>3. now' \in Nat /\ now' >= now
    BY <1>a, <2>1, SMTT(60)
  <2>4. MbType' /\ CacheInv' /\ ReadInv'
    BY <1>0, <1>a, <2>1, <2>2, ZenonT(60) DEF MbType, CacheInv, ReadInv, Holding
  <2>5. ASSUME NEW d \in StoreCalls PROVE StoreInv(d)' /\ AnswerInv(d)'
    <3>1. call'[d] = call[d] /\ \A t \in Storages : holds'[t][d] = holds[t][d]
      BY <1>0, Zenon
    <3> QED
      BY <1>0, <2>1, <2>2, <2>3, <3>1, StoreFrame, AnswerFrame, ZenonT(60)
  <2> QED
    BY <2>4, <2>5, Zenon DEF MbInv
<1>2. CASE MbTick
  <2>1. /\ now' = now + 1 /\ posters' = IF "poster" \in posters.named THEN [posters EXCEPT !.last = now + 1] ELSE posters
        /\ \A c \in StoreCalls : call[c].pc \in {"yes", "no"} => now < call[c].asked + CallTime
    BY <1>2, Zenon DEF MbTick
  <2>2. now + 1 \in Nat /\ now + 1 >= now
    BY <1>a
  <2>3. /\ posters' \in [named : SUBSET {"poster"}, last : Nat] /\ posters'.named = posters.named
        /\ (posters.named # {} /\ posters'.last = now + 1) \/ (posters.named = {} /\ posters'.last = posters.last)
    <3>1. CASE "poster" \in posters.named
      BY <1>0, <2>1, <2>2, <3>1, Zenon DEF MbType
    <3>2. CASE "poster" \notin posters.named
      <4>1. posters.named = {}
        BY <1>a, <3>2, Zenon
      <4>2. posters' = posters
        BY <2>1, <3>2, ZenonT(60)
      <4> QED
        BY <1>0, <4>1, <4>2, Zenon DEF MbType
    <3> QED
      BY <3>1, <3>2, Zenon
  <2>4. /\ posters'.last <= now + 1 /\ posters'.last >= posters.last /\ posters'.last \in Nat
        /\ verifier.expiry <= now + 1 + Lifetime
        /\ (verifier.cache # {} => verifier.expiry <= posters'.last + Lifetime + CallTime)
    BY <1>a, <2>3, SMTT(60)
  <2>5. MbType' /\ CacheInv' /\ ReadInv'
    BY <1>0, <2>1, <2>2, <2>3, <2>4, ZenonT(60) DEF MbType, CacheInv, ReadInv, Holding
  <2>6. ASSUME NEW d \in StoreCalls PROVE StoreInv(d)' /\ AnswerInv(d)'
    <3>1. call'[d] = call[d] /\ (\A t \in Storages : holds'[t][d] = holds[t][d]) /\ AnswerInv(d)
      BY <1>0, Zenon DEF MbInv
    <3>2. StoreInv(d)'
      BY <1>0, <2>1, <2>2, <3>1, StoreFrame, ZenonT(60)
    <3>3. call[d].asked \in Nat
      BY <1>0, Zenon DEF MbType, StoreStates
    <3>4. call[d].pc \in {"yes", "no"} => now + 1 <= call[d].asked + CallTime
      BY <1>a, <2>1, <3>3, SMTT(60)
    <3>5. call[d].asked <= posters.last => call[d].asked <= posters'.last
      BY <1>a, <2>4, <3>3, SMTT(60)
    <3> QED
      BY <1>0, <2>1, <3>1, <3>2, <3>4, <3>5, ZenonT(60) DEF AnswerInv, CallAt
  <2> QED
    BY <2>5, <2>6, Zenon DEF MbInv
<1> QED
  BY <1>1, <1>2, Zenon

\* A member that has just started satisfies the invariant.
LEMMA MbFirst == MbInit => MbInv
<1> SUFFICES ASSUME MbInit PROVE MbInv
  OBVIOUS
<1>1. Lifetime \in Nat /\ CallTime \in Nat /\ 0 \in Nat /\ 0 \in Int
  BY MbAssumption
<1>2. 0 <= 0 /\ 0 <= Lifetime + CallTime /\ Lifetime <= 0 + Lifetime
  BY <1>1
<1>3. MbType
  BY <1>1, Zenon DEF MbInit, MbType, NoCall, NoRead, StoreStates, Reads
<1>4. CacheInv /\ ReadInv
  BY <1>2, Zenon DEF MbInit, CacheInv, ReadInv, NoRead
<1>5. ASSUME NEW c \in StoreCalls PROVE StoreInv(c) /\ AnswerInv(c)
  <2>1. call[c].pc = "start" /\ call[c].late = 0
    BY Zenon DEF MbInit, NoCall
  <2> QED
    BY <1>2, <2>1, Zenon DEF StoreInv, AnswerInv, CallAt
<1> QED
  BY <1>3, <1>4, <1>5, Zenon DEF MbInv

\* Every step of a member keeps the invariant.
LEMMA MbStep == MbInv /\ [MbNext]_mbvars => MbInv'
<1>1. ASSUME MbInv, UNCHANGED mbvars PROVE MbInv'
  <2>1. UNCHANGED <<scenario, now, holds, call, verifier, posters, read>>
    BY <1>1, Zenon DEF mbvars
  <2>2. MbType' /\ CacheInv' /\ ReadInv'
    BY <1>1, <2>1, Zenon DEF MbInv, MbType, CacheInv, ReadInv, Holding
  <2>3. now \in Nat
    BY <1>1, Zenon DEF MbInv, MbType
  <2>4. now' \in Nat /\ now' >= now
    BY <2>1, <2>3, SMTT(60)
  <2>5. ASSUME NEW c \in StoreCalls PROVE StoreInv(c)' /\ AnswerInv(c)'
    BY <1>1, <2>1, <2>4, StoreFrame, AnswerFrame, ZenonT(60)
  <2> QED
    BY <2>2, <2>5, Zenon DEF MbInv
<1>2. ASSUME MbInv, MbNext PROVE MbInv'
  <2>1. ASSUME NEW c \in StoreCalls, Check(c) \/ Ask(c) \/ Answered(c) PROVE MbInv'
    BY <1>2, <2>1, CheckStep, Zenon
  <2>2. ASSUME NEW c \in StoreCalls, AllAnswered(c) PROVE MbInv'
    BY <1>2, <2>2, AllAnsweredStep, Zenon
  <2>3. ASSUME NEW c \in StoreCalls, NEW s \in Storages, PutOne(c, s) \/ SyncOne(c, s) PROVE MbInv'
    BY <1>2, <2>3, StorageStep, Zenon
  <2>4. ASSUME NEW c \in StoreCalls, NEW s \in Storages, Discard(s, c) PROVE MbInv'
    BY <1>2, <2>4, DiscardStep, Zenon
  <2>5. CASE StartRead \/ ReadCancelled \/ \E s \in Storages : ReadOne(s)
    BY <1>2, <2>5, ReadStep, Zenon
  <2>6. CASE MbCrash
    BY <1>2, <2>6, CrashStep, Zenon
  <2>7. CASE MbTick \/ Retire
    BY <1>2, <2>7, TickStep, Zenon
  <2> QED
    BY <1>2, <2>1, <2>2, <2>3, <2>4, <2>5, <2>6, <2>7, ZenonT(60) DEF MbNext
<1> QED
  BY <1>1, <1>2, Zenon

\* SignAfterStoreDASWriter.Store, RedundantStorageService and AddressVerifier: for every set of
\* storages with any policies, every lifetime of the cache and every order of calls, faults,
\* crashes and discarding, certified data is held as long as the member says, a retired poster
\* is accepted no longer than the lifetime and one call, and a read finds what a storage holds
\* all along.
THEOREM MemberKeepsItsWord == MbSpec => []MemberSound
<1>1. MbSpec => []MbInv
  BY MbFirst, MbStep, PTL DEF MbSpec
<1> QED
  BY <1>1, MemberConclusion, PTL
=============================================================================
