----------------------------- MODULE ArbosProofs -----------------------------
(***************************************************************************)
(* What the set of chain owners promises, for every set of addresses, and  *)
(* the structures in storage, for every word size, width and window.       *)
(***************************************************************************)
EXTENDS ArbosStorage, FiniteSetTheorems, TLAPS

\* Every operation keeps the list, the mapping and the size of their types.
THEOREM AsTypeCorrect == AsSpec => []AsTypeOK
<1>1. AsInit => AsTypeOK
  <2> SUFFICES ASSUME AsInit PROVE AsTypeOK
    OBVIOUS
  <2>1. list \in [AsSlots -> AsAddrs \cup {AsNone}] /\ size \in 0 .. AsMaxSize /\ byAddress \in [AsAddrs -> 0 .. AsMaxSize]
    BY AsAssumption, SMT DEF AsInit
  <2>2. version \in {"old", "new"} /\ asPanic \in BOOLEAN
    BY Zenon DEF AsInit
  <2> QED
    BY <2>1, <2>2, Zenon DEF AsTypeOK
<1>2. AsTypeOK /\ [AsNext]_asVars => AsTypeOK'
  <2> SUFFICES ASSUME AsTypeOK, [AsNext]_asVars PROVE AsTypeOK'
    OBVIOUS
  <2> USE AsAssumption DEF AsTypeOK, AsSlots
  <2>1. ASSUME NEW a \in AsAddrs, NEW by \in [AsAddrs -> 0 .. AsMaxSize], Append1(a, by) PROVE AsTypeOK'
    BY <2>1 DEF Append1
  <2>2. ASSUME NEW a \in AsAddrs, Add(a) PROVE AsTypeOK'
    BY <2>1, <2>2, Zenon DEF Add
  <2>3. ASSUME NEW a \in AsAddrs, RectifyMapping(a) PROVE AsTypeOK'
    <3>1. [byAddress EXCEPT ![a] = 0] \in [AsAddrs -> 0 .. AsMaxSize]
      OBVIOUS
    <3> QED
      BY <2>1, <2>3, <3>1, Zenon DEF RectifyMapping
  <2>4. ASSUME NEW a \in AsAddrs, AsRemove(a) PROVE AsTypeOK'
    <3>1. CASE size = 0
      BY <2>4, <3>1, Zenon DEF AsRemove
    <3>2. CASE size # 0
      <4>1. MovedMapping(a) \in [AsAddrs -> 0 .. AsMaxSize]
        BY <3>2, SMTT(60) DEF MovedMapping
      <4> QED
        BY <2>4, <3>2, <4>1, SMTT(60) DEF AsRemove
    <3> QED
      BY <3>1, <3>2, Zenon
  <2>5. CASE Clear
    BY <2>5 DEF Clear
  <2>6. CASE Upgrade
    BY <2>6 DEF Upgrade
  <2>7. CASE UNCHANGED asVars
    BY <2>7, Zenon DEF asVars
  <2> QED
    BY <2>2, <2>3, <2>4, <2>5, <2>6, <2>7, Zenon DEF AsNext
<1> QED
  BY <1>1, <1>2, PTL DEF AsSpec

\* No operation breaks the way back from a slot of the list to the slot.
LEMMA ListMapsBackStep == AsTypeOK /\ ListMapsBack /\ [AsNext]_asVars => ListMapsBack'
<1> SUFFICES ASSUME AsTypeOK, ListMapsBack, [AsNext]_asVars, version' = "new",
                    NEW s \in 1 .. size'
             PROVE  list'[s] \in AsAddrs /\ byAddress'[list'[s]] = s
  BY Zenon DEF ListMapsBack
<1> USE AsAssumption DEF AsTypeOK, AsSlots, ListMapsBack
<1>1. ASSUME NEW a \in AsAddrs, NEW by \in [AsAddrs -> 0 .. AsMaxSize], Append1(a, by),
             version = "new", \A t \in 1 .. size : list[t] # a /\ by[list[t]] = t
      PROVE list'[s] \in AsAddrs /\ byAddress'[list'[s]] = s
  BY <1>1 DEF Append1
<1>2. ASSUME NEW a \in AsAddrs, Add(a) PROVE list'[s] \in AsAddrs /\ byAddress'[list'[s]] = s
  <2>1. version = "new"
    BY <1>2, Zenon DEF Add, Append1
  <2>2. \A t \in 1 .. size : list[t] # a /\ byAddress[list[t]] = t
    BY <1>2, <2>1 DEF Add, IsMember
  <2> QED
    BY <1>1, <1>2, <2>1, <2>2, Zenon DEF Add
<1>3. ASSUME NEW a \in AsAddrs, RectifyMapping(a) PROVE list'[s] \in AsAddrs /\ byAddress'[list'[s]] = s
  <2>1. \A t \in 1 .. size : list[t] # a
    BY <1>3, ZenonT(60) DEF RectifyMapping, CorrectlyMapped
  <2>2. \A t \in 1 .. size : [byAddress EXCEPT ![a] = 0][list[t]] = t
    BY <1>3, <2>1, Zenon DEF RectifyMapping
  <2>3. [byAddress EXCEPT ![a] = 0] \in [AsAddrs -> 0 .. AsMaxSize]
    OBVIOUS
  <2> QED
    BY <1>1, <1>3, <2>1, <2>2, <2>3, Zenon DEF RectifyMapping
<1>4. ASSUME NEW a \in AsAddrs, AsRemove(a) PROVE list'[s] \in AsAddrs /\ byAddress'[list'[s]] = s
  <2>1. CASE size = 0
    BY <1>4, <2>1, Zenon DEF AsRemove
  <2>2. CASE size # 0
    <3>1. version = "new" /\ size \in 1 .. AsMaxSize /\ s \in 1 .. (size - 1)
      BY <1>4, <2>2 DEF AsRemove
    <3>2. /\ list[size] \in AsAddrs /\ byAddress[list[size]] = size
          /\ list[s] \in AsAddrs /\ byAddress[list[s]] = s
      BY <3>1
    <3>3. list' = [t \in AsSlots |-> IF t = size THEN AsNone
                                     ELSE IF t = byAddress[a] /\ byAddress[a] < size THEN list[size] ELSE list[t]]
      BY <1>4, <2>2, Zenon DEF AsRemove
    <3>4. byAddress' = MovedMapping(a)
      BY <1>4, <2>2, Zenon DEF AsRemove
    <3>5. list[size] # AsNone
      BY <3>2, Zenon
    <3>6. CASE s = byAddress[a]
      <4>1. list'[s] = list[size]
        BY <3>1, <3>3, <3>6, SMTT(60)
      <4>2. byAddress' = [[byAddress EXCEPT ![a] = 0] EXCEPT ![list[size]] = byAddress[a]]
        BY <3>1, <3>4, <3>5, <3>6, SMTT(60) DEF MovedMapping
      <4> QED
        BY <3>2, <3>6, <4>1, <4>2, Zenon
    <3>7. CASE s # byAddress[a]
      <4>1. list'[s] = list[s] /\ list[s] # a /\ list[s] # list[size]
        BY <3>1, <3>2, <3>3, <3>7, SMTT(60)
      <4>2. byAddress'[list[s]] = byAddress[list[s]]
        BY <3>2, <3>4, <3>5, <4>1, ZenonT(60) DEF MovedMapping
      <4> QED
        BY <3>2, <4>1, <4>2, ZenonT(60)
    <3> QED
      BY <3>6, <3>7, Zenon
  <2> QED
    BY <2>1, <2>2, Zenon
<1>5. CASE Clear
  BY <1>5, SMTT(60) DEF Clear
<1>6. CASE Upgrade
  BY <1>6 DEF Upgrade
<1>7. CASE UNCHANGED asVars
  BY <1>7, Zenon DEF asVars
<1> QED
  BY <1>2, <1>3, <1>4, <1>5, <1>6, <1>7, ZenonT(60) DEF AsNext

\* ListMapsBack is inductive: an append writes a slot and its mapping together, a removal
\* remaps the member it moves, and the upgrade leaves no slot.
THEOREM ListMapsBackHolds == AsSpec => []ListMapsBack
<1>1. AsInit => ListMapsBack
  BY DEF AsInit, ListMapsBack
<1> QED
  BY <1>1, AsTypeCorrect, ListMapsBackStep, PTL DEF AsSpec

\* When every member is correctly mapped the list, which then has no slot without a
\* mapping and no member without a slot, is the set of members.
THEOREM RectifiedAgreesHolds == AsSpec => []RectifiedAgrees
<1>1. AsTypeOK /\ ListMapsBack => RectifiedAgrees
  <2> SUFFICES ASSUME AsTypeOK, ListMapsBack, version = "new", \A a \in AsAddrs : IsMember(a) => CorrectlyMapped(a)
               PROVE  AllMembers = {a \in AsAddrs : IsMember(a)} /\ Cardinality(AllMembers) = size
    BY Zenon DEF RectifiedAgrees
  <2> USE AsAssumption DEF AsTypeOK, AsSlots
  <2>1. \A s \in 1 .. size : list[s] \in AsAddrs /\ byAddress[list[s]] = s
    BY Zenon DEF ListMapsBack
  <2>2. AllMembers \subseteq {a \in AsAddrs : IsMember(a)}
    BY <2>1 DEF AllMembers, IsMember
  <2>3. {a \in AsAddrs : IsMember(a)} \subseteq AllMembers
    BY Zenon DEF AllMembers, CorrectlyMapped
  <2>4. Cardinality(AllMembers) = size
    <3> DEFINE f == [s \in 1 .. size |-> list[s]]
    <3>1. f \in Bijection(1 .. size, AllMembers)
      <4>1. f \in [1 .. size -> AllMembers]
        BY Zenon DEF AllMembers
      <4>2. \A s, t \in 1 .. size : f[s] = f[t] => s = t
        BY <2>1, Zenon
      <4>3. \A m \in AllMembers : \E s \in 1 .. size : f[s] = m
        BY Zenon DEF AllMembers
      <4> HIDE DEF f
      <4> QED
        BY <4>1, <4>2, <4>3, ZenonT(60) DEF Bijection, Injection, Surjection, IsInjective
    <3>2. IsFiniteSet(1 .. size) /\ Cardinality(1 .. size) = size
      BY FS_Interval
    <3> QED
      BY <3>1, <3>2, FS_Bijection DEF ExistsBijection
  <2> QED
    BY <2>2, <2>3, <2>4, Zenon
<1> QED
  BY <1>1, AsTypeCorrect, ListMapsBackHolds, PTL

\* The panic needs an empty list and a member, which then has no slot.
THEOREM PanicOnlyUnrectifiedHolds == AsSpec => []PanicOnlyUnrectified
<1>1. AsInit => PanicOnlyUnrectified
  BY Zenon DEF AsInit, PanicOnlyUnrectified
<1>2. AsTypeOK /\ PanicOnlyUnrectified /\ [AsNext]_asVars => PanicOnlyUnrectified'
  <2> SUFFICES ASSUME AsTypeOK, PanicOnlyUnrectified, [AsNext]_asVars, asPanic'
               PROVE  \E a \in AsAddrs : byAddress'[a] # 0 /\ ~(byAddress'[a] \in 1 .. size' /\ list'[byAddress'[a]] = a)
    BY Zenon DEF PanicOnlyUnrectified, IsMember, CorrectlyMapped
  <2>1. ASSUME NEW a \in AsAddrs, AsRemove(a), ~asPanic
        PROVE  \E b \in AsAddrs : byAddress'[b] # 0 /\ ~(byAddress'[b] \in 1 .. size' /\ list'[byAddress'[b]] = b)
    <3>1. size = 0 /\ UNCHANGED <<list, size, byAddress>>
      BY <2>1, Zenon DEF AsRemove
    <3> QED
      BY <2>1, <3>1 DEF AsRemove, IsMember
  <2>2. CASE UNCHANGED asVars
    BY <2>2, Zenon DEF asVars, PanicOnlyUnrectified, IsMember, CorrectlyMapped
  <2> QED
    BY <2>1, <2>2, Zenon DEF AsNext, Add, RectifyMapping, Append1, Clear, Upgrade
<1> QED
  BY <1>1, <1>2, AsTypeCorrect, PTL DEF AsSpec

\* A correct mapping lasts: an append does not touch it, and a removal moves the last
\* member of the list together with its mapping.
THEOREM RepairLastsHolds == AsSpec => RepairLasts
<1> DEFINE A == version = "new" /\ (\A a \in AsAddrs : IsMember(a) /\ ~CorrectlyMapped(a) => byAddress'[a] # 0)
                => \A a \in AsAddrs : CorrectlyMapped(a) /\ byAddress'[a] # 0 =>
                     byAddress'[a] \in 1 .. size' /\ list'[byAddress'[a]] = a
<1>1. AsTypeOK /\ ListMapsBack /\ [AsNext]_asVars => A
  <2> SUFFICES ASSUME AsTypeOK, ListMapsBack, [AsNext]_asVars, version = "new",
                      \A a \in AsAddrs : IsMember(a) /\ ~CorrectlyMapped(a) => byAddress'[a] # 0,
                      NEW b \in AsAddrs, CorrectlyMapped(b), byAddress'[b] # 0
               PROVE  byAddress'[b] \in 1 .. size' /\ list'[byAddress'[b]] = b
    OBVIOUS
  <2> USE AsAssumption DEF AsTypeOK, AsSlots
  <2>0. byAddress[b] \in 1 .. size /\ list[byAddress[b]] = b
    BY Zenon DEF CorrectlyMapped
  <2>1. ASSUME NEW a \in AsAddrs, Add(a) PROVE byAddress'[b] \in 1 .. size' /\ list'[byAddress'[b]] = b
    BY <2>0, <2>1, SMTT(60) DEF Add, Append1, IsMember
  <2>2. ASSUME NEW a \in AsAddrs, RectifyMapping(a) PROVE byAddress'[b] \in 1 .. size' /\ list'[byAddress'[b]] = b
    <3>1. a # b
      BY <2>2, Zenon DEF RectifyMapping
    <3> QED
      BY <2>0, <2>2, <3>1 DEF RectifyMapping, Append1
  <2>3. ASSUME NEW a \in AsAddrs, AsRemove(a) PROVE byAddress'[b] \in 1 .. size' /\ list'[byAddress'[b]] = b
    <3>0. size \in 1 .. AsMaxSize
      BY <2>0
    <3>1. /\ byAddress' = MovedMapping(a) /\ size' = size - 1
          /\ list' = [t \in AsSlots |-> IF t = size THEN AsNone
                                     ELSE IF t = byAddress[a] /\ byAddress[a] < size THEN list[size] ELSE list[t]]
      BY <2>3, <3>0 DEF AsRemove
    <3>2. byAddress'[a] = 0 \/ a = list[size]
      BY <3>1, Zenon DEF MovedMapping
    <3>3. CorrectlyMapped(a)
      <4>1. CASE byAddress'[a] = 0
        BY <2>3, <4>1, Zenon DEF AsRemove
      <4>2. CASE a = list[size]
        BY <3>0, <4>2, SMTT(60) DEF ListMapsBack, CorrectlyMapped
      <4> QED
        BY <3>2, <4>1, <4>2, Zenon
    <3>4. byAddress[a] \in 1 .. size /\ list[byAddress[a]] = a /\ list[size] \in AsAddrs /\ byAddress[list[size]] = size
      BY <3>0, <3>3, SMTT(60) DEF CorrectlyMapped, ListMapsBack
    <3>5. a # b
      BY <3>1, <3>4, SMTT(60) DEF MovedMapping
    <3>6. CASE b = list[size]
      <4>1. byAddress[a] < size
        BY <3>4, <3>5, <3>6, SMTT(60)
      <4>2. byAddress'[b] = byAddress[a]
        BY <3>1, <3>4, <3>6, <4>1, Zenon DEF MovedMapping
      <4> QED
        BY <3>1, <3>4, <3>6, <4>1, <4>2, SMTT(60)
    <3>7. CASE b # list[size]
      <4>1. byAddress'[b] = byAddress[b]
        BY <3>1, <3>5, <3>7, <3>4, Zenon DEF MovedMapping
      <4>2. byAddress[b] # size /\ byAddress[b] # byAddress[a]
        BY <2>0, <3>4, <3>5, <3>7, Zenon
      <4> QED
        BY <2>0, <3>1, <4>1, <4>2, SMTT(60)
    <3> QED
      BY <3>6, <3>7, Zenon
  <2>4. CASE Clear
    BY <2>0, <2>4, Zenon DEF Clear, AllMembers
  <2>5. CASE Upgrade
    BY <2>5, Zenon DEF Upgrade
  <2>6. CASE UNCHANGED asVars
    BY <2>0, <2>6, Zenon DEF asVars
  <2> QED
    BY <2>1, <2>2, <2>3, <2>4, <2>5, <2>6, SMTT(60) DEF AsNext
<1>2. AsTypeOK /\ ListMapsBack /\ [AsNext]_asVars => [A]_asVars
  BY <1>1
<1> QED
  BY <1>2, AsTypeCorrect, ListMapsBackHolds, PTL DEF AsSpec, RepairLasts

\* For every number of addresses and every history of versions: from version 11 on the list of
\* owners and the mapping agree, or are repaired for good (AddressSet.Add, Remove, RectifyMapping).
THEOREM OwnersAreSound == AsSpec => OwnersSound
<1> QED
  BY ListMapsBackHolds, RectifiedAgreesHolds, PanicOnlyUnrectifiedHolds, RepairLastsHolds, PTL DEF OwnersSound

-----------------------------------------------------------------------------
(* The structures in storage.                                              *)

\* A stretch of cells is a sequence exactly when they agree place by place.
LEMMA CellsAreSequence ==
  ASSUME NEW s \in Seq(Nat), NEW n \in Nat, NEW at, NEW g \in Nat
  PROVE  [i \in 1 .. n |-> at[g + i - 1]] = s <=> Len(s) = n /\ \A i \in 1 .. n : s[i] = at[g + i - 1]
<1>1. ASSUME [i \in 1 .. n |-> at[g + i - 1]] = s PROVE Len(s) = n /\ \A i \in 1 .. n : s[i] = at[g + i - 1]
  <2>1. DOMAIN s = 1 .. n /\ DOMAIN s = 1 .. Len(s)
    BY <1>1
  <2>2. Len(s) = n
    BY <2>1
  <2> QED
    BY <1>1, <2>2
<1>2. ASSUME Len(s) = n, \A i \in 1 .. n : s[i] = at[g + i - 1] PROVE [i \in 1 .. n |-> at[g + i - 1]] = s
  <2>1. s = [i \in 1 .. Len(s) |-> s[i]]
    OBVIOUS
  <2> QED
    BY <1>2, <2>1
<1> QED
  BY <1>1, <1>2

\* What the queue is asked for, in terms of its cells.
QueueRight ==
  /\ Len(stands) = cells.put - cells.get
  /\ \A i \in 1 .. Len(stands) : stands[i] = cells.at[cells.get + i - 1]
  /\ \A o \in QueueCells : o \notin cells.get .. cells.put - 1 => cells.at[o] = 0

\* QueueFifo follows from, and is, QueueRight.
LEMMA QueueFifoIs == QueueInv /\ sk = "queue" => (QueueFifo <=> QueueRight)
<1> SUFFICES ASSUME QueueInv, sk = "queue" PROVE QueueFifo <=> QueueRight
  OBVIOUS
<1>1. cells.put \in Nat /\ cells.get \in Nat /\ cells.put - cells.get \in Nat /\ stands \in Seq(Nat)
  BY DEF QueueInv
<1>2. ForEach = stands <=> Len(stands) = cells.put - cells.get /\ \A i \in 1 .. cells.put - cells.get : stands[i] = cells.at[cells.get + i - 1]
  <2> DEFINE n == cells.put - cells.get
             g == cells.get
             at == cells.at
  <2>1. ForEach = [i \in 1 .. n |-> at[g + i - 1]]
    BY Zenon DEF ForEach
  <2>2. n \in Nat /\ g \in Nat
    BY <1>1
  <2> HIDE DEF n, g, at
  <2>3. [i \in 1 .. n |-> at[g + i - 1]] = stands <=> Len(stands) = n /\ \A i \in 1 .. n : stands[i] = at[g + i - 1]
    BY <1>1, <2>2, CellsAreSequence, SMTT(60)
  <2> QED
    BY <2>1, <2>3, Zenon DEF n, g, at
<1>3. ASSUME ForEach = stands PROVE Peek = (IF stands = <<>> THEN Zero ELSE stands[1])
  <2>1. CASE stands = <<>>
    <3>1. cells.put = cells.get
      BY <1>1, <1>2, <1>3, <2>1
    <3> QED
      BY <2>1, <3>1 DEF Peek, QueueEmpty
  <2>2. CASE stands # <<>>
    <3>1. Len(stands) > 0
      BY <1>1, <2>2
    <3>2. cells.put # cells.get /\ stands[1] = cells.at[cells.get]
      BY <1>1, <1>2, <1>3, <3>1, SMTT(60)
    <3> QED
      BY <2>2, <3>2 DEF Peek, QueueEmpty
  <2> QED
    BY <2>1, <2>2
<1> QED
  BY <1>1, <1>2, <1>3 DEF QueueFifo, QueueRight, Zero

\* Put, Get and Shift keep the queue.
LEMMA QueueStep ==
  ASSUME QueueInv, QueueRight, QueueNext PROVE QueueInv' /\ QueueRight'
<1> DEFINE p == cells.put
           g == cells.get
           at == cells.at
<1>0. p \in Nat /\ g \in Nat /\ at \in [QueueCells -> Nat] /\ 2 <= g /\ g <= p /\ p <= SkMaxOps + 2 /\ stands \in Seq(Nat)
      /\ SkMaxOps \in Nat
  BY SkAssumption DEF QueueInv
<1>q. /\ Len(stands) = p - g
      /\ \A i \in 1 .. Len(stands) : stands[i] = at[g + i - 1]
      /\ \A o \in QueueCells : o \notin g .. p - 1 => at[o] = 0
  BY SMTT(60) DEF QueueRight
<1>1. ASSUME NEW v \in 1 .. 2, SkPut(v) PROVE QueueInv' /\ QueueRight'
  <2>1. cells'.put = p + 1 /\ cells'.get = g /\ cells'.at = [at EXCEPT ![p] = v] /\ stands' = Append(stands, v) /\ p <= SkMaxOps + 1
    BY <1>1, Zenon DEF SkPut, QueueInv
  <2>2. v \in Nat /\ p + 1 \in Nat /\ p \in QueueCells
    <3>1. p <= SkMaxOps + 1
      BY <2>1
    <3> HIDE DEF p, g
    <3> QED
      BY <1>0, <3>1, SMTT(60) DEF QueueCells
  <2>3. [at EXCEPT ![p] = v] \in [QueueCells -> Nat]
    BY <1>0, <2>2, SMTT(60)
  <2>4. cells' \in [put : Nat, get : Nat, at : [QueueCells -> Nat]]
    BY <1>1, <2>2, Zenon DEF SkPut, QueueInv
  <2> HIDE DEF p, g, at
  <2>5. stands' \in Seq(Nat) /\ Len(stands') = Len(stands) + 1
    BY <1>0, <2>1, <2>2, SMTT(60)
  <2>6. QueueInv'
    BY <1>0, <2>1, <2>4, <2>5, SMTT(60) DEF QueueInv
  <2>7. ASSUME NEW i \in 1 .. Len(stands') PROVE stands'[i] = cells'.at[cells'.get + i - 1]
    <3>1. CASE i = Len(stands) + 1
      <4>0. g + i - 1 = p
        BY <1>0, <1>q, <3>1
      <4>1. stands'[i] = v
        BY <1>0, <2>1, <3>1, SMTT(60)
      <4>2. cells'.at[p] = v /\ cells'.get = g
        BY <1>0, <2>1, <2>2
      <4> QED
        BY <4>0, <4>1, <4>2, Zenon
    <3>2. CASE i \in 1 .. Len(stands)
      <4>1. g + i - 1 # p /\ g + i - 1 \in QueueCells /\ stands'[i] = stands[i]
        <5>1. g + i - 1 # p
          BY <1>0, <1>q, <3>2, SMTT(60)
        <5>2. g + i - 1 \in QueueCells
          BY <1>0, <1>q, <2>2, <3>2, SMTT(60) DEF QueueCells
        <5>3. stands'[i] = stands[i]
          BY <1>0, <2>1, <2>2, <3>2, SMTT(60)
        <5> QED
          BY <5>1, <5>2, <5>3, Zenon
      <4> QED
        BY <1>0, <1>q, <2>1, <2>2, <3>2, <4>1, ZenonT(60)
    <3> QED
      BY <1>0, <2>5, <3>1, <3>2, SMTT(60)
  <2>8. ASSUME NEW o \in QueueCells, o \notin cells'.get .. cells'.put - 1 PROVE cells'.at[o] = 0
    <3>1. o # p /\ o \notin g .. p - 1
      BY <1>0, <2>1, <2>8, SMTT(60) DEF QueueCells
    <3> QED
      BY <1>0, <1>q, <2>1, <3>1, SMTT(60)
  <2> QED
    BY <1>0, <1>q, <2>1, <2>5, <2>6, <2>7, <2>8, SMTT(60) DEF QueueRight
<1>2. ASSUME SkGet PROVE QueueInv' /\ QueueRight'
  <2>1. cells'.put = p /\ cells'.get = g + 1 /\ cells'.at = [at EXCEPT ![g] = 0] /\ stands' = Tail(stands) /\ p # g
    BY <1>2, Zenon DEF SkGet, QueueInv, QueueEmpty, Taken, Zero
  <2>2. g + 1 \in Nat /\ g \in QueueCells /\ g < p /\ 0 \in Nat
    <3>1. p # g
      BY <2>1, SMTT(60)
    <3> HIDE DEF p, g
    <3> QED
      BY <1>0, <3>1, SMTT(60) DEF QueueCells
  <2>3. [at EXCEPT ![g] = 0] \in [QueueCells -> Nat]
    BY <1>0, <2>2, SMTT(60)
  <2>t. Taken \in [QueueCells -> Nat]
    BY <2>3, Zenon DEF Taken, Zero
  <2>4. cells' \in [put : Nat, get : Nat, at : [QueueCells -> Nat]]
    BY <1>2, <2>2, <2>t, ZenonT(60) DEF SkGet, QueueInv
  <2> HIDE DEF p, g, at
  <2>5. stands # <<>> /\ stands' \in Seq(Nat) /\ Len(stands') = Len(stands) - 1
    BY <1>0, <1>q, <2>1, <2>2, SMTT(60)
  <2>6. QueueInv'
    BY <1>0, <2>1, <2>2, <2>4, <2>5, SMTT(60) DEF QueueInv
  <2>7. ASSUME NEW i \in 1 .. Len(stands') PROVE stands'[i] = cells'.at[cells'.get + i - 1]
    <3>1. i + 1 \in 1 .. Len(stands) /\ stands'[i] = stands[i + 1]
      BY <1>0, <2>1, <2>5, SMTT(60)
    <3>2. g + (i + 1) - 1 # g /\ g + (i + 1) - 1 = (g + 1) + i - 1 /\ g + (i + 1) - 1 \in QueueCells
      BY <1>0, <1>q, <2>5, <3>1 DEF QueueCells
    <3>3. stands[i + 1] = at[g + (i + 1) - 1]
      BY <1>q, <3>1
    <3> QED
      BY <1>0, <2>1, <3>1, <3>2, <3>3, SMTT(60)
  <2>8. ASSUME NEW o \in QueueCells, o \notin cells'.get .. cells'.put - 1 PROVE cells'.at[o] = 0
    <3>1. o = g \/ o \notin g .. p - 1
      BY <1>0, <2>1, <2>8, SMTT(60) DEF QueueCells
    <3> QED
      BY <1>0, <1>q, <2>1, <3>1
  <2> QED
    BY <1>0, <1>q, <2>1, <2>5, <2>6, <2>7, <2>8, SMTT(60) DEF QueueRight
<1>3. ASSUME Shift PROVE QueueInv' /\ QueueRight'
  <2>1. cells'.put = 2 /\ cells'.get = 2 /\ cells'.at = at /\ stands' = stands /\ p = g
    BY <1>3, Zenon DEF Shift, QueueInv, QueueEmpty
  <2>2. 2 \in Nat
    OBVIOUS
  <2>4. cells' \in [put : Nat, get : Nat, at : [QueueCells -> Nat]]
    BY <1>3, <2>2, Zenon DEF Shift, QueueInv
  <2> HIDE DEF p, g, at
  <2>6. QueueInv'
    BY <1>0, <2>1, <2>4, SMTT(60) DEF QueueInv
  <2>7. \A o \in QueueCells : at[o] = 0
    BY <1>0, <1>q, <2>1, SMTT(60) DEF QueueCells
  <2> QED
    BY <1>0, <1>q, <2>1, <2>6, <2>7, SMTT(60) DEF QueueRight
<1> QED
  BY <1>1, <1>2, <1>3, Zenon DEF QueueNext

\* A remainder and a quotient, by the number they come from.
LEMMA DivMod ==
  ASSUME NEW a \in Nat, NEW w \in Nat \ {0}
  PROVE  a \div w \in Nat /\ a % w \in Nat /\ a % w < w /\ a = w * (a \div w) + (a % w)
OBVIOUS

\* Two numbers less than w apart have different remainders.
LEMMA NearDiffer ==
  ASSUME NEW a \in Nat, NEW b \in Nat, NEW w \in Nat \ {0}, a < b, b < a + w
  PROVE  a % w # b % w
<1> DEFINE qa == a \div w
           qb == b \div w
<1>1. qa \in Nat /\ qb \in Nat /\ a = w * qa + (a % w) /\ b = w * qb + (b % w)
  BY DivMod, SMTT(60)
<1> HIDE DEF qa, qb
<1>2. ASSUME a % w = b % w PROVE FALSE
  <2>1. w * (qb - qa) = b - a
    BY <1>1, <1>2, SMTT(60)
  <2>2. CASE qb <= qa
    <3>1. w * (qb - qa) <= 0
      BY <1>1, <2>2
    <3> QED
      BY <2>1, <3>1
  <2>3. CASE qb > qa
    <3>1. w * (qb - qa) >= w
      BY <1>1, <2>3
    <3> QED
      BY <2>1, <3>1
  <2> QED
    BY <1>1, <2>2, <2>3, SMTT(60)
<1> QED
  BY <1>2

\* Recording a block keeps the hash of every block that the ring still covers.
LEMMA HashesStep ==
  ASSUME sk = "hashes", HashesInv, RecordedHashKept, HashesNext, UNCHANGED sk PROVE HashesInv' /\ RecordedHashKept'
<1> PICK number \in 0 .. SkMaxL1 : RecordNewL1Block(number)
  BY DEF HashesNext
<1> DEFINE w == SkWindow
           next == cells.next
<1>0. number \in Nat /\ w \in Nat \ {0} /\ next \in Nat /\ number >= next
  BY SkAssumption DEF HashesInv, RecordNewL1Block
<1>1. /\ cells'.next = number + 1
      /\ \A i \in 0 .. w - 1 : cells'.ring[i] =
           IF i = number % w THEN <<number, number>>
           ELSE IF \E n \in Filled(number) : n % w = i
           THEN <<CHOOSE n \in Filled(number) : n % w = i, number>>
           ELSE cells.ring[i]
      /\ DOMAIN cells'.ring = 0 .. w - 1
      /\ stands' = stands \cup {number}
  BY Zenon DEF RecordNewL1Block
<1>2. Filled(number) \subseteq Nat
  BY <1>0, SMTT(60) DEF Filled
<1>3. ASSUME NEW i \in 0 .. w - 1 PROVE cells'.ring[i] \in {<<>>} \cup (Nat \X Nat)
  <2>1. CASE i = number % w
    <3>1. cells'.ring[i] = <<number, number>>
      BY <1>1, <2>1, Zenon
    <3> QED
      BY <1>0, <3>1
  <2>2. CASE i # number % w /\ \E n \in Filled(number) : n % w = i
    <3> DEFINE c == CHOOSE n \in Filled(number) : n % w = i
    <3>1. c \in Nat
      BY <1>2, <2>2, SMTT(60)
    <3>2. cells'.ring[i] = <<c, number>>
      BY <1>1, <2>2, Zenon
    <3> HIDE DEF c
    <3> QED
      BY <1>0, <3>1, <3>2, SMTT(60)
  <2>3. CASE i # number % w /\ ~\E n \in Filled(number) : n % w = i
    <3>1. cells'.ring[i] = cells.ring[i]
      BY <1>1, <2>3, Zenon
    <3> QED
      BY <3>1, Zenon DEF HashesInv
  <2> QED
    BY <2>1, <2>2, <2>3, SMTT(60)
<1>4. cells' \in [next : Nat, ring : [0 .. w - 1 -> {<<>>} \cup (Nat \X Nat)]]
  <2>1. cells' = [next |-> cells'.next, ring |-> cells'.ring] /\ cells'.ring = [i \in 0 .. w - 1 |-> cells'.ring[i]]
    BY Zenon DEF RecordNewL1Block
  <2>2. number + 1 \in Nat
    BY <1>0
  <2>3. cells'.ring \in [0 .. w - 1 -> {<<>>} \cup (Nat \X Nat)]
    BY <1>3, <2>1, Zenon
  <2> QED
    BY <1>1, <2>1, <2>2, <2>3, Zenon
<1>5. HashesInv'
  <2>1. stands' \subseteq 0 .. cells'.next - 1
    BY <1>0, <1>1, SMTT(60) DEF HashesInv
  <2> QED
    BY <1>4, <2>1, SMTT(60) DEF HashesInv
<1>6. ASSUME NEW n \in stands', n < number + 1, n + w >= number + 1 PROVE cells'.ring[n % w] = <<n, n>>
  <2>0. n \in Nat /\ n % w \in 0 .. w - 1
    <3>1. n \in Nat
      BY <1>0, <1>1, SMTT(60) DEF HashesInv
    <3> QED
      BY <1>0, <3>1, DivMod, SMTT(60)
  <2>1. CASE n = number
    BY <1>1, <2>0, <2>1, ZenonT(60)
  <2>2. CASE n # number
    <3>1. n \in stands /\ n < next /\ n < number /\ n + w >= next
      BY <1>0, <1>1, <1>6, <2>0, <2>2, SMTT(60) DEF HashesInv
    <3>2. n % w # number % w
      <4>1. number < n + w
        BY <1>0, <1>6, <2>0
      <4> QED
        BY <1>0, <2>0, <3>1, <4>1, NearDiffer, Zenon
    <3>3. ASSUME NEW m \in Filled(number) PROVE m % w # n % w
      <4>1. m \in Nat /\ m < number /\ m > n
        BY <1>0, <1>6, <2>0, <3>1, SMTT(60) DEF Filled
      <4>2. m < n + w
        BY <1>0, <1>6, <2>0, <4>1, SMTT(60)
      <4> QED
        BY <1>0, <2>0, <4>1, <4>2, NearDiffer, ZenonT(60)
    <3>4. cells'.ring[n % w] = cells.ring[n % w]
      BY <1>1, <2>0, <3>2, <3>3, ZenonT(60)
    <3>5. cells.ring[n % w] = <<n, n>>
      BY <3>1, SMTT(60) DEF RecordedHashKept, BlockHashValid, BlockHash
    <3> QED
      BY <3>4, <3>5, SMTT(60)
  <2> QED
    BY <2>1, <2>2, SMTT(60)
<1>7. RecordedHashKept'
  BY <1>1, <1>6 DEF RecordedHashKept, BlockHashValid, BlockHash
<1> QED
  BY <1>5, <1>7, SMTT(60)

\* Registering an address leaves the places of the others.
LEMMA TableStep ==
  ASSUME sk = "table", TableInv, FormsStable, TableNext, UNCHANGED sk PROVE TableInv' /\ FormsStable'
<1> DEFINE items == cells.items
           by == cells.byAddress
           Forms == [kind : {"index"}, index : Nat] \cup [kind : {"address"}, address : SkAddrs]
<1>0. /\ items \in Seq(SkAddrs) /\ by \in [SkAddrs -> Nat] /\ stands \subseteq Forms \X SkAddrs
      /\ cells = [items |-> items, byAddress |-> by]
      /\ \A a \in SkAddrs : by[a] # 0 => by[a] <= Len(items) /\ items[by[a]] = a
  BY Zenon DEF TableInv
<1>1. PICK a \in SkAddrs : \/ Register(a) /\ UNCHANGED stands
                           \/ stands' = stands \cup {<<Compress(a), a>>} /\ UNCHANGED cells
  BY Zenon DEF TableNext
<1>2. CASE stands' = stands \cup {<<Compress(a), a>>} /\ UNCHANGED cells
  <2>1. Compress(a) \in Forms /\ Decompress(Compress(a)) = {a}
    <3>1. CASE by[a] = 0
      <4>1. Compress(a) = [kind |-> "address", address |-> a]
        BY <3>1, Zenon DEF Compress
      <4> QED
        BY <4>1 DEF Decompress
    <3>2. CASE by[a] # 0
      <4>1. Compress(a) = [kind |-> "index", index |-> by[a] - 1]
        BY <3>2, Zenon DEF Compress, Lookup
      <4>2. by[a] \in Nat /\ by[a] - 1 \in Nat /\ by[a] - 1 < Len(items) /\ (by[a] - 1) + 1 = by[a] /\ items[by[a]] = a
        <5>1. by[a] \in Nat /\ by[a] # 0 /\ by[a] <= Len(items) /\ Len(items) \in Nat /\ items[by[a]] = a
          BY <1>0, <3>2
        <5> HIDE DEF by, items
        <5> QED
          BY <5>1, SMTT(60)
      <4>3. [kind |-> "index", index |-> by[a] - 1] \in [kind : {"index"}, index : Nat]
        BY <4>2, Zenon
      <4>4. Decompress([kind |-> "index", index |-> by[a] - 1]) = LookupIndex(by[a] - 1)
        BY Zenon DEF Decompress
      <4>5. LookupIndex(by[a] - 1) = {a}
        BY <4>2, Zenon DEF LookupIndex
      <4> QED
        BY <4>1, <4>3, <4>4, <4>5, Zenon
    <3> QED
      BY <3>1, <3>2, SMTT(60)
  <2>2. stands' \subseteq Forms \X SkAddrs
    <3>1. <<Compress(a), a>> \in Forms \X SkAddrs
      BY <2>1, Zenon
    <3> HIDE DEF Forms
    <3> QED
      BY <1>0, <1>2, <3>1, Zenon
  <2>3. TableInv'
    <3>1. cells' = cells
      BY <1>2
    <3> QED
      BY <2>2, <3>1, Zenon DEF TableInv
  <2>4. ASSUME NEW f \in stands' PROVE Decompress(f[1]) = {f[2]}
    <3>1. CASE f \in stands
      BY <3>1, Zenon DEF FormsStable
    <3>2. CASE f = <<Compress(a), a>>
      <4>1. f[1] = Compress(a) /\ f[2] = a
        BY <3>2
      <4> QED
        BY <2>1, <4>1, Zenon
    <3> QED
      BY <1>2, <3>1, <3>2, Zenon
  <2>5. FormsStable'
    <3>1. ASSUME NEW f PROVE Decompress(f)' = Decompress(f')
      BY <1>2, Zenon DEF Decompress, LookupIndex
    <3> QED
      BY <1>2, <2>4, Zenon DEF FormsStable, Decompress, LookupIndex
  <2> QED
    BY <2>3, <2>5, SMTT(60)
<1>3. CASE by[a] # 0 /\ Register(a) /\ UNCHANGED stands
  <2>1. cells' = cells /\ stands' = stands
    BY <1>3, Zenon DEF Register
  <2> QED
    BY <2>1, Zenon DEF TableInv, FormsStable, Decompress, LookupIndex
<1>4. CASE by[a] = 0 /\ Register(a) /\ UNCHANGED stands
  <2>1. cells' = [items |-> Append(items, a), byAddress |-> [by EXCEPT ![a] = Len(items) + 1]] /\ stands' = stands
    BY <1>4, Zenon DEF Register
  <2>2. cells'.items = Append(items, a) /\ cells'.byAddress = [by EXCEPT ![a] = Len(items) + 1]
    BY <2>1, ZenonT(60)
  <2> HIDE DEF items, by
  <2>3. /\ Append(items, a) \in Seq(SkAddrs) /\ Len(Append(items, a)) = Len(items) + 1 /\ Len(items) \in Nat
        /\ [by EXCEPT ![a] = Len(items) + 1] \in [SkAddrs -> Nat]
        /\ \A k \in 1 .. Len(items) : Append(items, a)[k] = items[k]
        /\ Append(items, a)[Len(items) + 1] = a
    BY <1>0, SMTT(60)
  <2>4. ASSUME NEW b \in SkAddrs, cells'.byAddress[b] # 0
        PROVE  cells'.byAddress[b] <= Len(cells'.items) /\ cells'.items[cells'.byAddress[b]] = b
    <3>1. CASE b = a
      <4>1. cells'.byAddress[b] = Len(items) + 1
        BY <1>0, <2>2, <3>1, SMTT(60)
      <4> QED
        BY <2>2, <2>3, <3>1, <4>1, SMTT(60)
    <3>2. CASE b # a
      <4>1. cells'.byAddress[b] = by[b]
        BY <1>0, <2>2, <3>2, SMTT(60)
      <4>2. by[b] # 0 /\ by[b] \in Nat /\ by[b] <= Len(items) /\ items[by[b]] = b
        BY <1>0, <2>4, <4>1, SMTT(60)
      <4>3. by[b] \in 1 .. Len(items)
        BY <2>3, <4>2, SMTT(60)
      <4> QED
        BY <2>2, <2>3, <4>1, <4>2, <4>3, SMTT(60)
    <3> QED
      BY <3>1, <3>2, SMTT(60)
  <2>5. cells' \in [items : Seq(SkAddrs), byAddress : [SkAddrs -> Nat]]
    BY <2>1, <2>3, Zenon
  <2>6. TableInv'
    BY <1>0, <2>1, <2>4, <2>5, ZenonT(60) DEF TableInv
  <2>7. ASSUME NEW f \in stands PROVE IF f[1].kind = "address" THEN {f[1].address} = {f[2]}
                                      ELSE f[1].index < Len(cells'.items) /\ cells'.items[f[1].index + 1] = f[2]
    <3>1. Decompress(f[1]) = {f[2]}
      BY Zenon DEF FormsStable
    <3>2. CASE f[1].kind = "address"
      BY <3>1, <3>2, Zenon DEF Decompress
    <3>3. CASE f[1].kind # "address"
      <4>1. f[1] \in [kind : {"index"}, index : Nat]
        BY <1>0, <3>3
      <4>2. LookupIndex(f[1].index) = {f[2]} /\ f[1].index \in Nat
        BY <3>1, <3>3, <4>1, Zenon DEF Decompress
      <4>3. f[1].index < Len(items) /\ items[f[1].index + 1] = f[2]
        BY <4>2, SMTT(60) DEF LookupIndex, items
      <4>4. f[1].index + 1 \in 1 .. Len(items) /\ f[1].index < Len(items) + 1
        BY <2>3, <4>2, <4>3, SMTT(60)
      <4> QED
        BY <2>2, <2>3, <3>3, <4>3, <4>4, ZenonT(60)
    <3> QED
      BY <3>2, <3>3
  <2>8. FormsStable'
    BY <2>1, <2>7, Zenon DEF FormsStable, Decompress, LookupIndex
  <2> QED
    BY <2>6, <2>8
<1> QED
  BY <1>1, <1>2, <1>3, <1>4, Zenon

\* A number that is written is stored as it is, refused or brought to the nearest end.
LEMMA NumberStep ==
  ASSUME sk = "number", NumberInv, NumberNext, UNCHANGED sk PROVE NumberInv' /\ NumberStored'
<1> PICK val \in SkNumbers, how \in {"checked", "saturating", "pre7"}, signed \in BOOLEAN : SetNumber(val, how, signed)
  BY DEF NumberNext
<1> DEFINE lo == IF signed THEN 0 - SkHalf ELSE 0
           hi == IF signed THEN SkHalf - 1 ELSE SkRange - 1
<1>0. /\ val \in Int /\ SkHalf \in Nat \ {0} /\ SkRange = 2 * SkHalf /\ cells.raw \in 0 .. SkRange - 1
      /\ stands' = [val |-> val, how |-> how, signed |-> signed]
      /\ signed \/ how # "pre7"
  BY SkAssumption DEF SkRange, NumberInv, SetNumber
<1>1. ASSUME NEW n \in Nat PROVE ToHash(n) \in 0 .. SkRange - 1 /\ (n < SkRange => ToHash(n) = n)
  BY <1>0 DEF ToHash
<1>2. ASSUME NEW n \in Int PROVE ToHash(n) \in 0 .. SkRange - 1
  BY <1>0 DEF ToHash
<1>3. stands'.val = val /\ stands'.how = how /\ stands'.signed = signed
  BY <1>0, Zenon
<1>4. stands' \in [val : Int, how : {"checked", "saturating", "pre7"}, signed : BOOLEAN]
  BY <1>0
<1>5. /\ cells.raw \in 0 .. SkRange - 1 /\ [cells EXCEPT !.failed = TRUE].raw = cells.raw
      /\ [cells EXCEPT !.failed = TRUE].failed = TRUE
      /\ [cells EXCEPT !.failed = TRUE] \in [raw : 0 .. SkRange - 1, failed : BOOLEAN]
  BY Zenon DEF NumberInv
<1>6. CASE ~signed
  <2> DEFINE under == val < 0
             over == val >= SkRange
             x == IF under THEN 0 ELSE IF over THEN SkRange - 1 ELSE val
  <2>0. cells' = IF how = "checked" /\ (under \/ over) THEN [cells EXCEPT !.failed = TRUE]
                 ELSE [raw |-> ToHash(x), failed |-> FALSE]
    BY <1>6, Zenon DEF SetNumber, SetUnsigned
  <2>1. x \in Nat /\ x < SkRange
    BY <1>0
  <2>2. ToHash(x) = x /\ x \in 0 .. SkRange - 1
    <3> HIDE DEF x
    <3> QED
      BY <1>0, <1>1, <2>1, SMTT(60)
  <2>3. CASE how = "checked" /\ (under \/ over)
    <3>1. cells'.raw = cells.raw /\ cells'.failed = TRUE /\ cells' \in [raw : 0 .. SkRange - 1, failed : BOOLEAN]
      BY <1>5, <2>0, <2>3, ZenonT(60)
    <3>2. val \notin 0 .. SkRange - 1
      BY <1>0, <2>3
    <3> HIDE DEF under, over
    <3>3. NumberStored'
      BY <1>3, <1>6, <2>3, <3>1, <3>2, Zenon DEF NumberStored
    <3> QED
      BY <1>4, <3>1, <3>3, Zenon DEF NumberInv
  <2>4. CASE ~(how = "checked" /\ (under \/ over))
    <3>1. cells'.raw = x /\ cells'.failed = FALSE /\ cells' = [raw |-> x, failed |-> FALSE]
      BY <2>0, <2>2, <2>4, ZenonT(60)
    <3>2. cells' \in [raw : 0 .. SkRange - 1, failed : BOOLEAN]
      BY <2>2, <3>1, SMTT(60)
    <3>3. /\ how = "checked" => val \in 0 .. SkRange - 1 /\ x = val
          /\ x = IF val < 0 THEN 0 ELSE IF val > SkRange - 1 THEN SkRange - 1 ELSE val
          /\ how # "pre7"
      BY <1>0, <1>6, <2>4, SMTT(60)
    <3> HIDE DEF under, over, x
    <3>4. NumberStored'
      BY <1>0, <1>3, <1>6, <3>1, <3>3, ZenonT(60) DEF NumberStored
    <3> QED
      BY <1>4, <3>2, <3>4, Zenon DEF NumberInv
  <2> QED
    BY <2>3, <2>4
<1>7. CASE signed
  <2> DEFINE wrapped == val + SkRange
             under == val < 0 /\ (wrapped < SkHalf \/ wrapped <= 0)
             over == val >= SkHalf
             x == IF under THEN SkHalf ELSE IF over THEN SkHalf - 1 ELSE IF val < 0 THEN wrapped ELSE val
             Got(r) == IF r >= SkHalf THEN r - SkRange ELSE r
  <2>0. cells' = IF how = "pre7" THEN [raw |-> ToHash(val), failed |-> FALSE]
                 ELSE IF how = "checked" /\ (under \/ over) THEN [cells EXCEPT !.failed = TRUE]
                 ELSE [raw |-> ToHash(x), failed |-> FALSE]
    BY <1>7, ZenonT(60) DEF SetNumber, SetSigned
  <2>1. x \in Nat /\ x < SkRange /\ (under <=> val < 0 - SkHalf)
        /\ Got(x) = IF val < 0 - SkHalf THEN 0 - SkHalf ELSE IF val > SkHalf - 1 THEN SkHalf - 1 ELSE val
    BY <1>0, SMTT(60)
  <2>2. ToHash(x) = x /\ x \in 0 .. SkRange - 1
    <3> HIDE DEF x
    <3> QED
      BY <1>0, <1>1, <2>1
  <2>3. CASE how = "checked" /\ (under \/ over)
    <3>1. cells'.raw = cells.raw /\ cells'.failed = TRUE /\ cells' \in [raw : 0 .. SkRange - 1, failed : BOOLEAN]
      BY <1>5, <2>0, <2>3, Zenon
    <3>2. val \notin (0 - SkHalf) .. SkHalf - 1
      BY <1>0, <2>3
    <3> HIDE DEF under, over
    <3>3. NumberStored'
      BY <1>3, <1>7, <2>3, <3>1, <3>2, Zenon DEF NumberStored
    <3> QED
      BY <1>4, <3>1, <3>3, Zenon DEF NumberInv
  <2>4. CASE how # "pre7" /\ ~(how = "checked" /\ (under \/ over))
    <3>1. cells'.raw = x /\ cells'.failed = FALSE /\ cells' = [raw |-> x, failed |-> FALSE]
      BY <2>0, <2>2, <2>4, ZenonT(60)
    <3>2. cells' \in [raw : 0 .. SkRange - 1, failed : BOOLEAN] /\ GetSigned' = Got(x)
      BY <2>2, <3>1, SMTT(60) DEF GetSigned
    <3>3. how = "checked" => val \in (0 - SkHalf) .. SkHalf - 1 /\ Got(x) = val
      BY <1>0, <2>4, SMTT(60)
    <3> HIDE DEF under, over, x, Got
    <3>4. NumberStored'
      BY <1>0, <1>3, <1>7, <2>1, <2>4, <3>1, <3>2, <3>3, ZenonT(60) DEF NumberStored
    <3> QED
      BY <1>4, <3>2, <3>4, Zenon DEF NumberInv
  <2>5. CASE how = "pre7"
    <3>1. cells'.raw = ToHash(val) /\ cells' = [raw |-> ToHash(val), failed |-> FALSE]
      BY <2>0, <2>5, ZenonT(60)
    <3>2. cells' \in [raw : 0 .. SkRange - 1, failed : BOOLEAN]
      BY <1>0, <1>2, <3>1, SMTT(60)
    <3>3. val \in 0 .. SkHalf - 1 => GetSigned' = val
      <4>1. val \in 0 .. SkHalf - 1 => ToHash(val) = val
        BY <1>0, <1>1
      <4> QED
        BY <1>0, <3>1, <4>1, SMTT(60) DEF GetSigned
    <3>4. NumberStored'
      BY <1>3, <1>7, <2>5, <3>3, Zenon DEF NumberStored
    <3> QED
      BY <1>4, <3>2, <3>4, Zenon DEF NumberInv
  <2> QED
    BY <2>3, <2>4, <2>5
<1> QED
  BY <1>6, <1>7

\* Products grow with their factors.
LEMMA ProductMonotone == ASSUME NEW a \in Nat, NEW b \in Nat, NEW w \in Nat, a <= b PROVE a * w <= b * w
<1>1. (b - a) * w >= 0
  OBVIOUS
<1> QED
  BY <1>1

\* A padded string of at most one word has its bytes at the end.
LEMMA PadIs ==
  ASSUME NEW b \in Seq(Nat), Len(b) <= SkWord
  PROVE  /\ Pad(b) \in [1 .. SkWord -> Nat]
         /\ \A k \in 1 .. Len(b) : Pad(b)[SkWord - Len(b) + k] = b[k]
<1>0. SkWord \in Nat /\ Len(b) \in Nat
  BY SkAssumption
<1>1. ASSUME NEW i \in 1 .. SkWord PROVE (IF i <= SkWord - Len(b) THEN 0 ELSE b[i - (SkWord - Len(b))]) \in Nat
  BY <1>0, SMTT(60)
<1>2. ASSUME NEW k \in 1 .. Len(b) PROVE Pad(b)[SkWord - Len(b) + k] = b[k]
  <2>1. SkWord - Len(b) + k \in 1 .. SkWord /\ ~(SkWord - Len(b) + k <= SkWord - Len(b)) /\ (SkWord - Len(b) + k) - (SkWord - Len(b)) = k
    BY <1>0
  <2> QED
    BY <2>1 DEF Pad
<1> QED
  BY <1>1, <1>2, Zenon DEF Pad

\* A word of zeros is a word.
LEMMA ZeroWordType == ZeroWord \in [1 .. SkWord -> Nat]
<1>1. <<>> \in Seq(Nat) /\ Len(<<>>) <= SkWord
  BY SkAssumption
<1> QED
  BY <1>1, PadIs, Zenon DEF ZeroWord

\* The words that SetBytes writes: all but the last are full, the last holds what is left.
LEMMA WordsOf ==
  ASSUME NEW b \in Seq(Nat), NEW o \in 1 .. (Len(b) \div SkWord) + 1
  PROVE  LET n == Len(b)
             q == n \div SkWord
             sub == SubSeq(b, (o - 1) * SkWord + 1, IF o * SkWord < n THEN o * SkWord ELSE n)
         IN  /\ sub \in Seq(Nat) /\ Len(sub) = (IF o <= q THEN SkWord ELSE n % SkWord)
             /\ Len(sub) <= SkWord
             /\ \A k \in 1 .. Len(sub) : sub[k] = b[(o - 1) * SkWord + k]
<1> DEFINE w == SkWord
           n == Len(b)
           q == n \div w
           r == n % w
           from == (o - 1) * w + 1
           to == IF o * w < n THEN o * w ELSE n
           sub == SubSeq(b, from, to)
<1>0. /\ w \in Nat \ {0} /\ n \in Nat /\ q \in Nat /\ r \in Nat /\ r < w /\ n = w * q + r
  BY SkAssumption, DivMod, SMTT(60)
<1>1. o \in Nat /\ o >= 1 /\ o <= q + 1 /\ o - 1 \in Nat
  BY <1>0
<1> HIDE DEF w, n, q, r
<1>2. (o - 1) * w \in Nat /\ o * w \in Nat /\ o * w = (o - 1) * w + w
  BY <1>0, <1>1, SMTT(60)
<1>3. CASE o <= q
  <2>1. o * w <= q * w
    BY <1>0, <1>1, <1>3, ProductMonotone
  <2>2. to = o * w /\ to <= n
    BY <1>0, <1>2, <2>1, SMTT(60)
  <2>3. from \in Nat /\ from >= 1 /\ to \in Nat /\ to - from + 1 = w /\ from <= to + 1
    BY <1>0, <1>2, <2>2, SMTT(60)
  <2> HIDE DEF from, to
  <2>4. sub \in Seq(Nat) /\ Len(sub) = w
    BY <1>0, <2>2, <2>3, SMTT(60) DEF n
  <2>5. ASSUME NEW k \in 1 .. Len(sub) PROVE sub[k] = b[(o - 1) * w + k]
    <3>1. sub[k] = b[from + k - 1] /\ from + k - 1 = (o - 1) * w + k
      BY <1>0, <1>2, <2>2, <2>3, <2>4, SMTT(60) DEF n, from
    <3> QED
      BY <3>1, SMTT(60)
  <2> QED
    BY <1>0, <1>3, <2>4, <2>5, SMTT(60) DEF w, n, q, r, from, to, sub
<1>4. CASE o = q + 1
  <2>1. (o - 1) * w = w * q /\ o * w > n
    BY <1>0, <1>1, <1>2, <1>4, SMTT(60)
  <2>2. to = n
    BY <1>0, <1>2, <2>1, SMTT(60)
  <2>3. from \in Nat /\ from >= 1 /\ to \in Nat /\ to - from + 1 = r /\ from <= to + 1
    BY <1>0, <1>2, <2>1, <2>2, SMTT(60)
  <2> HIDE DEF from, to
  <2>4. sub \in Seq(Nat) /\ Len(sub) = r
    BY <1>0, <2>2, <2>3, SMTT(60) DEF n
  <2>5. ASSUME NEW k \in 1 .. Len(sub) PROVE sub[k] = b[(o - 1) * w + k]
    <3>1. sub[k] = b[from + k - 1]
      BY <1>0, <2>2, <2>3, <2>4, SMTT(60) DEF n
    <3>2. from + k - 1 = (o - 1) * w + k
      BY <1>0, <1>2, <2>3, <2>4, SMTT(60) DEF from
    <3> QED
      BY <3>1, <3>2, SMTT(60)
  <2>6. ~(o <= q) /\ Len(sub) <= w
    BY <1>0, <1>4, <2>4, SMTT(60)
  <2> QED
    BY <2>4, <2>5, <2>6, Zenon DEF w, n, q, r, from, to, sub
<1>5. o <= q \/ o = q + 1
  BY <1>0, <1>1
<1> QED
  BY <1>3, <1>4, <1>5, Zenon

\* A string read back is the one that was written, and the cells behind it are zero.
LEMMA BytesStep ==
  ASSUME sk = "bytes", BytesInv, BytesExact, BytesNext, UNCHANGED sk PROVE BytesInv' /\ BytesExact'
<1> DEFINE w == SkWord
           max == SkMaxBytes
           Words == [1 .. w -> Nat]
<1>0. /\ w \in Nat \ {0} /\ max \in Nat /\ cells.len \in 0 .. max /\ cells.word \in [BytesCells -> Words] /\ stands \in Seq(Nat)
      /\ cells.len = Len(stands)
      /\ \A o \in BytesCells : (o - 1) * w >= cells.len => cells.word[o] = ZeroWord
  BY SkAssumption DEF BytesInv, BytesExact
<1>z. ZeroWord \in Words
  BY ZeroWordType
<1>b. max \div w \in Nat /\ BytesCells = 1 .. (max \div w) + 1
  BY <1>0, DivMod, Zenon DEF BytesCells
<1>c. ASSUME NEW o \in BytesCells
      PROVE  ClearBytes.word[o] \in Words /\ ClearBytes.word[o] = ZeroWord
  <2>1. ClearBytes.word[o] = IF (o - 1) * w < cells.len THEN ZeroWord ELSE cells.word[o]
    BY Zenon DEF ClearBytes
  <2>2. (o - 1) * w \in Int /\ cells.len \in Nat
    BY <1>0, <1>b, SMTT(60)
  <2>3. (o - 1) * w < cells.len \/ (o - 1) * w >= cells.len
    BY <2>2, SMTT(60)
  <2>4. ClearBytes.word[o] = ZeroWord
    BY <1>0, <2>1, <2>3, SMTT(60)
  <2> QED
    BY <1>z, <2>4
<1>1. CASE ClearString
  <2>1. cells' = ClearBytes /\ cells'.len = 0 /\ stands' = <<>> /\ DOMAIN cells'.word = BytesCells
        /\ cells' = [len |-> 0, word |-> cells'.word] /\ cells'.word = [o \in BytesCells |-> cells'.word[o]]
    BY <1>1, Zenon DEF ClearString, ClearBytes
  <2>2. cells'.word \in [BytesCells -> Words]
    BY <1>c, <2>1, Zenon
  <2>3. 0 \in 0 .. max /\ Len(<<>>) = 0 /\ <<>> \in Seq(Nat)
    BY <1>0
  <2>4. cells' \in [len : 0 .. max, word : [BytesCells -> Words]]
    BY <2>1, <2>2, <2>3, Zenon
  <2>5. BytesInv'
    BY <2>1, <2>3, <2>4, Zenon DEF BytesInv
  <2>6. GetBytes' = <<>>
    BY <2>1 DEF GetBytes
  <2>7. BytesExact'
    BY <1>c, <2>1, <2>6, Zenon DEF BytesExact
  <2> QED
    BY <2>5, <2>7
<1>2. ASSUME NEW n \in 0 .. max, NEW b \in [1 .. n -> 0 .. 1], SetBytes(b) PROVE BytesInv' /\ BytesExact'
  <2> DEFINE q == n \div w
             r == n % w
             Sub(o) == SubSeq(b, (o - 1) * w + 1, IF o * w < n THEN o * w ELSE n)
  <2>0. b \in Seq(Nat) /\ Len(b) = n /\ n \in Nat /\ n <= max
    BY <1>0
  <2>1. q \in Nat /\ r \in Nat /\ r < w /\ n = w * q + r
    BY <1>0, <2>0, DivMod, Zenon
  <2>2. q <= max \div w
    <3> DEFINE qm == max \div w
               rm == max % w
    <3>1. qm \in Nat /\ rm \in Nat /\ rm < w /\ max = w * qm + rm
      BY <1>0, DivMod, SMTT(60)
    <3> HIDE DEF q, r, qm, rm, w, max
    <3>2. ASSUME q >= qm + 1 PROVE FALSE
      <4>1. (qm + 1) * w <= q * w
        BY <1>0, <2>1, <3>1, <3>2, ProductMonotone, SMTT(60)
      <4>2. w * qm + w <= w * q
        BY <1>0, <2>1, <3>1, <4>1, SMTT(60)
      <4> DEFINE x == w * q
                 y == w * qm
      <4>3. x \in Nat /\ y \in Nat /\ n = x + r /\ max = y + rm /\ y + w <= x
        BY <1>0, <2>1, <3>1, <4>2, SMTT(60)
      <4> HIDE DEF x, y
      <4> QED
        BY <1>0, <2>0, <2>1, <3>1, <4>3, SMTT(60)
    <3>3. q <= qm
      BY <2>1, <3>1, <3>2
    <3> QED
      BY <3>3, SMTT(60) DEF qm
  <2>3. /\ cells'.len = n /\ stands' = b /\ cells' = [len |-> n, word |-> cells'.word]
        /\ cells'.word = [o \in BytesCells |-> cells'.word[o]]
        /\ \A o \in BytesCells : cells'.word[o] = IF o <= q + 1 THEN Pad(Sub(o)) ELSE ClearBytes.word[o]
    BY <1>2, <2>0, Zenon DEF SetBytes
  <2>4. ASSUME NEW o \in BytesCells, o <= q + 1
        PROVE  /\ cells'.word[o] = Pad(Sub(o)) /\ cells'.word[o] \in Words
               /\ Sub(o) \in Seq(Nat) /\ Len(Sub(o)) = (IF o <= q THEN w ELSE r)
               /\ \A k \in 1 .. Len(Sub(o)) : cells'.word[o][w - Len(Sub(o)) + k] = b[(o - 1) * w + k]
    <3>1. o \in 1 .. (Len(b) \div w) + 1
      BY <1>b, <2>0, <2>1, <2>4, SMTT(60)
    <3>2. /\ Sub(o) \in Seq(Nat) /\ Len(Sub(o)) = (IF o <= q THEN w ELSE r) /\ Len(Sub(o)) <= w
          /\ \A k \in 1 .. Len(Sub(o)) : Sub(o)[k] = b[(o - 1) * w + k]
      BY <2>0, <3>1, WordsOf, ZenonT(60)
    <3> HIDE DEF Sub
    <3>3. Pad(Sub(o)) \in Words /\ \A k \in 1 .. Len(Sub(o)) : Pad(Sub(o))[w - Len(Sub(o)) + k] = Sub(o)[k]
      BY <3>2, PadIs, SMTT(60)
    <3> QED
      BY <2>3, <2>4, <3>2, <3>3, ZenonT(60)
  <2>5. ASSUME NEW o \in BytesCells PROVE cells'.word[o] \in Words
    BY <1>c, <2>3, <2>4, <2>5, SMTT(60)
  <2>6. BytesInv'
    <3>1. cells'.word \in [BytesCells -> Words]
      BY <2>3, <2>5, Zenon
    <3>2. cells' \in [len : 0 .. max, word : [BytesCells -> Words]]
      BY <2>3, <3>1, ZenonT(60)
    <3> QED
      BY <2>0, <2>3, <3>2, Zenon DEF BytesInv
  <2>7. ASSUME NEW i \in 1 .. n, i <= q * w PROVE cells'.word[((i - 1) \div w) + 1][((i - 1) % w) + 1] = b[i]
    <3> DEFINE o == ((i - 1) \div w) + 1
               j == ((i - 1) % w) + 1
    <3>1. i - 1 \in Nat /\ o \in Nat /\ o >= 1 /\ o - 1 = (i - 1) \div w /\ j \in 1 .. w /\ i - 1 = w * (o - 1) + (j - 1)
      BY <1>0, <2>0, DivMod, SMTT(60)
    <3> HIDE DEF o, j, q, r, w, max, Sub
    <3>2. o <= q
      <4>1. ASSUME q <= o - 1 PROVE FALSE
        <5>1. q * w <= (o - 1) * w
          BY <1>0, <2>1, <3>1, <4>1, ProductMonotone, SMTT(60)
        <5> DEFINE x == q * w
                   y == w * (o - 1)
        <5>2. x \in Nat /\ y \in Nat /\ x <= y /\ i <= x /\ i - 1 = y + (j - 1)
          BY <1>0, <2>1, <2>7, <3>1, <5>1, SMTT(60)
        <5> HIDE DEF x, y
        <5> QED
          BY <2>0, <3>1, <5>2, SMTT(60)
      <4> QED
        BY <2>1, <3>1, <4>1, SMTT(60)
    <3>3. o \in BytesCells /\ o <= q + 1
      BY <1>b, <2>1, <2>2, <3>1, <3>2, SMTT(60)
    <3>4. Len(Sub(o)) = w /\ \A k \in 1 .. w : cells'.word[o][w - w + k] = b[(o - 1) * w + k]
      BY <2>4, <3>2, <3>3, SMTT(60)
    <3>5. cells'.word[o][w - w + j] = b[(o - 1) * w + j] /\ w - w + j = j /\ (o - 1) * w + j = i
      <4> DEFINE y == w * (o - 1)
      <4>1. (o - 1) * w = y /\ y \in Nat /\ i - 1 = y + (j - 1)
        BY <1>0, <3>1, SMTT(60)
      <4> HIDE DEF y
      <4>2. w - w + j = j /\ y + j = i
        BY <1>0, <2>0, <3>1, <4>1, SMTT(60)
      <4> QED
        BY <3>1, <3>4, <4>1, <4>2, Zenon
    <3> QED
      BY <3>5, SMTT(60) DEF o, j
  <2>8. ASSUME NEW i \in 1 .. n, ~(i <= q * w) PROVE cells'.word[q + 1][w - r + i - q * w] = b[i]
    <3> HIDE DEF q, r, w, max, Sub
    <3>1. q + 1 \in BytesCells /\ q + 1 <= q + 1 /\ ~(q + 1 <= q) /\ (q + 1) - 1 = q
      BY <1>b, <2>1, <2>2, SMTT(60)
    <3>2. Len(Sub(q + 1)) = r /\ \A k \in 1 .. r : cells'.word[q + 1][w - r + k] = b[q * w + k]
      BY <2>4, <3>1, SMTT(60)
    <3>3. i - q * w \in 1 .. r /\ w - r + (i - q * w) = w - r + i - q * w /\ q * w + (i - q * w) = i
      <4>1. q * w = w * q /\ q * w \in Nat
        BY <1>0, <2>1
      <4> QED
        BY <1>0, <2>0, <2>1, <2>8, <4>1, SMTT(60)
    <3> QED
      BY <3>2, <3>3, SMTT(60)
  <2>9. GetBytes' = b
    <3>1. GetBytes' = [i \in 1 .. n |-> IF i <= q * w THEN cells'.word[((i - 1) \div w) + 1][((i - 1) % w) + 1]
                                        ELSE cells'.word[q + 1][w - r + i - q * w]]
      BY <2>3, Zenon DEF GetBytes
    <3>2. b = [i \in 1 .. n |-> b[i]]
      BY SMTT(60)
    <3> QED
      BY <2>7, <2>8, <3>1, <3>2, ZenonT(60)
  <2>10. ASSUME NEW o \in BytesCells, (o - 1) * w >= n PROVE cells'.word[o] = ZeroWord
    <3> HIDE DEF q, r, w, max, Sub
    <3>0. o \in Nat /\ o >= 1
      BY <1>b, SMTT(60)
    <3>1. CASE o > q + 1
      BY <1>c, <2>1, <2>3, <3>0, <3>1, SMTT(60)
    <3>2. CASE o <= q + 1
      <4>1. o = q + 1
        <5>1. ASSUME o <= q PROVE FALSE
          <6>1. o * w <= q * w /\ o * w = (o - 1) * w + w
            BY <1>0, <2>1, <3>0, <5>1, ProductMonotone, SMTT(60)
          <6> DEFINE x == o * w
                     y == (o - 1) * w
                     z == q * w
          <6>2. x \in Int /\ y \in Int /\ z \in Int /\ x <= z /\ x = y + w /\ n = z + r /\ y >= n
            BY <1>0, <2>1, <2>10, <3>0, <6>1, SMTT(60)
          <6> HIDE DEF x, y, z
          <6> QED
            BY <1>0, <2>0, <2>1, <6>2, SMTT(60)
        <5> QED
          BY <2>1, <3>0, <3>2, <5>1, SMTT(60)
      <4>2. r = 0
        BY <1>0, <2>0, <2>1, <2>10, <4>1, SMTT(60)
      <4>3. Len(Sub(o)) = 0 /\ Sub(o) \in Seq(Nat) /\ cells'.word[o] = Pad(Sub(o))
        BY <2>1, <2>4, <3>2, <4>1, <4>2, SMTT(60)
      <4>4. Sub(o) = <<>>
        BY <4>3
      <4> QED
        BY <4>3, <4>4, SMTT(60) DEF ZeroWord
    <3> QED
      BY <2>1, <3>0, <3>1, <3>2, SMTT(60)
  <2>11. BytesExact'
    BY <2>0, <2>3, <2>9, <2>10, ZenonT(60) DEF BytesExact
  <2> QED
    BY <2>6, <2>11, SMTT(60)
<1> QED
  BY <1>1, <1>2, Zenon DEF BytesNext

\* The structures are empty at first.
LEMMA SkInitInv == SkInit => SkInv
<1> SUFFICES ASSUME SkInit PROVE SkInv
  OBVIOUS
<1>1. CASE sk = "queue" /\ QueueInit
  <2>1. QueueInv /\ QueueRight
    BY <1>1, SkAssumption, SMTT(60) DEF QueueInit, QueueInv, QueueRight, Zero
  <2>2. QueueFifo
    BY <1>1, <2>1, QueueFifoIs
  <2> QED
    BY <1>1, <2>1, <2>2, SMTT(60) DEF SkInv, StorageSound, BytesExact, NumberStored, FormsStable, RecordedHashKept
<1>2. CASE sk = "bytes" /\ BytesInit
  <2>1. ZeroWord \in [1 .. SkWord -> Nat]
    BY ZeroWordType, SMTT(60)
  <2>2. BytesInv
    BY <1>2, <2>1, SkAssumption, SMTT(60) DEF BytesInit, BytesInv
  <2>3. GetBytes = <<>>
    BY <1>2, SMTT(60) DEF BytesInit, GetBytes
  <2>4. BytesExact
    BY <1>2, <2>3, SMTT(60) DEF BytesInit, BytesExact
  <2> QED
    BY <1>2, <2>2, <2>4, SMTT(60) DEF SkInv, StorageSound, QueueFifo, NumberStored, FormsStable, RecordedHashKept
<1>3. CASE sk = "number" /\ NumberInit
  <2>0. SkHalf \in Nat \ {0} /\ SkRange = 2 * SkHalf /\ 0 \in 0 .. SkRange - 1
    BY SkAssumption, SMTT(60) DEF SkRange
  <2>1. NumberInv
    BY <1>3, <2>0, SMTT(60) DEF NumberInit, NumberInv
  <2>2. cells.raw = 0 /\ cells.failed = FALSE /\ stands.val = 0 /\ stands.how = "checked" /\ stands.signed = FALSE
    BY <1>3 DEF NumberInit
  <2>3. NumberStored
    BY <2>0, <2>2, Zenon DEF NumberStored
  <2> QED
    BY <1>3, <2>1, <2>3, SMTT(60) DEF SkInv, StorageSound, QueueFifo, BytesExact, FormsStable, RecordedHashKept
<1>4. CASE sk = "table" /\ TableInit
  <2>1. TableInv /\ FormsStable
    BY <1>4 DEF TableInit, TableInv, FormsStable
  <2> QED
    BY <1>4, <2>1, SMTT(60) DEF SkInv, StorageSound, QueueFifo, BytesExact, NumberStored, RecordedHashKept
<1>5. CASE sk = "hashes" /\ HashesInit
  <2>1. HashesInv /\ RecordedHashKept
    BY <1>5 DEF HashesInit, HashesInv, RecordedHashKept
  <2> QED
    BY <1>5, <2>1, SMTT(60) DEF SkInv, StorageSound, QueueFifo, BytesExact, NumberStored, FormsStable
<1> QED
  BY <1>1, <1>2, <1>3, <1>4, <1>5, SMTT(60) DEF SkInit

\* Every operation keeps the structure in use.
LEMMA SkStepInv == SkInv /\ [SkNext]_skVars => SkInv'
<1> SUFFICES ASSUME SkInv, [SkNext]_skVars PROVE SkInv'
  BY SMTT(60)
<1>0. UNCHANGED sk /\ sk \in {"queue", "bytes", "number", "table", "hashes"}
  BY DEF SkNext, skVars, SkInv
<1>1. CASE sk = "queue" /\ QueueNext
  <2>1. QueueInv /\ QueueRight
    BY <1>1, QueueFifoIs DEF SkInv, StorageSound
  <2>2. QueueInv' /\ QueueRight'
    BY <1>1, <2>1, QueueStep
  <2>3. (QueueInv /\ sk = "queue" => (QueueFifo <=> QueueRight))'
    BY QueueFifoIs, PTL
  <2>4. QueueFifo'
    BY <1>0, <1>1, <2>2, <2>3, SMTT(60)
  <2> QED
    BY <1>0, <1>1, <2>2, <2>4, SMTT(60) DEF SkInv, StorageSound, BytesExact, NumberStored, FormsStable, RecordedHashKept
<1>2. CASE sk = "bytes" /\ BytesNext
  <2>1. BytesInv' /\ BytesExact'
    BY <1>0, <1>2, BytesStep, SMTT(60) DEF SkInv, StorageSound
  <2> QED
    BY <1>0, <1>2, <2>1, SMTT(60) DEF SkInv, StorageSound, QueueFifo, NumberStored, FormsStable, RecordedHashKept
<1>3. CASE sk = "number" /\ NumberNext
  <2>1. NumberInv' /\ NumberStored'
    BY <1>0, <1>3, NumberStep, SMTT(60) DEF SkInv, StorageSound
  <2> QED
    BY <1>0, <1>3, <2>1, SMTT(60) DEF SkInv, StorageSound, QueueFifo, BytesExact, FormsStable, RecordedHashKept
<1>4. CASE sk = "table" /\ TableNext
  <2>1. TableInv' /\ FormsStable'
    BY <1>0, <1>4, TableStep, SMTT(60) DEF SkInv, StorageSound
  <2> QED
    BY <1>0, <1>4, <2>1, SMTT(60) DEF SkInv, StorageSound, QueueFifo, BytesExact, NumberStored, RecordedHashKept
<1>5. CASE sk = "hashes" /\ HashesNext
  <2>1. HashesInv' /\ RecordedHashKept'
    BY <1>0, <1>5, HashesStep, SMTT(60) DEF SkInv, StorageSound
  <2> QED
    BY <1>0, <1>5, <2>1, SMTT(60) DEF SkInv, StorageSound, QueueFifo, BytesExact, NumberStored, FormsStable
<1>6. CASE UNCHANGED skVars
  BY <1>6, ZenonT(60) DEF skVars, SkInv, StorageSound, QueueFifo, ForEach, Peek, QueueEmpty, BytesExact, GetBytes, NumberStored, GetSigned,
     FormsStable, Decompress, LookupIndex, RecordedHashKept, BlockHashValid, BlockHash, QueueInv, BytesInv, NumberInv, TableInv, HashesInv
<1> QED
  BY <1>1, <1>2, <1>3, <1>4, <1>5, <1>6, SMTT(60) DEF SkNext

\* The structures over the storage of ArbOS give back what was put into them, for every word
\* size, width of numbers, table and ring, and after any number of operations
\* (Queue, Storage.SetBytes, StorageBackedBigInt, AddressTable, Blockhashes).
THEOREM StorageIsSound == SkSpec => []StorageSound
<1>1. SkInv => StorageSound
  BY DEF SkInv
<1> QED
  BY <1>1, SkInitInv, SkStepInv, PTL DEF SkSpec
=============================================================================
