----------------------------- MODULE FeedProofs -----------------------------
(***************************************************************************)
(* Proofs about the two ends of a feed (FeedConnections).  Each section    *)
(* has an inductive invariant, the proof that every step keeps it, and the *)
(* theorem that follows.                                                   *)
(***************************************************************************)
EXTENDS FeedConnections, FiniteSetTheorems, TLAPS

-----------------------------------------------------------------------------
(* The server of a feed.                                                   *)

\* The counts are exact, so that the check in Register is one of the clients that are there.
FsInv ==
  /\ conn \in [FsConns -> {"none", "upgrading", "allowed", "starting", "in", "cooling", "closed"}]
  /\ ipConnectionCounts \in [FsKeys -> Nat]
  /\ LimitHeld /\ CountsExact

\* A connection that is not counted before and after a step changes no count.
LEMMA FsNotCounted ==
  ASSUME FsInv, NEW c \in FsConns, conn[c] \notin {"in", "cooling"},
         NEW to \in {"none", "upgrading", "allowed", "starting", "closed"},
         conn' = [conn EXCEPT ![c] = to], UNCHANGED ipConnectionCounts
  PROVE  FsInv'
<1>1. \A k \in FsKeys : Counted(k)' = Counted(k)
  BY Zenon DEF FsInv, Counted
<1> QED
  BY <1>1, Zenon DEF FsInv, LimitHeld, CountsExact

\* A connection that is counted is counted once for each of its keys (updateUsage).
LEMMA FsAdded ==
  ASSUME FsInv, NEW c \in FsConns, conn[c] \notin {"in", "cooling"}, IsAllowed(ipConnectionCounts, c),
         conn' = [conn EXCEPT ![c] = "in"], ipConnectionCounts' = UpdateUsage(ipConnectionCounts, c, 1)
  PROVE  FsInv'
<1>1. ASSUME NEW k \in FsKeys
      PROVE  /\ ipConnectionCounts'[k] \in Nat /\ ipConnectionCounts'[k] = Cardinality(Counted(k)')
             /\ Cardinality(Counted(k)') <= FsLimit[k]
  <2>1. IsFiniteSet(Counted(k)) /\ Cardinality(Counted(k)) \in Nat
    BY FsAssumption, FS_Subset, FS_CardinalityType, Zenon DEF Counted
  <2>2. ipConnectionCounts[k] = Cardinality(Counted(k)) /\ Cardinality(Counted(k)) <= FsLimit[k] /\ FsLimit[k] \in Nat
    BY FsAssumption, Zenon DEF FsInv, CountsExact, LimitHeld
  <2>3. CASE k \in FsKeysOf[c]
    <3>1. Counted(k)' = Counted(k) \cup {c} /\ c \notin Counted(k)
      BY <2>3, Zenon DEF FsInv, Counted
    <3>2. Cardinality(Counted(k)') = Cardinality(Counted(k)) + 1
      BY <2>1, <3>1, FS_AddElement, Zenon
    <3>3. ipConnectionCounts[k] < FsLimit[k]
      BY <2>3, Zenon DEF IsAllowed
    <3>4. ipConnectionCounts'[k] = ipConnectionCounts[k] + 1
      BY <2>1, <2>2, <2>3, <3>3 DEF UpdateUsage
    <3> QED
      BY <2>1, <2>2, <3>2, <3>3, <3>4
  <2>4. CASE k \notin FsKeysOf[c]
    <3>1. Counted(k)' = Counted(k)
      BY <2>4, Zenon DEF FsInv, Counted
    <3>2. ipConnectionCounts'[k] = ipConnectionCounts[k]
      BY <2>4, Zenon DEF UpdateUsage
    <3> QED
      BY <2>1, <2>2, <3>1, <3>2, Zenon
  <2> QED
    BY <2>3, <2>4, Zenon
<1>2. ipConnectionCounts' \in [FsKeys -> Nat]
  BY <1>1, Zenon DEF UpdateUsage
<1> QED
  BY <1>1, <1>2, Zenon DEF FsInv, LimitHeld, CountsExact

\* A connection that is no longer counted is taken away once for each of its keys (Release).
LEMMA FsRemoved ==
  ASSUME FsInv, NEW c \in FsConns, conn[c] \in {"in", "cooling"},
         conn' = [conn EXCEPT ![c] = "closed"], ipConnectionCounts' = UpdateUsage(ipConnectionCounts, c, -1)
  PROVE  FsInv'
<1>1. ASSUME NEW k \in FsKeys
      PROVE  /\ ipConnectionCounts'[k] \in Nat /\ ipConnectionCounts'[k] = Cardinality(Counted(k)')
             /\ Cardinality(Counted(k)') <= FsLimit[k]
  <2>1. IsFiniteSet(Counted(k)) /\ Cardinality(Counted(k)) \in Nat
    BY FsAssumption, FS_Subset, FS_CardinalityType, Zenon DEF Counted
  <2>2. ipConnectionCounts[k] = Cardinality(Counted(k)) /\ Cardinality(Counted(k)) <= FsLimit[k] /\ FsLimit[k] \in Nat
    BY FsAssumption, Zenon DEF FsInv, CountsExact, LimitHeld
  <2>3. CASE k \in FsKeysOf[c]
    <3>1. Counted(k)' = Counted(k) \ {c} /\ c \in Counted(k)
      BY <2>3, Zenon DEF FsInv, Counted
    <3>2. IsFiniteSet(Counted(k)') /\ Cardinality(Counted(k)') = Cardinality(Counted(k)) - 1
      BY <2>1, <3>1, FS_RemoveElement
    <3>3. Cardinality(Counted(k)') \in Nat
      BY <3>2, FS_CardinalityType, Zenon
    <3>4. ipConnectionCounts'[k] = ipConnectionCounts[k] - 1
      BY <2>1, <2>2, <2>3, <3>2, <3>3, SMTT(60) DEF UpdateUsage
    <3> QED
      BY <2>1, <2>2, <3>2, <3>3, <3>4, SMTT(60)
  <2>4. CASE k \notin FsKeysOf[c]
    <3>1. Counted(k)' = Counted(k)
      BY <2>4, Zenon DEF FsInv, Counted
    <3>2. ipConnectionCounts'[k] = ipConnectionCounts[k]
      BY <2>4, Zenon DEF UpdateUsage
    <3> QED
      BY <2>1, <2>2, <3>1, <3>2, Zenon
  <2> QED
    BY <2>3, <2>4, Zenon
<1>2. ipConnectionCounts' \in [FsKeys -> Nat]
  BY <1>1, Zenon DEF UpdateUsage
<1> QED
  BY <1>1, <1>2, Zenon DEF FsInv, LimitHeld, CountsExact

\* Every step of the server keeps the invariant.
LEMMA FsStep == FsInv /\ [FsNext]_fsvars => FsInv'
<1> SUFFICES ASSUME FsInv, [FsNext]_fsvars PROVE FsInv'
  OBVIOUS
<1>1. ASSUME UNCHANGED <<conn, ipConnectionCounts>> PROVE FsInv'
  BY <1>1, Zenon DEF FsInv, LimitHeld, CountsExact, Counted
<1>2. CASE AcceptConnection
  BY <1>1, <1>2, FsNotCounted, Zenon DEF AcceptConnection
<1>3. CASE ResumeAccept \/ AcceptFires \/ StopListener \/ UNCHANGED fsvars
  BY <1>1, <1>3, Zenon DEF ResumeAccept, AcceptFires, StopListener, fsvars
<1>4. ASSUME NEW c \in FsConns, AskRemove(c) PROVE FsInv'
  BY <1>1, <1>4, Zenon DEF AskRemove
<1>5. ASSUME NEW c \in FsConns, CheckUpgrade(c) PROVE FsInv'
  BY <1>5, FsNotCounted, Zenon DEF CheckUpgrade
<1>6. ASSUME NEW c \in FsConns, FinishUpgrade(c) PROVE FsInv'
  BY <1>6, FsNotCounted, Zenon DEF FinishUpgrade
<1>7. ASSUME NEW c \in FsConns, RegisterClient(c) PROVE FsInv'
  BY <1>7, FsNotCounted, FsAdded, Zenon DEF RegisterClient, Register
<1>8. ASSUME NEW c \in FsConns, RemoveClient(c) PROVE FsInv'
  <2>1. CASE conn' = [conn EXCEPT ![c] = "cooling"] /\ conn[c] = "in" /\ UNCHANGED ipConnectionCounts
    <3>1. \A k \in FsKeys : Counted(k)' = Counted(k)
      BY <2>1, Zenon DEF FsInv, Counted
    <3> QED
      BY <2>1, <3>1, Zenon DEF FsInv, LimitHeld, CountsExact
  <2> QED
    BY <1>1, <1>8, <2>1, FsRemoved, Zenon DEF RemoveClient, IsRegistered
<1>9. ASSUME NEW c \in FsConns, CooledDown(c) PROVE FsInv'
  BY <1>9, FsRemoved, Zenon DEF CooledDown
<1> QED
  BY <1>2, <1>3, <1>4, <1>5, <1>6, <1>7, <1>8, <1>9, Zenon DEF FsNext, FsSteps

\* However many connections are upgraded, registered and removed at once, no address or network
\* has more clients than its limit, and the counts are those of the clients that are there or
\* cool down (Register, Release).
THEOREM ConnectionsAreCounted == FsSpec => []ConnectionsCounted
<1>1. FsInit => FsInv
  <2> SUFFICES ASSUME FsInit PROVE FsInv
    OBVIOUS
  <2>1. \A k \in FsKeys : Counted(k) = {}
    BY Zenon DEF FsInit, Counted
  <2>2. \A k \in FsKeys : Cardinality(Counted(k)) = 0
    BY <2>1, FS_EmptySet, Zenon
  <2> QED
    BY <2>2, FsAssumption DEF FsInit, FsInv, LimitHeld, CountsExact
<1>2. FsInv => ConnectionsCounted
  BY Zenon DEF FsInv, ConnectionsCounted
<1> QED
  BY <1>1, <1>2, FsStep, PTL DEF FsSpec
-----------------------------------------------------------------------------
(* The clients of a feed and the router.                                   *)

RtClients == [pc : {"off", "dial", "read", "hand", "backoff", "fatal"}, next : Nat, at : Nat,
              hold : Seq(Nat), unread : SUBSET Nat, counted : BOOLEAN]
RtRouters == [pc : {"run", "stopping"}, inner : BOOLEAN, new : SUBSET Nat, old : SUBSET Nat,
              rotations : Nat, forwarded : Seq(Nat \X Nat), failed : SUBSET Nat, connected : Int,
              fatal : BOOLEAN]

RtType ==
  /\ made \in Nat /\ cl \in [Feeds -> RtClients] /\ chan \in [Feeds -> Seq(Nat)]
  /\ rt \in RtRouters /\ out \in Seq(Nat \X Nat) /\ rtq \in [RtKeys -> Int]

\* What was passed on, f, and is about to be, o: an entry is a message and the number of
\* rotations before it.
Apart(f, o) ==
  /\ \A i, j \in 1 .. Len(f) : i < j /\ f[i][1] = f[j][1] => f[j][2] - f[i][2] >= 2
  /\ \A i, j \in 1 .. Len(o) : i < j /\ o[i][1] = o[j][1] => o[j][2] - o[i][2] >= 2
  /\ \A i \in 1 .. Len(f), j \in 1 .. Len(o) : f[i][1] = o[j][1] => o[j][2] - f[i][2] >= 2

\* The router remembers what it passed on since the last rotation but one.
Recalled(s, r) ==
  \A i \in 1 .. Len(s) :
    /\ s[i][2] <= r.rotations
    /\ s[i][2] = r.rotations => s[i][1] \in r.new
    /\ s[i][2] = r.rotations - 1 => s[i][1] \in r.old

\* The messages of a sequence of entries.
MessagesOf(s) == {s[i][1] : i \in 1 .. Len(s)}

\* What the router was given of the primary feed, or will be.
Arrived(f, o, failed, q, hold) == MessagesOf(f) \cup MessagesOf(o) \cup failed \cup Range(q) \cup Range(hold)

\* The primary client got everything before the next message it asks for, and before the
\* place in the stream that it reads from, except what it could not read.
Behind(c, m) == m \notin c.unread /\ (m < c.next \/ (c.pc \in {"read", "hand"} /\ m < c.at))

AsOne(c) == IF c.counted THEN 1 ELSE 0

\* What was passed on and what is remembered.
RtMemory ==
  /\ Apart(rt.forwarded, out) /\ Recalled(rt.forwarded, rt) /\ Recalled(out, rt)
  /\ rt.new \cup rt.old \subseteq MessagesOf(rt.forwarded) \cup MessagesOf(out) \cup rt.failed

\* What the primary client has got.
RtStream ==
  /\ \A m \in Nat : Behind(cl[P], m) => m \in Arrived(rt.forwarded, out, rt.failed, chan[P], cl[P].hold)
  /\ cl[P].pc # "hand" => cl[P].hold = <<>>

RtCount == rt.connected >= AsOne(cl[P]) + AsOne(cl[S])

\* The inductive invariant of the clients and the router.
RtInv == RtType /\ (rtq["relay"] = 0 => out = <<>>) /\ RtMemory /\ RtStream /\ RtCount

\* The fields of the router's record.
LEMMA RouterRecords ==
  ASSUME NEW r \in RtRouters
  PROVE  /\ r.pc \in {"run", "stopping"} /\ r.inner \in BOOLEAN /\ r.new \in SUBSET Nat /\ r.old \in SUBSET Nat
         /\ r.rotations \in Nat /\ r.forwarded \in Seq(Nat \X Nat) /\ r.failed \in SUBSET Nat
         /\ r.connected \in Int /\ r.fatal \in BOOLEAN
         /\ \A b \in BOOLEAN : [r EXCEPT !.inner = b] \in RtRouters /\ [r EXCEPT !.fatal = b] \in RtRouters
         /\ \A n \in Int : [r EXCEPT !.connected = n] \in RtRouters
         /\ \A pc \in {"run", "stopping"} : [r EXCEPT !.pc = pc] \in RtRouters
BY ZenonT(60) DEF RtRouters

\* Sequences that get longer at the end and shorter at the front.
LEMMA Appended ==
  ASSUME NEW T, NEW s \in Seq(T), NEW e \in T
  PROVE  /\ Append(s, e) \in Seq(T) /\ Len(s) \in Nat /\ Len(Append(s, e)) = Len(s) + 1
         /\ Append(s, e)[Len(s) + 1] = e /\ \A i \in 1 .. Len(s) : Append(s, e)[i] = s[i]
OBVIOUS

\* The tail of a list that is not empty.
LEMMA Shortened ==
  ASSUME NEW T, NEW s \in Seq(T), s # <<>>
  PROVE  /\ Tail(s) \in Seq(T) /\ Len(s) \in Nat \ {0} /\ Len(Tail(s)) = Len(s) - 1
         /\ Head(s) = s[1] /\ Head(s) \in T /\ \A i \in 1 .. Len(s) - 1 : Tail(s)[i] = s[i + 1]
OBVIOUS

\* What is in them.
LEMMA RangeGrows ==
  ASSUME NEW s \in Seq(Nat), NEW e \in Nat
  PROVE  Range(s) \cup {e} \subseteq Range(Append(s, e))
<1>1. DOMAIN s = 1 .. Len(s) /\ DOMAIN Append(s, e) = 1 .. Len(Append(s, e)) /\ Len(s) \in Nat
  BY Appended
<1>2. \A i \in 1 .. Len(s) : i \in 1 .. Len(Append(s, e)) /\ Append(s, e)[i] = s[i]
  BY <1>1, Appended
<1>3. Len(s) + 1 \in 1 .. Len(Append(s, e)) /\ Append(s, e)[Len(s) + 1] = e
  BY <1>1, Appended
<1> QED
  BY <1>1, <1>2, <1>3, Zenon DEF Range

\* Every member of a list is its first or one of its tail.
LEMMA RangeShrinks ==
  ASSUME NEW s \in Seq(Nat), s # <<>>
  PROVE  Range(s) \subseteq {Head(s)} \cup Range(Tail(s))
<1>1. DOMAIN s = 1 .. Len(s) /\ DOMAIN Tail(s) = 1 .. Len(Tail(s))
  BY Shortened
<1>2. \A i \in 1 .. Len(s) : i = 1 \/ (i - 1 \in 1 .. Len(Tail(s)) /\ Tail(s)[i - 1] = s[i])
  BY Shortened
<1>3. \A i \in 1 .. Len(s) : s[i] = Head(s) \/ s[i] \in Range(Tail(s))
  BY <1>1, <1>2, Shortened, Zenon DEF Range
<1> QED
  BY <1>1, <1>3, Zenon DEF Range

\* One more message waits.
LEMMA MessagesGrow ==
  ASSUME NEW s \in Seq(Nat \X Nat), NEW e \in Nat \X Nat
  PROVE  MessagesOf(s) \cup {e[1]} \subseteq MessagesOf(Append(s, e))
<1>1. \A i \in 1 .. Len(s) : i \in 1 .. Len(Append(s, e)) /\ Append(s, e)[i] = s[i]
  BY Appended
<1>2. Len(s) + 1 \in 1 .. Len(Append(s, e)) /\ Append(s, e)[Len(s) + 1] = e
  BY Appended
<1> QED
  BY <1>1, <1>2, ZenonT(60) DEF MessagesOf

\* The first message that waits is taken.
LEMMA MessagesShrink ==
  ASSUME NEW s \in Seq(Nat \X Nat), s # <<>>
  PROVE  MessagesOf(s) \subseteq {Head(s)[1]} \cup MessagesOf(Tail(s))
<1>1. \A i \in 1 .. Len(s) : i = 1 \/ (i - 1 \in 1 .. Len(Tail(s)) /\ Tail(s)[i - 1] = s[i])
  BY Shortened
<1>2. \A i \in 1 .. Len(s) : s[i][1] = Head(s)[1] \/ s[i][1] \in MessagesOf(Tail(s))
  BY <1>1, Shortened, ZenonT(60) DEF MessagesOf
<1> QED
  BY <1>2, Zenon DEF MessagesOf

\* The places in a sequence that got one longer.
LEMMA Places ==
  ASSUME NEW n \in Nat
  PROVE  /\ \A i \in 1 .. n + 1 : i \in 1 .. n \/ i = n + 1
         /\ \A i, j \in 1 .. n + 1 : i < j => i \in 1 .. n /\ (j \in 1 .. n \/ j = n + 1)
OBVIOUS

\* The relay broadcasts the head of its queue.
LEMMA RelayKeepsApart ==
  ASSUME NEW f \in Seq(Nat \X Nat), NEW o \in Seq(Nat \X Nat), o # <<>>, Apart(f, o)
  PROVE  Apart(Append(f, Head(o)), Tail(o))
<1> DEFINE g == Append(f, Head(o))  q == Tail(o)
<1>1. /\ Len(f) \in Nat /\ Len(g) = Len(f) + 1 /\ g[Len(f) + 1] = o[1]
      /\ \A i \in 1 .. Len(f) : g[i] = f[i]
  BY Appended, Shortened
<1>2. Len(o) \in Nat \ {0} /\ Len(q) = Len(o) - 1 /\ \A i \in 1 .. Len(o) - 1 : q[i] = o[i + 1]
  BY Shortened
<1>0. Len(f) \in Nat /\ Len(g) = Len(f) + 1 /\ Len(o) \in Nat \ {0} /\ Len(q) = Len(o) - 1
  BY <1>1, <1>2, Zenon
<1> HIDE DEF g, q
<1>a. \A i, j \in 1 .. Len(g) : i < j => i \in 1 .. Len(f) /\ (j \in 1 .. Len(f) \/ j = Len(f) + 1)
  BY <1>0, Places, Zenon
<1>b. 1 \in 1 .. Len(o) /\ \A j \in 1 .. Len(q) :
        j \in 1 .. Len(o) - 1 /\ j + 1 \in 1 .. Len(o) /\ 1 < j + 1 /\ \A i \in 1 .. j : i < j => i + 1 < j + 1
  BY SMTT(60), <1>0
<1>c. \A i \in 1 .. Len(g) : i \in 1 .. Len(f) \/ i = Len(f) + 1
  BY <1>0, Places, Zenon
<1>3. \A i, j \in 1 .. Len(g) : i < j /\ g[i][1] = g[j][1] => g[j][2] - g[i][2] >= 2
  <2> SUFFICES ASSUME NEW i \in 1 .. Len(g), NEW j \in 1 .. Len(g), i < j, g[i][1] = g[j][1]
               PROVE  g[j][2] - g[i][2] >= 2
    BY Zenon
  <2>1. i \in 1 .. Len(f) /\ (j \in 1 .. Len(f) \/ j = Len(f) + 1) /\ 1 \in 1 .. Len(o)
    BY <1>a, <1>b, Zenon
  <2>2. g[i] = f[i] /\ (j \in 1 .. Len(f) => g[j] = f[j]) /\ (j = Len(f) + 1 => g[j] = o[1])
    BY <1>1, <2>1, Zenon
  <2>3. CASE j \in 1 .. Len(f)
    BY <2>1, <2>2, <2>3, Zenon DEF Apart
  <2>4. CASE j = Len(f) + 1
    BY <2>1, <2>2, <2>4, Zenon DEF Apart
  <2> QED
    BY <2>1, <2>3, <2>4, Zenon
<1>4. \A i, j \in 1 .. Len(q) : i < j /\ q[i][1] = q[j][1] => q[j][2] - q[i][2] >= 2
  <2> SUFFICES ASSUME NEW i \in 1 .. Len(q), NEW j \in 1 .. Len(q), i < j, q[i][1] = q[j][1]
               PROVE  q[j][2] - q[i][2] >= 2
    BY Zenon
  <2>1. /\ i + 1 \in 1 .. Len(o) /\ j + 1 \in 1 .. Len(o) /\ i + 1 < j + 1
        /\ i \in 1 .. Len(o) - 1 /\ j \in 1 .. Len(o) - 1
    BY <1>0
  <2> QED
    BY <1>2, <2>1, ZenonT(60) DEF Apart
<1>5. \A i \in 1 .. Len(g), j \in 1 .. Len(q) : g[i][1] = q[j][1] => q[j][2] - g[i][2] >= 2
  <2> SUFFICES ASSUME NEW i \in 1 .. Len(g), NEW j \in 1 .. Len(q), g[i][1] = q[j][1]
               PROVE  q[j][2] - g[i][2] >= 2
    BY Zenon
  <2>1. /\ i \in 1 .. Len(f) \/ i = Len(f) + 1
        /\ j \in 1 .. Len(o) - 1 /\ j + 1 \in 1 .. Len(o) /\ 1 \in 1 .. Len(o) /\ 1 < j + 1
    BY <1>b, <1>c, Zenon
  <2>2. q[j] = o[j + 1] /\ (i \in 1 .. Len(f) => g[i] = f[i]) /\ (i = Len(f) + 1 => g[i] = o[1])
    BY <1>1, <1>2, <2>1, Zenon
  <2>3. CASE i \in 1 .. Len(f)
    BY <2>1, <2>2, <2>3, Zenon DEF Apart
  <2>4. CASE i = Len(f) + 1
    BY <2>1, <2>2, <2>4, ZenonT(60) DEF Apart
  <2> QED
    BY <2>1, <2>3, <2>4, Zenon
<1> QED
  BY <1>3, <1>4, <1>5, Zenon DEF Apart, g, q

\* A message that is not remembered was passed on two rotations ago, if it was.
LEMMA NotRecalled ==
  ASSUME NEW s \in Seq(Nat \X Nat), NEW r \in RtRouters, Recalled(s, r), NEW m \in Nat,
         m \notin r.new \cup r.old, NEW i \in 1 .. Len(s), s[i][1] = m
  PROVE  r.rotations - s[i][2] >= 2
<1> DEFINE n == s[i][2]  k == r.rotations
<1>1. k \in Nat
  BY RouterRecords, Zenon
<1>2. n \in Nat
  BY SMTT(60)
<1>3. n <= k /\ n # k /\ n # k - 1
  BY Zenon DEF Recalled
<1> HIDE DEF n, k
<1>4. k - n >= 2
  BY SMTT(60), <1>1, <1>2, <1>3
<1> QED
  BY <1>4, Zenon DEF n, k

\* It may be passed on, at once or through the relay's queue.
LEMMA PassingKeepsApart ==
  ASSUME NEW f \in Seq(Nat \X Nat), NEW o \in Seq(Nat \X Nat), NEW r \in RtRouters, NEW m \in Nat,
         Apart(f, o), Recalled(f, r), Recalled(o, r), m \notin r.new \cup r.old
  PROVE  /\ Apart(f, Append(o, <<m, r.rotations>>))
         /\ o = <<>> => Apart(Append(f, <<m, r.rotations>>), o)
<1> DEFINE e == <<m, r.rotations>>
<1>0. e \in Nat \X Nat
  BY DEF RtRouters
<1>1. e \in Nat \X Nat /\ e[1] = m /\ e[2] = r.rotations
  BY DEF RtRouters
<1>2. \A i \in 1 .. Len(f) : f[i][1] = e[1] => e[2] - f[i][2] >= 2
  BY <1>1, NotRecalled, Zenon
<1>3. \A i \in 1 .. Len(o) : o[i][1] = e[1] => e[2] - o[i][2] >= 2
  BY <1>1, NotRecalled, Zenon
<1> HIDE DEF e
<1>4. ASSUME NEW s \in Seq(Nat \X Nat), \A i \in 1 .. Len(s) : s[i][1] = e[1] => e[2] - s[i][2] >= 2,
             \A i, j \in 1 .. Len(s) : i < j /\ s[i][1] = s[j][1] => s[j][2] - s[i][2] >= 2
      PROVE  \A i, j \in 1 .. Len(Append(s, e)) :
               i < j /\ Append(s, e)[i][1] = Append(s, e)[j][1] => Append(s, e)[j][2] - Append(s, e)[i][2] >= 2
  <2> DEFINE t == Append(s, e)
  <2>1. Len(s) \in Nat /\ Len(t) = Len(s) + 1 /\ t[Len(s) + 1] = e /\ \A i \in 1 .. Len(s) : t[i] = s[i]
    BY <1>0, Appended
  <2> HIDE DEF t
  <2> SUFFICES ASSUME NEW i \in 1 .. Len(t), NEW j \in 1 .. Len(t), i < j, t[i][1] = t[j][1]
               PROVE  t[j][2] - t[i][2] >= 2
    BY Zenon DEF t
  <2>2. i \in 1 .. Len(s) /\ (j \in 1 .. Len(s) \/ j = Len(s) + 1)
    BY <2>1, Places, Zenon
  <2>3. t[i] = s[i] /\ (j \in 1 .. Len(s) => t[j] = s[j]) /\ (j = Len(s) + 1 => t[j] = e)
    BY <2>1, <2>2, Zenon
  <2> QED
    BY <1>4, <2>2, <2>3, Zenon
<1>5. \A i \in 1 .. Len(f), j \in 1 .. Len(Append(o, e)) :
        f[i][1] = Append(o, e)[j][1] => Append(o, e)[j][2] - f[i][2] >= 2
  <2> DEFINE t == Append(o, e)
  <2>1. Len(o) \in Nat /\ Len(t) = Len(o) + 1 /\ t[Len(o) + 1] = e /\ \A i \in 1 .. Len(o) : t[i] = o[i]
    BY <1>0, Appended, SMTT(60)
  <2> HIDE DEF t
  <2> SUFFICES ASSUME NEW i \in 1 .. Len(f), NEW j \in 1 .. Len(t), f[i][1] = t[j][1]
               PROVE  t[j][2] - f[i][2] >= 2
    BY Zenon DEF t
  <2>2. j \in 1 .. Len(o) \/ j = Len(o) + 1
    BY <2>1, Places, Zenon
  <2>3. CASE j \in 1 .. Len(o)
    <3>1. t[j] = o[j]
      BY <2>1, <2>3, Zenon
    <3> QED
      BY <3>1, <2>3, Zenon DEF Apart
  <2>4. CASE j = Len(o) + 1
    <3>1. t[j] = e
      BY <2>1, <2>4, Zenon
    <3> QED
      BY <3>1, <1>2, Zenon
  <2> QED
    BY <2>2, <2>3, <2>4, Zenon
<1>6. Apart(f, Append(o, e))
  BY <1>3, <1>4, <1>5, ZenonT(60) DEF Apart
<1>7. ASSUME o = <<>>
      PROVE  Apart(Append(f, e), o)
  <2>1. \A i, j \in 1 .. Len(Append(f, e)) :
          i < j /\ Append(f, e)[i][1] = Append(f, e)[j][1] => Append(f, e)[j][2] - Append(f, e)[i][2] >= 2
    BY <1>2, <1>4, Zenon DEF Apart
  <2>2. 1 .. Len(o) = {}
    BY <1>7
  <2> QED
    BY <2>1, <2>2, Zenon DEF Apart
<1> QED
  BY <1>6, <1>7, Zenon DEF e

\* It is remembered then, with the others.
LEMMA PassingIsRecalled ==
  ASSUME NEW s \in Seq(Nat \X Nat), NEW r, NEW t, Recalled(s, r), NEW m \in Nat, r.rotations \in Nat,
         t.rotations = r.rotations, t.new = r.new \cup {m}, t.old = r.old
  PROVE  Recalled(s, t) /\ Recalled(Append(s, <<m, r.rotations>>), t)
<1> DEFINE e == <<m, r.rotations>>  a == Append(s, e)
<1>0. e \in Nat \X Nat
  OBVIOUS
<1>1. e[1] = m /\ e[2] = r.rotations
  OBVIOUS
<1>2. Recalled(s, t)
  BY Zenon DEF Recalled
<1>3. r.rotations <= r.rotations /\ r.rotations # r.rotations - 1
  OBVIOUS
<1> HIDE DEF e
<1>4. Len(s) \in Nat /\ Len(a) = Len(s) + 1 /\ a[Len(s) + 1] = e /\ \A i \in 1 .. Len(s) : a[i] = s[i]
  BY <1>0, Appended
<1> HIDE DEF a
<1>5. \A i \in 1 .. Len(a) : a[i] = e \/ (i \in 1 .. Len(s) /\ a[i] = s[i])
  BY <1>4, Places, Zenon
<1>6. e[2] <= t.rotations /\ e[2] # t.rotations - 1 /\ e[1] \in t.new
  BY <1>1, <1>3, Zenon
<1>7. Recalled(a, t)
  BY <1>2, <1>5, <1>6, Zenon DEF Recalled
<1> QED
  BY <1>2, <1>7, Zenon DEF a, e

\* A rotation forgets only what was passed on before the last one.
LEMMA RotatingRecalls ==
  ASSUME NEW s \in Seq(Nat \X Nat), NEW r \in RtRouters, Recalled(s, r)
  PROVE  Recalled(s, Rotated(r))
<1> DEFINE t == Rotated(r)
<1>1. r.rotations \in Nat /\ t.old = r.new /\ t.new = {} /\ t.rotations = r.rotations + 1
  BY DEF RtRouters, Rotated
<1> HIDE DEF t
<1> SUFFICES ASSUME NEW i \in 1 .. Len(s)
             PROVE  /\ s[i][2] <= t.rotations
                    /\ s[i][2] = t.rotations => s[i][1] \in t.new
                    /\ s[i][2] = t.rotations - 1 => s[i][1] \in t.old
  BY Zenon DEF t, Recalled
<1> DEFINE n == s[i][2]
<1>2. n \in Nat
  OBVIOUS
<1>3. n <= r.rotations /\ (n = r.rotations => s[i][1] \in r.new)
  BY Zenon DEF Recalled
<1> HIDE DEF n
<1>4. n <= t.rotations /\ n # t.rotations /\ (n = t.rotations - 1 => n = r.rotations)
  BY <1>1, <1>2, <1>3, SMTT(60)
<1> QED
  BY <1>1, <1>3, <1>4, Zenon DEF n

\* The relay's broadcast changes nothing in that.
LEMMA RelayRecalls ==
  ASSUME NEW f \in Seq(Nat \X Nat), NEW o \in Seq(Nat \X Nat), o # <<>>, NEW r, Recalled(f, r), Recalled(o, r)
  PROVE  Recalled(Append(f, Head(o)), r) /\ Recalled(Tail(o), r)
<1> DEFINE g == Append(f, Head(o))  q == Tail(o)
<1>1. /\ Len(f) \in Nat /\ Len(g) = Len(f) + 1 /\ g[Len(f) + 1] = o[1]
      /\ \A i \in 1 .. Len(f) : g[i] = f[i]
  BY Appended, Shortened, SMTT(60)
<1>2. Len(o) \in Nat \ {0} /\ Len(q) = Len(o) - 1 /\ \A i \in 1 .. Len(o) - 1 : q[i] = o[i + 1]
  BY Shortened
<1>3. Len(o) \in Nat \ {0} /\ Len(q) = Len(o) - 1
  BY <1>2, Zenon
<1> HIDE DEF g, q
<1>4. 1 \in 1 .. Len(o) /\ \A i \in 1 .. Len(q) : i \in 1 .. Len(o) - 1 /\ i + 1 \in 1 .. Len(o)
  BY <1>3, SMTT(60)
<1>5. \A i \in 1 .. Len(g) : (i \in 1 .. Len(f) /\ g[i] = f[i]) \/ g[i] = o[1]
  BY <1>1, Places, Zenon
<1>6. \A i \in 1 .. Len(q) : i + 1 \in 1 .. Len(o) /\ q[i] = o[i + 1]
  BY <1>2, <1>4, Zenon
<1>7. Recalled(g, r)
  BY <1>4, <1>5, Zenon DEF Recalled
<1>8. Recalled(q, r)
  BY <1>6, ZenonT(60) DEF Recalled
<1> QED
  BY <1>7, <1>8, Zenon DEF g, q

\* A step that leaves alone what was passed on, and the primary client no further than it was.
LEMMA RtKept ==
  ASSUME RtInv, RtType', RtCount', rtq'["relay"] = rtq["relay"], out' = out, rt'.new = rt.new, rt'.old = rt.old,
         rt'.rotations = rt.rotations, rt'.forwarded = rt.forwarded, rt'.failed = rt.failed, chan'[P] = chan[P],
         cl'[P].hold = cl[P].hold, cl'[P].pc # "hand" => cl[P].hold = <<>>,
         \A m \in Nat : Behind(cl'[P], m) => Behind(cl[P], m)
  PROVE  RtInv'
<1>1. RtMemory'
  <2>1. Apart(rt'.forwarded, out')
    BY Zenon DEF RtInv, RtMemory
  <2>2. \A s : Recalled(s, rt) => Recalled(s, rt')
    BY ZenonT(60) DEF Recalled
  <2>3. Recalled(rt'.forwarded, rt') /\ Recalled(out', rt')
    BY <2>2, Zenon DEF RtInv, RtMemory
  <2>4. rt'.new \cup rt'.old \subseteq MessagesOf(rt'.forwarded) \cup MessagesOf(out') \cup rt'.failed
    BY Zenon DEF RtInv, RtMemory
  <2> QED
    BY <2>1, <2>3, <2>4, ZenonT(60) DEF RtMemory
<1>2. RtStream'
  <2>1. Arrived(rt'.forwarded, out', rt'.failed, chan'[P], cl'[P].hold)
          = Arrived(rt.forwarded, out, rt.failed, chan[P], cl[P].hold)
    BY Zenon
  <2>2. \A m \in Nat : Behind(cl'[P], m) => m \in Arrived(rt'.forwarded, out', rt'.failed, chan'[P], cl'[P].hold)
    BY <2>1, Zenon DEF RtInv, RtStream
  <2> QED
    BY <2>2, Zenon DEF RtStream
<1>3. rtq'["relay"] = 0 => out' = <<>>
  BY Zenon DEF RtInv
<1> QED
  BY <1>1, <1>2, <1>3, Zenon DEF RtInv

\* One client's step and the count of connected feeds.
LEMMA RtCounts ==
  ASSUME RtCount, rt.connected \in Int, rt'.connected \in Int, NEW c \in Feeds,
         \A d \in Feeds \ {c} : cl'[d] = cl[d],
         rt'.connected - rt.connected >= AsOne(cl'[c]) - AsOne(cl[c])
  PROVE  RtCount'
<1>1. \A x : AsOne(x) \in Int
  BY DEF AsOne
<1> DEFINE a == AsOne(cl[P])  b == AsOne(cl[S])  aa == AsOne(cl'[P])  bb == AsOne(cl'[S])
<1>2. a \in Int /\ b \in Int /\ aa \in Int /\ bb \in Int
  BY <1>1, Zenon
<1>3. \/ bb = b /\ rt'.connected - rt.connected >= aa - a
      \/ aa = a /\ rt'.connected - rt.connected >= bb - b
  <2>1. P # S /\ P \in Feeds /\ S \in Feeds /\ (c = P \/ c = S)
    BY Zenon DEF P, S, Feeds
  <2>2. CASE c = P
    BY <2>1, <2>2, Zenon
  <2>3. CASE c = S
    BY <2>1, <2>3, Zenon
  <2> QED
    BY <2>1, <2>2, <2>3, Zenon
<1>4. rt.connected >= a + b
  BY Zenon DEF RtCount
<1> HIDE DEF a, b, aa, bb
<1>5. rt'.connected >= aa + bb
  BY <1>2, <1>3, <1>4, SMTT(60)
<1> QED
  BY <1>5, Zenon DEF RtCount, aa, bb

\* The bounds on what may happen do not change the kind of node.
LEMMA RtUses ==
  ASSUME rtq \in [RtKeys -> Int], NEW k \in RtKeys \ {"relay"}, Used(k) \/ UNCHANGED rtq
  PROVE  rtq' \in [RtKeys -> Int] /\ rtq'["relay"] = rtq["relay"]
BY DEF Used, RtKeys

\* A client's record that changes.
LEMMA ClientChanges ==
  ASSUME cl \in [Feeds -> RtClients], NEW c \in Feeds, NEW v \in RtClients, cl' = [cl EXCEPT ![c] = v]
  PROVE  cl' \in [Feeds -> RtClients] /\ cl'[c] = v /\ \A d \in Feeds \ {c} : cl'[d] = cl[d]
OBVIOUS

\* A changed field of a client leaves its other fields.
LEMMA ClientRecords ==
  ASSUME NEW k \in RtClients
  PROVE  /\ k.pc \in {"off", "dial", "read", "hand", "backoff", "fatal"} /\ k.next \in Nat /\ k.at \in Nat
         /\ k.hold \in Seq(Nat) /\ k.unread \in SUBSET Nat /\ k.counted \in BOOLEAN
         /\ \A pc \in {"off", "dial", "read", "hand", "backoff", "fatal"} : [k EXCEPT !.pc = pc] \in RtClients
         /\ \A h \in Seq(Nat) : [k EXCEPT !.hold = h] \in RtClients
         /\ \A n \in Nat, U \in SUBSET Nat : [k EXCEPT !.pc = "read", !.at = n, !.unread = U] \in RtClients
         /\ \A n \in Nat, U \in SUBSET Nat, b \in BOOLEAN : [k EXCEPT !.at = n, !.unread = U, !.counted = b] \in RtClients
         /\ [k EXCEPT !.pc = "backoff", !.counted = FALSE] \in RtClients
BY Zenon DEF RtClients

\* connect.
LEMMA RtDial ==
  ASSUME RtInv, NEW c \in Feeds, Dial(c)
  PROVE  RtInv'
<1> DEFINE U == {m \in cl[c].unread : m < cl[c].next}
           v == [cl[c] EXCEPT !.pc = "read", !.at = cl[c].next, !.unread = U]
<1>1. cl \in [Feeds -> RtClients] /\ P \in Feeds /\ cl[c] \in RtClients
  BY Zenon DEF RtInv, RtType, Feeds
<1>2. cl' = [cl EXCEPT ![c] = v] /\ UNCHANGED <<made, chan, rt, out, rtq>> /\ cl[c].pc # "hand"
  BY Zenon DEF Dial, Requested
<1>3. /\ v \in RtClients /\ v.counted = cl[c].counted /\ v.pc = "read" /\ v.at = cl[c].next
      /\ v.next = cl[c].next /\ v.hold = cl[c].hold /\ v.unread = U
  <2>1. cl[c].next \in Nat /\ U \in SUBSET Nat
    BY <1>1, ClientRecords, Zenon
  <2>2. v \in RtClients
    BY <1>1, <2>1, ClientRecords, Zenon
  <2> QED
    BY <1>1, <2>2, Zenon DEF RtClients
<1> HIDE DEF v
<1>4. cl' \in [Feeds -> RtClients] /\ cl'[c] = v /\ \A d \in Feeds \ {c} : cl'[d] = cl[d]
  BY <1>1, <1>2, <1>3, ClientChanges, Zenon
<1>5. RtType'
  BY <1>2, <1>4, Zenon DEF RtInv, RtType
<1>6. RtCount'
  <2>1. rt.connected \in Int
    BY RouterRecords, Zenon DEF RtInv, RtType
  <2>2. rt.connected - rt.connected >= AsOne(v) - AsOne(v)
    BY <2>1 DEF AsOne
  <2>3. rt'.connected = rt.connected /\ AsOne(v) = AsOne(cl[c])
    BY <1>2, <1>3, Zenon DEF AsOne
  <2> QED
    BY <1>4, <2>1, <2>2, <2>3, RtCounts, ZenonT(60) DEF RtInv
<1>7. CASE c = P
  <2>1. \A m \in Nat : Behind(cl'[P], m) => Behind(cl[P], m)
    BY <1>3, <1>4, <1>7, Zenon DEF Behind
  <2>2. cl'[P].hold = cl[P].hold /\ (cl'[P].pc # "hand" => cl[P].hold = <<>>)
    BY <1>2, <1>3, <1>4, <1>7, ZenonT(60) DEF RtInv, RtStream
  <2> QED
    BY <1>2, <1>5, <1>6, <2>1, <2>2, RtKept, ZenonT(60)
<1>8. CASE c # P
  <2>1. cl'[P] = cl[P]
    BY <1>1, <1>4, <1>8, ZenonT(60)
  <2> QED
    BY <1>2, <1>5, <1>6, <2>1, RtKept, ZenonT(60) DEF RtInv, RtStream
<1> QED
  BY <1>7, <1>8, SMTT(60)

\* Such a step that changes another client than the primary, if any.
LEMMA RtAside ==
  ASSUME RtInv, RtType', RtCount', rtq'["relay"] = rtq["relay"], out' = out, rt'.new = rt.new, rt'.old = rt.old,
         rt'.rotations = rt.rotations, rt'.forwarded = rt.forwarded, rt'.failed = rt.failed, chan'[P] = chan[P],
         cl'[P] = cl[P]
  PROVE  RtInv'
<1>1. cl[P].pc # "hand" => cl[P].hold = <<>>
  BY Zenon DEF RtInv, RtStream
<1>2. /\ cl'[P].hold = cl[P].hold /\ (cl'[P].pc # "hand" => cl[P].hold = <<>>)
      /\ \A m \in Nat : Behind(cl'[P], m) => Behind(cl[P], m)
  BY <1>1, Zenon
<1> QED
  BY <1>2, RtKept, ZenonT(60)

\* The fields that such a step of the router leaves alone.
LEMMA RouterChanges ==
  ASSUME NEW r \in RtRouters, NEW t,
         \/ \E b \in BOOLEAN : t = [r EXCEPT !.inner = b]
         \/ \E b \in BOOLEAN : t = [r EXCEPT !.fatal = b]
         \/ \E pc \in {"run", "stopping"} : t = [r EXCEPT !.pc = pc]
  PROVE  /\ t \in RtRouters /\ t.new = r.new /\ t.old = r.old /\ t.rotations = r.rotations
         /\ t.forwarded = r.forwarded /\ t.failed = r.failed /\ t.connected = r.connected
<1>1. t \in RtRouters
  BY RouterRecords, ZenonT(60)
<1>2. t.new = r.new /\ t.old = r.old
  BY Zenon DEF RtRouters
<1>3. t.rotations = r.rotations /\ t.forwarded = r.forwarded
  BY Zenon DEF RtRouters
<1>4. t.failed = r.failed /\ t.connected = r.connected
  BY ZenonT(60) DEF RtRouters
<1> QED
  BY <1>1, <1>2, <1>3, <1>4, ZenonT(60)

\* The server is of another chain.
LEMMA RtWrongServer ==
  ASSUME RtInv, NEW c \in Feeds, WrongServer(c)
  PROVE  RtInv'
<1> DEFINE v == [cl[c] EXCEPT !.pc = "fatal"]
<1>1. cl \in [Feeds -> RtClients] /\ P \in Feeds /\ cl[c] \in RtClients /\ rt \in RtRouters /\ rtq \in [RtKeys -> Int]
  BY Zenon DEF RtInv, RtType, Feeds
<1>2. /\ cl' = [cl EXCEPT ![c] = v] /\ UNCHANGED <<made, chan, out>> /\ cl[c].pc # "hand"
      /\ rt' = [rt EXCEPT !.fatal = TRUE] /\ Used("wrong")
  BY Zenon DEF WrongServer
<1>3. rtq' \in [RtKeys -> Int] /\ rtq'["relay"] = rtq["relay"]
  <2>1. "wrong" \in RtKeys \ {"relay"}
    BY DEF RtKeys
  <2> QED
    BY <1>1, <1>2, <2>1, RtUses, ZenonT(60)
<1>4. /\ v \in RtClients /\ v.counted = cl[c].counted /\ v.pc = "fatal" /\ v.next = cl[c].next /\ v.hold = cl[c].hold
      /\ v.unread = cl[c].unread
  <2>1. v \in RtClients
    BY <1>1, ClientRecords, Zenon
  <2> QED
    BY <1>1, <2>1, Zenon DEF RtClients
<1> HIDE DEF v
<1>5. cl' \in [Feeds -> RtClients] /\ cl'[c] = v /\ \A d \in Feeds \ {c} : cl'[d] = cl[d]
  BY <1>1, <1>2, <1>4, ClientChanges, ZenonT(60)
<1>6. /\ rt' \in RtRouters /\ rt'.new = rt.new /\ rt'.old = rt.old /\ rt'.rotations = rt.rotations
      /\ rt'.forwarded = rt.forwarded /\ rt'.failed = rt.failed /\ rt'.connected = rt.connected
  BY <1>1, <1>2, RouterChanges, Zenon
<1>7. RtType'
  BY <1>2, <1>3, <1>5, <1>6, ZenonT(60) DEF RtInv, RtType
<1>8. RtCount'
  <2>1. rt.connected \in Int
    BY <1>1, RouterRecords, Zenon
  <2>2. rt.connected - rt.connected >= AsOne(v) - AsOne(v)
    BY <2>1, SMTT(60) DEF AsOne
  <2>3. AsOne(v) = AsOne(cl[c])
    BY <1>4, Zenon DEF AsOne
  <2> QED
    BY <1>5, <1>6, <2>1, <2>2, <2>3, RtCounts, ZenonT(60) DEF RtInv
<1>9. CASE c = P
  <2>1. \A m \in Nat : Behind(cl'[P], m) => Behind(cl[P], m)
    BY <1>4, <1>5, <1>9, ZenonT(60) DEF Behind
  <2>2. cl'[P].hold = cl[P].hold /\ (cl'[P].pc # "hand" => cl[P].hold = <<>>)
    BY <1>2, <1>4, <1>5, <1>9, ZenonT(60) DEF RtInv, RtStream
  <2> QED
    BY <1>2, <1>3, <1>6, <1>7, <1>8, <2>1, <2>2, RtKept, ZenonT(60)
<1>10. CASE c # P
  BY <1>1, <1>2, <1>3, <1>5, <1>6, <1>7, <1>8, <1>10, RtAside, ZenonT(60)
<1> QED
  BY <1>9, <1>10, SMTT(60)

\* A connection breaks.
LEMMA RtReadFails ==
  ASSUME RtInv, NEW c \in Feeds, ReadFails(c)
  PROVE  RtInv'
<1> DEFINE v == [cl[c] EXCEPT !.pc = "backoff", !.counted = FALSE]
<1> DEFINE n == Disconnected(rt.connected, cl[c].counted)
<1>1. cl \in [Feeds -> RtClients] /\ P \in Feeds /\ cl[c] \in RtClients /\ rt \in RtRouters /\ rtq \in [RtKeys -> Int]
  BY Zenon DEF RtInv, RtType, Feeds
<1>2. /\ cl' = [cl EXCEPT ![c] = v] /\ UNCHANGED <<made, chan, out>> /\ cl[c].pc # "hand"
      /\ rt' = [rt EXCEPT !.connected = n] /\ Used("breaks")
  BY Zenon DEF ReadFails
<1>3. rtq' \in [RtKeys -> Int] /\ rtq'["relay"] = rtq["relay"]
  <2>1. "breaks" \in RtKeys \ {"relay"}
    BY DEF RtKeys
  <2> QED
    BY <1>1, <1>2, <2>1, RtUses, ZenonT(60)
<1>4. /\ v \in RtClients /\ v.counted = FALSE /\ v.pc = "backoff" /\ v.next = cl[c].next /\ v.hold = cl[c].hold
      /\ v.unread = cl[c].unread
  <2>1. v \in RtClients
    BY <1>1, ClientRecords, Zenon
  <2> QED
    BY <1>1, <2>1, Zenon DEF RtClients
<1> HIDE DEF v
<1>5. cl' \in [Feeds -> RtClients] /\ cl'[c] = v /\ \A d \in Feeds \ {c} : cl'[d] = cl[d]
  BY <1>1, <1>2, <1>4, ClientChanges, ZenonT(60)
<1>6. n \in Int /\ rt.connected \in Int /\ n - rt.connected >= AsOne(v) - AsOne(cl[c])
  <2>1. rt.connected \in Int
    BY <1>1, RouterRecords, Zenon
  <2> QED
    BY <1>4, <2>1, SMTT(60) DEF Disconnected, AsOne
<1> HIDE DEF n
<1>7. /\ rt' \in RtRouters /\ rt'.new = rt.new /\ rt'.old = rt.old /\ rt'.rotations = rt.rotations
      /\ rt'.forwarded = rt.forwarded /\ rt'.failed = rt.failed /\ rt'.connected = n
  <2>1. rt' \in RtRouters
    BY <1>1, <1>2, <1>6, RouterRecords, ZenonT(60)
  <2> QED
    BY <1>1, <1>2, <2>1, ZenonT(60) DEF RtRouters
<1>8. RtType'
  BY <1>2, <1>3, <1>5, <1>7, ZenonT(60) DEF RtInv, RtType
<1>9. RtCount'
  BY <1>5, <1>6, <1>7, RtCounts, ZenonT(60) DEF RtInv
<1>10. CASE c = P
  <2>1. \A m \in Nat : Behind(cl'[P], m) => Behind(cl[P], m)
    BY <1>4, <1>5, <1>10, Zenon DEF Behind
  <2>2. cl'[P].hold = cl[P].hold /\ (cl'[P].pc # "hand" => cl[P].hold = <<>>)
    BY <1>2, <1>4, <1>5, <1>10, ZenonT(60) DEF RtInv, RtStream
  <2> QED
    BY <1>2, <1>3, <1>7, <1>8, <1>9, <2>1, <2>2, RtKept, ZenonT(60)
<1>11. CASE c # P
  BY <1>1, <1>2, <1>3, <1>5, <1>7, <1>8, <1>9, <1>11, RtAside, ZenonT(60)
<1> QED
  BY <1>10, <1>11, SMTT(60)

\* What the router does without a message, and the server's broadcast.
LEMMA RtIdle ==
  ASSUME RtInv, EnterInner \/ PrimaryIsDown \/ StopSecondaryFeed \/ Produce
  PROVE  RtInv'
<1>1. rt \in RtRouters /\ rtq \in [RtKeys -> Int] /\ made \in Nat
  BY Zenon DEF RtInv, RtType
<1>2. UNCHANGED <<cl, chan, out>>
  BY Zenon DEF EnterInner, PrimaryIsDown, StopSecondaryFeed, Produce
<1>3. made' \in Nat
  BY <1>1 DEF EnterInner, PrimaryIsDown, StopSecondaryFeed, Produce
<1>4. rtq' \in [RtKeys -> Int] /\ rtq'["relay"] = rtq["relay"]
  <2>1. "stops" \in RtKeys \ {"relay"} /\ "messages" \in RtKeys \ {"relay"}
    BY DEF RtKeys
  <2> QED
    BY <1>1, <2>1, RtUses, ZenonT(60) DEF EnterInner, PrimaryIsDown, StopSecondaryFeed, Produce
<1>5. /\ rt' \in RtRouters /\ rt'.new = rt.new /\ rt'.old = rt.old /\ rt'.rotations = rt.rotations
      /\ rt'.forwarded = rt.forwarded /\ rt'.failed = rt.failed /\ rt'.connected = rt.connected
  <2>1. CASE Produce
    BY <1>1, <2>1, Zenon DEF Produce
  <2>2. CASE EnterInner \/ PrimaryIsDown \/ StopSecondaryFeed
    <3>1. \/ \E b \in BOOLEAN : rt' = [rt EXCEPT !.inner = b]
          \/ \E pc \in {"run", "stopping"} : rt' = [rt EXCEPT !.pc = pc]
      BY <2>2, Zenon DEF EnterInner, PrimaryIsDown, StopSecondaryFeed
    <3> QED
      BY <1>1, <3>1, RouterChanges, Zenon
  <2> QED
    BY <2>1, <2>2, SMTT(60)
<1>6. RtType'
  BY <1>2, <1>3, <1>4, <1>5, ZenonT(60) DEF RtInv, RtType
<1>7. RtCount'
  BY <1>2, <1>5, Zenon DEF RtInv, RtCount
<1> QED
  BY <1>2, <1>4, <1>5, <1>6, <1>7, RtAside, ZenonT(60)

\* A secondary feed is started or given up.
LEMMA RtStartSecondary ==
  ASSUME RtInv, StartSecondaryFeed
  PROVE  RtInv'
<1> DEFINE v == IF cl[S].pc = "off" THEN NewClientFor("dial") ELSE cl[S]
<1>1. cl \in [Feeds -> RtClients] /\ P \in Feeds /\ S \in Feeds /\ P # S /\ cl[S] \in RtClients
  BY Zenon DEF RtInv, RtType, Feeds, P, S
<1>2. rt \in RtRouters /\ rtq \in [RtKeys -> Int] /\ rt.connected \in Int
  BY RouterRecords, Zenon DEF RtInv, RtType
<1>3. /\ UNCHANGED <<made, chan, out>> /\ rt' = [rt EXCEPT !.inner = FALSE]
      /\ \/ Used("starts") /\ cl' = [cl EXCEPT ![S] = v]
         \/ rtq' = [rtq EXCEPT !["starts"] = 0] /\ UNCHANGED cl
  BY Zenon DEF StartSecondaryFeed
<1>4. rtq' \in [RtKeys -> Int] /\ rtq'["relay"] = rtq["relay"]
  <2>1. "starts" \in RtKeys \ {"relay"} /\ "relay" \in RtKeys
    BY DEF RtKeys
  <2>2. CASE Used("starts")
    BY <1>2, <2>1, <2>2, RtUses, Zenon
  <2>3. CASE rtq' = [rtq EXCEPT !["starts"] = 0]
    BY <1>2, <2>1, <2>3, SMTT(60)
  <2> QED
    BY <1>3, <2>2, <2>3, Zenon
<1>5. /\ rt' \in RtRouters /\ rt'.new = rt.new /\ rt'.old = rt.old /\ rt'.rotations = rt.rotations
      /\ rt'.forwarded = rt.forwarded /\ rt'.failed = rt.failed /\ rt'.connected = rt.connected
  BY <1>2, <1>3, RouterChanges, ZenonT(60)
<1>6. v \in RtClients /\ rt.connected - rt.connected >= AsOne(v) - AsOne(cl[S])
  <2>1. NewClientFor("dial") \in RtClients /\ ~NewClientFor("dial").counted
    BY DEF NewClientFor, RtClients
  <2>2. v \in RtClients
    BY <1>1, <2>1, Zenon
  <2> QED
    BY <1>2, <2>1, <2>2, SMTT(60) DEF AsOne
<1> HIDE DEF v
<1>7. /\ cl' \in [Feeds -> RtClients] /\ cl'[P] = cl[P] /\ RtCount'
  <2>1. CASE cl' = [cl EXCEPT ![S] = v]
    <3>1. cl' \in [Feeds -> RtClients] /\ cl'[S] = v /\ \A d \in Feeds \ {S} : cl'[d] = cl[d]
      BY <1>1, <1>6, <2>1, ClientChanges, ZenonT(60)
    <3> QED
      BY <1>1, <1>2, <1>5, <1>6, <3>1, RtCounts, ZenonT(60) DEF RtInv
  <2>2. CASE UNCHANGED cl
    BY <1>1, <1>5, <2>2, ZenonT(60) DEF RtInv, RtCount
  <2> QED
    BY <1>3, <2>1, <2>2, ZenonT(60)
<1>8. RtType'
  BY <1>3, <1>4, <1>5, <1>7, ZenonT(60) DEF RtInv, RtType
<1> QED
  BY <1>3, <1>4, <1>5, <1>7, <1>8, RtAside, ZenonT(60)

\* The secondary feed was stopped; what is left of its messages is dropped.
LEMMA RtStopped ==
  ASSUME RtInv, SecondaryStopped
  PROVE  RtInv'
<1> DEFINE v == NewClientFor("off")
<1>1. /\ cl \in [Feeds -> RtClients] /\ P \in Feeds /\ S \in Feeds /\ P # S /\ cl[S] \in RtClients
      /\ chan \in [Feeds -> Seq(Nat)]
  BY Zenon DEF RtInv, RtType, Feeds, P, S
<1>2. rt \in RtRouters /\ rt.connected \in Int
  BY RouterRecords, Zenon DEF RtInv, RtType
<1>3. /\ UNCHANGED <<made, out, rtq>> /\ rt' = [rt EXCEPT !.pc = "run"] /\ cl' = [cl EXCEPT ![S] = v]
      /\ chan' = [chan EXCEPT ![S] = <<>>]
  BY Zenon DEF SecondaryStopped, Flushed2
<1>4. /\ rt' \in RtRouters /\ rt'.new = rt.new /\ rt'.old = rt.old /\ rt'.rotations = rt.rotations
      /\ rt'.forwarded = rt.forwarded /\ rt'.failed = rt.failed /\ rt'.connected = rt.connected
  BY <1>2, <1>3, RouterChanges, ZenonT(60)
<1>5. v \in RtClients /\ rt.connected - rt.connected >= AsOne(v) - AsOne(cl[S])
  <2>1. v \in RtClients /\ ~v.counted
    BY DEF NewClientFor, RtClients
  <2> QED
    BY <1>2, <2>1, SMTT(60) DEF AsOne
<1> HIDE DEF v
<1>6. cl' \in [Feeds -> RtClients] /\ cl'[S] = v /\ \A d \in Feeds \ {S} : cl'[d] = cl[d]
  BY <1>1, <1>3, <1>5, ClientChanges, ZenonT(60)
<1>7. RtCount'
  BY <1>1, <1>2, <1>4, <1>5, <1>6, RtCounts, ZenonT(60) DEF RtInv
<1>8. chan' \in [Feeds -> Seq(Nat)] /\ chan'[P] = chan[P]
  BY <1>1, <1>3, SMTT(60)
<1>9. RtType'
  BY <1>3, <1>4, <1>6, <1>8, ZenonT(60) DEF RtInv, RtType
<1> QED
  BY <1>1, <1>3, <1>4, <1>6, <1>7, <1>8, <1>9, RtAside, ZenonT(60)

\* The messages of a broadcast.
LEMMA NumbersFrom ==
  ASSUME NEW a \in Nat, NEW k \in Nat
  PROVE  /\ [i \in 1 .. k |-> a + i - 1] \in Seq(Nat) /\ DOMAIN [i \in 1 .. k |-> a + i - 1] = 1 .. k
         /\ \A j \in 1 .. k : [i \in 1 .. k |-> a + i - 1][j] = a + j - 1
<1>1. \A i \in 1 .. k : a + i - 1 \in Nat
  OBVIOUS
<1>2. [i \in 1 .. k |-> a + i - 1] \in [1 .. k -> Nat]
  BY <1>1, Zenon
<1>3. [i \in 1 .. k |-> a + i - 1] \in Seq(Nat)
  BY <1>2, SMTT(60)
<1> QED
  BY <1>3, Zenon

\* Messages are read from the server.
LEMMA RtReadMessages ==
  ASSUME RtInv, NEW c \in Feeds, ReadMessages(c)
  PROVE  RtInv'
<1>1. cl \in [Feeds -> RtClients] /\ P \in Feeds /\ cl[c] \in RtClients /\ rt \in RtRouters /\ rtq \in [RtKeys -> Int]
  BY Zenon DEF RtInv, RtType, Feeds
<1> DEFINE a == cl[c].at
<1>2. made \in Nat /\ a \in Nat /\ cl[c].next \in Nat /\ cl[c].pc = "read" /\ cl[c].unread \in SUBSET Nat /\ UNCHANGED <<made, chan, out>>
  BY <1>1, ClientRecords, Zenon DEF RtInv, RtType, ReadMessages
<1>3. PICK n \in a + 1 .. made : \E next \in {cl[c].next} \cup (a + 1 .. n) :
         /\ UNCHANGED rtq \/ Used("bad")
         /\ cl' = [cl EXCEPT ![c] = [pc |-> "hand", next |-> next, at |-> n, unread |-> cl[c].unread,
                                     hold |-> [i \in 1 .. n - a |-> a + i - 1], counted |-> TRUE]]
         /\ rt' = [rt EXCEPT !.connected = IF cl[c].counted THEN @ ELSE @ + 1, !.fatal = @ \/ next # n]
  BY Zenon DEF ReadMessages
<1>a. PICK next \in {cl[c].next} \cup (a + 1 .. n) :
         /\ UNCHANGED rtq \/ Used("bad")
         /\ cl' = [cl EXCEPT ![c] = [pc |-> "hand", next |-> next, at |-> n, unread |-> cl[c].unread,
                                     hold |-> [i \in 1 .. n - a |-> a + i - 1], counted |-> TRUE]]
         /\ rt' = [rt EXCEPT !.connected = IF cl[c].counted THEN @ ELSE @ + 1, !.fatal = @ \/ next # n]
  BY <1>3, ZenonT(60)
<1> DEFINE h == [i \in 1 .. n - a |-> a + i - 1]
           v == [pc |-> "hand", next |-> next, at |-> n, unread |-> cl[c].unread, hold |-> h, counted |-> TRUE]
           k == IF cl[c].counted THEN rt.connected ELSE rt.connected + 1
<1>4. n \in Nat /\ next \in Nat /\ n - a \in Nat /\ (next <= n \/ next = cl[c].next)
  BY <1>2
<1>5. h \in Seq(Nat) /\ DOMAIN h = 1 .. n - a /\ \A i \in 1 .. n - a : h[i] = a + i - 1
  BY <1>2, <1>4, NumbersFrom, ZenonT(60)
<1>6. \A m \in Nat : m < n => m < a \/ m \in Range(h)
  <2>1. \A m \in Nat : m < n => m < a \/ (m - a + 1 \in 1 .. n - a /\ a + (m - a + 1) - 1 = m)
    BY <1>2, <1>4, SMTT(60)
  <2> QED
    BY <1>5, <2>1, ZenonT(60) DEF Range
<1> HIDE DEF h
<1>7. /\ v \in RtClients /\ v.pc = "hand" /\ v.next = next /\ v.at = n /\ v.hold = h /\ v.counted = TRUE
      /\ v.unread = cl[c].unread
  BY <1>2, <1>4, <1>5, ZenonT(60) DEF RtClients
<1>8. k \in Int /\ rt.connected \in Int /\ k - rt.connected >= AsOne(v) - AsOne(cl[c])
  <2>1. rt.connected \in Int
    BY <1>1, RouterRecords, Zenon
  <2> QED
    BY <1>7, <2>1, SMTT(60) DEF AsOne
<1>9. cl' = [cl EXCEPT ![c] = v] /\ rt' = [rt EXCEPT !.connected = k, !.fatal = rt.fatal \/ next # n]
  BY <1>1, <1>a, ZenonT(60) DEF h, RtRouters
<1> HIDE DEF v, k
<1>10. /\ rt' \in RtRouters /\ rt'.new = rt.new /\ rt'.old = rt.old /\ rt'.rotations = rt.rotations
       /\ rt'.forwarded = rt.forwarded /\ rt'.failed = rt.failed /\ rt'.connected = k
  BY <1>1, <1>8, <1>9, ZenonT(60) DEF RtRouters
<1>11. rtq' \in [RtKeys -> Int] /\ rtq'["relay"] = rtq["relay"]
  <2>1. "bad" \in RtKeys \ {"relay"}
    BY DEF RtKeys
  <2> QED
    BY <1>1, <1>a, <2>1, RtUses, ZenonT(60)
<1>12. cl' \in [Feeds -> RtClients] /\ cl'[c] = v /\ \A d \in Feeds \ {c} : cl'[d] = cl[d]
  BY <1>1, <1>7, <1>9, ClientChanges, ZenonT(60)
<1>13. RtType' /\ RtCount'
  <2>1. RtCount'
    BY <1>8, <1>10, <1>12, RtCounts, ZenonT(60) DEF RtInv
  <2> QED
    BY <1>2, <1>10, <1>11, <1>12, <2>1, ZenonT(60) DEF RtInv, RtType
<1>14. CASE c = P
  <2>1. RtMemory' /\ (rtq'["relay"] = 0 => out' = <<>>)
    <3>1. \A s : Recalled(s, rt) => Recalled(s, rt')
      BY <1>10, Zenon DEF Recalled
    <3> QED
      BY <1>2, <1>10, <1>11, <3>1, ZenonT(60) DEF RtInv, RtMemory
  <2>2. \A m \in Nat : Behind(v, m) => Behind(cl[P], m) \/ m \in Range(h)
    <3>1. \A m \in Nat : m < next => m < n \/ m < cl[P].next
      BY <1>4, <1>14, SMTT(60)
    <3> QED
      BY <1>2, <1>6, <1>7, <1>14, <3>1, ZenonT(60) DEF Behind
  <2>3. cl[P].hold = <<>> /\ Range(cl[P].hold) = {}
    <3>1. cl[P].hold = <<>>
      BY <1>2, <1>14, ZenonT(60) DEF RtInv, RtStream
    <3> QED
      BY <3>1 DEF Range
  <2>4. \A m \in Nat : Behind(cl'[P], m) => m \in Arrived(rt'.forwarded, out', rt'.failed, chan'[P], cl'[P].hold)
    <3>1. cl'[P] = v /\ cl'[P].hold = h
      BY <1>7, <1>12, <1>14, ZenonT(60)
    <3> QED
      BY <1>2, <1>10, <2>2, <2>3, <3>1, ZenonT(60) DEF RtInv, RtStream, Arrived
  <2>5. RtStream'
    BY <1>7, <1>12, <1>14, <2>4, ZenonT(60) DEF RtStream
  <2> QED
    BY <1>13, <2>1, <2>5, ZenonT(60) DEF RtInv
<1>15. CASE c # P
  BY <1>1, <1>2, <1>10, <1>11, <1>12, <1>13, <1>15, RtAside, ZenonT(60)
<1> QED
  BY <1>14, <1>15, SMTT(60)

\* A frame is left unread.
LEMMA RtIgnored ==
  ASSUME RtInv, NEW c \in Feeds, FrameIgnored(c)
  PROVE  RtInv'
<1>1. cl \in [Feeds -> RtClients] /\ P \in Feeds /\ cl[c] \in RtClients /\ rt \in RtRouters /\ rtq \in [RtKeys -> Int]
  BY Zenon DEF RtInv, RtType, Feeds
<1> DEFINE a == cl[c].at
<1>2. /\ made \in Nat /\ a \in Nat /\ cl[c].unread \in SUBSET Nat /\ cl[c].counted \in BOOLEAN
      /\ cl[c].pc = "read" /\ Used("garbled") /\ UNCHANGED <<made, chan, out>>
  BY <1>1, ClientRecords, Zenon DEF RtInv, RtType, FrameIgnored
<1>3. PICK n \in a + 1 .. made, parsed \in BOOLEAN :
         /\ cl' = [cl EXCEPT ![c] = [cl[c] EXCEPT !.at = n, !.unread = cl[c].unread \cup (a .. n - 1),
                                                 !.counted = cl[c].counted \/ parsed]]
         /\ rt' = [rt EXCEPT !.connected = IF parsed /\ ~cl[c].counted THEN rt.connected + 1 ELSE rt.connected]
  BY <1>1, ZenonT(60) DEF FrameIgnored
<1> DEFINE U == cl[c].unread \cup (a .. n - 1)
           v == [cl[c] EXCEPT !.at = n, !.unread = U, !.counted = cl[c].counted \/ parsed]
           k == IF parsed /\ ~cl[c].counted THEN rt.connected + 1 ELSE rt.connected
<1>4. n \in Nat /\ U \in SUBSET Nat /\ cl[c].unread \subseteq U /\ \A m \in Nat : m < n => m < a \/ m \in U
  BY <1>2, SMTT(60)
<1> HIDE DEF U
<1>5. /\ v \in RtClients /\ v.pc = "read" /\ v.next = cl[c].next /\ v.at = n /\ v.hold = cl[c].hold
      /\ v.unread = U /\ v.counted = (cl[c].counted \/ parsed)
  <2>1. v \in RtClients
    BY <1>1, <1>2, <1>4, ClientRecords, ZenonT(60)
  <2> QED
    BY <1>1, <1>2, <2>1, ZenonT(60) DEF RtClients
<1>6. k \in Int /\ rt.connected \in Int /\ k - rt.connected >= AsOne(v) - AsOne(cl[c])
  <2>1. rt.connected \in Int
    BY <1>1, RouterRecords, Zenon
  <2> HIDE DEF v
  <2> QED
    BY <1>2, <1>5, <2>1, SMTT(60) DEF AsOne
<1>7. cl' = [cl EXCEPT ![c] = v] /\ rt' = [rt EXCEPT !.connected = k]
  BY <1>3, Zenon DEF U
<1> HIDE DEF v, k
<1>8. /\ rt' \in RtRouters /\ rt'.new = rt.new /\ rt'.old = rt.old /\ rt'.rotations = rt.rotations
      /\ rt'.forwarded = rt.forwarded /\ rt'.failed = rt.failed /\ rt'.connected = k
  <2>1. rt' \in RtRouters
    BY <1>1, <1>6, <1>7, RouterRecords, ZenonT(60)
  <2> QED
    BY <1>1, <1>7, <2>1, ZenonT(60) DEF RtRouters
<1>9. rtq' \in [RtKeys -> Int] /\ rtq'["relay"] = rtq["relay"]
  <2>1. "garbled" \in RtKeys \ {"relay"}
    BY DEF RtKeys
  <2> QED
    BY <1>1, <1>2, <2>1, RtUses, ZenonT(60)
<1>10. cl' \in [Feeds -> RtClients] /\ cl'[c] = v /\ \A d \in Feeds \ {c} : cl'[d] = cl[d]
  BY <1>1, <1>5, <1>7, ClientChanges, ZenonT(60)
<1>11. RtType'
  BY <1>2, <1>8, <1>9, <1>10, ZenonT(60) DEF RtInv, RtType
<1>12. RtCount'
  BY <1>6, <1>8, <1>10, RtCounts, ZenonT(60) DEF RtInv
<1>13. CASE c = P
  <2>1. \A m \in Nat : Behind(cl'[P], m) => Behind(cl[P], m)
    BY <1>2, <1>4, <1>5, <1>10, <1>13, ZenonT(60) DEF Behind
  <2>2. cl'[P].hold = cl[P].hold /\ (cl'[P].pc # "hand" => cl[P].hold = <<>>)
    BY <1>2, <1>5, <1>10, <1>13, ZenonT(60) DEF RtInv, RtStream
  <2> QED
    BY <1>2, <1>8, <1>9, <1>11, <1>12, <2>1, <2>2, RtKept, ZenonT(60)
<1>14. CASE c # P
  BY <1>1, <1>2, <1>8, <1>9, <1>10, <1>11, <1>12, <1>14, RtAside, ZenonT(60)
<1> QED
  BY <1>13, <1>14, SMTT(60)

\* A client hands a message over to the router.
LEMMA RtHandOver ==
  ASSUME RtInv, NEW c \in Feeds, HandOver(c)
  PROVE  RtInv'
<1>1. /\ cl \in [Feeds -> RtClients] /\ P \in Feeds /\ cl[c] \in RtClients /\ chan \in [Feeds -> Seq(Nat)]
      /\ rt \in RtRouters
  BY Zenon DEF RtInv, RtType, Feeds
<1>2. UNCHANGED <<made, rt, out, rtq>> /\ cl[c].pc = "hand" /\ rt.connected \in Int /\ cl[c].hold \in Seq(Nat)
  BY <1>1, ClientRecords, RouterRecords, ZenonT(60) DEF HandOver
<1>3. ASSUME NEW v \in RtClients, v.counted = cl[c].counted, cl' = [cl EXCEPT ![c] = v],
             chan' \in [Feeds -> Seq(Nat)]
      PROVE  /\ RtType' /\ RtCount' /\ cl'[c] = v /\ \A d \in Feeds \ {c} : cl'[d] = cl[d]
  <2>1. cl' \in [Feeds -> RtClients] /\ cl'[c] = v /\ \A d \in Feeds \ {c} : cl'[d] = cl[d]
    BY <1>1, <1>3, ClientChanges, ZenonT(60)
  <2>2. rt.connected - rt.connected >= AsOne(v) - AsOne(v) /\ AsOne(v) = AsOne(cl[c])
    BY <1>2, <1>3, SMTT(60) DEF AsOne
  <2>3. RtCount'
    BY <1>2, <2>1, <2>2, RtCounts, ZenonT(60) DEF RtInv
  <2> QED
    BY <1>2, <1>3, <2>1, <2>3, ZenonT(60) DEF RtInv, RtType
<1>4. CASE cl[c].hold = <<>>
  <2> DEFINE v == [cl[c] EXCEPT !.pc = "read"]
  <2>1. cl' = [cl EXCEPT ![c] = v] /\ chan' = chan
    BY <1>4, Zenon DEF HandOver
  <2>2. /\ v \in RtClients /\ v.counted = cl[c].counted /\ v.pc = "read" /\ v.next = cl[c].next /\ v.at = cl[c].at
        /\ v.hold = cl[c].hold /\ v.unread = cl[c].unread
    <3>1. v \in RtClients
      BY <1>1, ClientRecords, Zenon
    <3> QED
      BY <1>1, <3>1, Zenon DEF RtClients
  <2> HIDE DEF v
  <2>3. RtType' /\ RtCount' /\ cl'[c] = v /\ \A d \in Feeds \ {c} : cl'[d] = cl[d]
    BY <1>1, <1>3, <2>1, <2>2, ZenonT(60)
  <2>4. CASE c = P
    <3>1. \A m \in Nat : Behind(cl'[P], m) => Behind(cl[P], m)
      BY <1>2, <2>2, <2>3, <2>4, ZenonT(60) DEF Behind
    <3>2. cl'[P].hold = cl[P].hold /\ (cl'[P].pc # "hand" => cl[P].hold = <<>>)
      BY <1>4, <2>2, <2>3, <2>4, ZenonT(60)
    <3> QED
      BY <1>2, <2>1, <2>3, <3>1, <3>2, RtKept, ZenonT(60)
  <2>5. CASE c # P
    BY <1>1, <1>2, <2>1, <2>3, <2>5, RtAside, ZenonT(60)
  <2> QED
    BY <2>4, <2>5, SMTT(60)
<1>5. CASE cl[c].hold # <<>>
  <2> DEFINE x == Head(cl[c].hold)  h == Tail(cl[c].hold)  v == [cl[c] EXCEPT !.hold = h]
  <2>1. cl' = [cl EXCEPT ![c] = v] /\ chan' = [chan EXCEPT ![c] = Append(chan[c], x)]
    <3>1. cl' = [cl EXCEPT ![c] = [cl[c] EXCEPT !.hold = Tail(cl[c].hold)]]
      BY <1>5, Zenon DEF HandOver
    <3>2. chan' = [chan EXCEPT ![c] = Append(chan[c], Head(cl[c].hold))]
      BY <1>5, Zenon DEF HandOver
    <3> QED
      BY <3>1, <3>2, SMTT(60)
  <2>2. x \in Nat /\ h \in Seq(Nat) /\ Range(cl[c].hold) \subseteq {x} \cup Range(h)
    <3>1. x \in Nat /\ h \in Seq(Nat)
      BY <1>2, <1>5, Shortened, SMTT(60)
    <3> QED
      BY <1>2, <1>5, <3>1, RangeShrinks, ZenonT(60)
  <2>3. /\ v \in RtClients /\ v.counted = cl[c].counted /\ v.pc = "hand" /\ v.next = cl[c].next /\ v.at = cl[c].at
        /\ v.hold = h /\ v.unread = cl[c].unread
    <3>1. v \in RtClients
      BY <1>1, <2>2, ClientRecords, ZenonT(60)
    <3> QED
      BY <1>1, <1>2, <3>1, ZenonT(60) DEF RtClients
  <2>4. Append(chan[c], x) \in Seq(Nat) /\ Range(chan[c]) \cup {x} \subseteq Range(Append(chan[c], x))
    <3>1. chan[c] \in Seq(Nat)
      BY <1>1, Zenon
    <3>2. Append(chan[c], x) \in Seq(Nat)
      BY <2>2, <3>1, Appended, SMTT(60)
    <3> QED
      BY <2>2, <3>1, <3>2, RangeGrows, ZenonT(60)
  <2> HIDE DEF x, h, v
  <2>5. chan' \in [Feeds -> Seq(Nat)] /\ chan'[c] = Append(chan[c], x) /\ \A d \in Feeds \ {c} : chan'[d] = chan[d]
    BY <1>1, <2>1, <2>4, SMTT(60)
  <2>6. RtType' /\ RtCount' /\ cl'[c] = v /\ \A d \in Feeds \ {c} : cl'[d] = cl[d]
    BY <1>3, <2>1, <2>3, <2>5, ZenonT(60)
  <2>7. CASE c = P
    <3>1. RtMemory' /\ (rtq'["relay"] = 0 => out' = <<>>)
      BY <1>2, Zenon DEF RtInv, RtMemory
    <3>2. \A m \in Nat : Behind(cl'[P], m) => Behind(cl[P], m)
      BY <1>2, <2>3, <2>6, <2>7, ZenonT(60) DEF Behind
    <3>3. Range(chan[P]) \cup Range(cl[P].hold) \subseteq Range(chan'[P]) \cup Range(cl'[P].hold)
      BY <2>2, <2>3, <2>4, <2>5, <2>6, <2>7, ZenonT(60)
    <3>4. \A m \in Nat : Behind(cl'[P], m) => m \in Arrived(rt'.forwarded, out', rt'.failed, chan'[P], cl'[P].hold)
      BY <1>2, <3>2, <3>3, ZenonT(60) DEF RtInv, RtStream, Arrived
    <3>5. RtStream'
      BY <2>3, <2>6, <2>7, <3>4, ZenonT(60) DEF RtStream
    <3> QED
      BY <2>6, <3>1, <3>5, ZenonT(60) DEF RtInv
  <2>8. CASE c # P
    BY <1>1, <1>2, <2>5, <2>6, <2>8, RtAside, ZenonT(60)
  <2> QED
    BY <2>7, <2>8, SMTT(60)
<1> QED
  BY <1>4, <1>5, SMTT(60)

\* A step of the router or the relay, which change what was passed on and what is remembered.
LEMMA RtPassed ==
  ASSUME RtInv, RtMemory', rt' \in RtRouters, rt'.connected = rt.connected, out' \in Seq(Nat \X Nat),
         chan' \in [Feeds -> Seq(Nat)], rtq' \in [RtKeys -> Int], rtq'["relay"] = 0 => out' = <<>>, UNCHANGED <<made, cl>>,
         MessagesOf(rt.forwarded) \cup MessagesOf(out) \cup rt.failed \cup Range(chan[P])
           \subseteq MessagesOf(rt'.forwarded) \cup MessagesOf(out') \cup rt'.failed \cup Range(chan'[P])
  PROVE  RtInv'
<1>1. RtType'
  BY Zenon DEF RtInv, RtType
<1>2. RtCount'
  BY Zenon DEF RtInv, RtCount
<1>3. Arrived(rt.forwarded, out, rt.failed, chan[P], cl[P].hold)
        \subseteq Arrived(rt'.forwarded, out', rt'.failed, chan'[P], cl'[P].hold)
  BY Zenon DEF Arrived
<1>4. RtStream'
  BY <1>3, ZenonT(60) DEF RtInv, RtStream
<1> QED
  BY <1>1, <1>2, <1>4, ZenonT(60) DEF RtInv

\* recentFeedItemsCleanup.
LEMMA RtCleanup ==
  ASSUME RtInv, Cleanup
  PROVE  RtInv'
<1>1. /\ rt \in RtRouters /\ rtq \in [RtKeys -> Int] /\ chan \in [Feeds -> Seq(Nat)] /\ out \in Seq(Nat \X Nat)
      /\ rt.forwarded \in Seq(Nat \X Nat)
  BY RouterRecords, Zenon DEF RtInv, RtType
<1>2. rt' = Rotated(rt) /\ Used("cleanups") /\ UNCHANGED <<made, cl, chan, out>>
  BY Zenon DEF Cleanup
<1>3. rtq' \in [RtKeys -> Int] /\ rtq'["relay"] = rtq["relay"]
  <2>1. "cleanups" \in RtKeys \ {"relay"}
    BY DEF RtKeys
  <2> QED
    BY <1>1, <1>2, <2>1, RtUses, ZenonT(60)
<1>4. /\ rt'.forwarded = rt.forwarded /\ rt'.failed = rt.failed /\ rt'.connected = rt.connected
      /\ rt'.new = {} /\ rt'.old = rt.new
  BY <1>1, <1>2, Zenon DEF RtRouters, Rotated
<1>5. rt' \in RtRouters
  <2>1. rt.rotations + 1 \in Nat /\ rt.new \in SUBSET Nat
    <3>1. rt.rotations \in Nat /\ rt.new \in SUBSET Nat
      BY <1>1, RouterRecords, Zenon
    <3> QED
      BY <3>1
  <2> QED
    BY <1>1, <1>2, <2>1, ZenonT(60) DEF RtRouters, Rotated
<1>6. RtMemory'
  <2>1. Recalled(rt.forwarded, Rotated(rt)) /\ Recalled(out, Rotated(rt))
    BY <1>1, RotatingRecalls, Zenon DEF RtInv, RtMemory
  <2> QED
    BY <1>2, <1>4, <2>1, ZenonT(60) DEF RtInv, RtMemory
<1>7. rtq'["relay"] = 0 => out' = <<>>
  BY <1>2, <1>3, Zenon DEF RtInv
<1> QED
  BY <1>1, <1>2, <1>3, <1>4, <1>5, <1>6, <1>7, RtPassed, ZenonT(60)

\* The relay broadcasts the next message.
LEMMA RtRelay ==
  ASSUME RtInv, RelayMessage
  PROVE  RtInv'
<1>1. /\ rt \in RtRouters /\ rtq \in [RtKeys -> Int] /\ chan \in [Feeds -> Seq(Nat)] /\ out \in Seq(Nat \X Nat)
      /\ rt.forwarded \in Seq(Nat \X Nat)
  BY RouterRecords, Zenon DEF RtInv, RtType
<1>2. /\ rt' = [rt EXCEPT !.forwarded = Append(rt.forwarded, Head(out))] /\ out' = Tail(out) /\ out # <<>>
      /\ UNCHANGED <<made, cl, chan, rtq>>
  BY <1>1, Zenon DEF RelayMessage, RtRouters
<1>3. Append(rt.forwarded, Head(out)) \in Seq(Nat \X Nat) /\ Tail(out) \in Seq(Nat \X Nat) /\ Head(out) \in Nat \X Nat
  <2>1. Tail(out) \in Seq(Nat \X Nat) /\ Head(out) \in Nat \X Nat
    BY <1>1, <1>2, Shortened, SMTT(60)
  <2> QED
    BY <1>1, <2>1, Appended, SMTT(60)
<1>4. /\ rt' \in RtRouters /\ rt'.forwarded = Append(rt.forwarded, Head(out)) /\ rt'.failed = rt.failed
      /\ rt'.connected = rt.connected /\ rt'.new = rt.new /\ rt'.old = rt.old /\ rt'.rotations = rt.rotations
  BY <1>1, <1>2, <1>3, Zenon DEF RtRouters
<1>5. /\ MessagesOf(out) \subseteq {Head(out)[1]} \cup MessagesOf(out')
      /\ MessagesOf(rt.forwarded) \cup {Head(out)[1]} \subseteq MessagesOf(rt'.forwarded)
  BY <1>1, <1>2, <1>3, <1>4, MessagesGrow, MessagesShrink, ZenonT(60)
<1>6. MessagesOf(rt.forwarded) \cup MessagesOf(out) \cup rt.failed
        \subseteq MessagesOf(rt'.forwarded) \cup MessagesOf(out') \cup rt'.failed
  BY <1>4, <1>5, ZenonT(60)
<1>7. RtMemory'
  <2>1. Apart(rt'.forwarded, out')
    BY <1>1, <1>2, <1>4, RelayKeepsApart, ZenonT(60) DEF RtInv, RtMemory
  <2>2. Recalled(rt'.forwarded, rt) /\ Recalled(out', rt)
    BY <1>1, <1>2, <1>4, RelayRecalls, ZenonT(60) DEF RtInv, RtMemory
  <2>3. \A s : Recalled(s, rt) => Recalled(s, rt')
    BY <1>4, Zenon DEF Recalled
  <2>4. rt.new \cup rt.old \subseteq MessagesOf(rt.forwarded) \cup MessagesOf(out) \cup rt.failed
    BY Zenon DEF RtInv, RtMemory
  <2>5. rt'.new \cup rt'.old \subseteq MessagesOf(rt'.forwarded) \cup MessagesOf(out') \cup rt'.failed
    BY <1>4, <1>6, <2>4, ZenonT(60)
  <2> QED
    BY <2>1, <2>2, <2>3, <2>5, ZenonT(60) DEF RtMemory
<1>8. rtq'["relay"] = 0 => out' = <<>>
  BY <1>2, Zenon DEF RtInv
<1>9. MessagesOf(rt.forwarded) \cup MessagesOf(out) \cup rt.failed \cup Range(chan[P])
        \subseteq MessagesOf(rt'.forwarded) \cup MessagesOf(out') \cup rt'.failed \cup Range(chan'[P])
  BY <1>2, <1>6, Zenon
<1> QED
  BY <1>1, <1>2, <1>3, <1>4, <1>7, <1>8, <1>9, RtPassed, ZenonT(60)

\* A message that is not remembered is passed on, is queued for the relay, or is lost.
LEMMA RtRemembers ==
  ASSUME RtMemory, rt \in RtRouters, rt' \in RtRouters, out \in Seq(Nat \X Nat), NEW m \in Nat,
         m \notin rt.new \cup rt.old,
         rt'.new = rt.new \cup {m}, rt'.old = rt.old, rt'.rotations = rt.rotations,
         \/ /\ rt'.forwarded = Append(rt.forwarded, <<m, rt.rotations>>) /\ out' = out /\ out = <<>>
            /\ rt'.failed = rt.failed
         \/ rt'.forwarded = rt.forwarded /\ out' = out /\ rt'.failed = rt.failed \cup {m}
         \/ /\ rt'.forwarded = rt.forwarded /\ out' = Append(out, <<m, rt.rotations>>)
            /\ rt'.failed = rt.failed
  PROVE  /\ RtMemory' /\ out' \in Seq(Nat \X Nat)
         /\ MessagesOf(rt.forwarded) \cup MessagesOf(out) \cup rt.failed \cup {m}
              \subseteq MessagesOf(rt'.forwarded) \cup MessagesOf(out') \cup rt'.failed
<1> DEFINE e == <<m, rt.rotations>>
<1>1. rt.forwarded \in Seq(Nat \X Nat) /\ rt.rotations \in Nat
  BY RouterRecords, ZenonT(60)
<1>2. e \in Nat \X Nat /\ e[1] = m
  BY <1>1, SMTT(60)
<1>3. /\ MessagesOf(rt.forwarded) \cup {m} \subseteq MessagesOf(Append(rt.forwarded, e))
      /\ MessagesOf(out) \cup {m} \subseteq MessagesOf(Append(out, e))
  <2>1. e \in Nat \X Nat
    BY <1>2, Zenon
  <2>2. /\ MessagesOf(rt.forwarded) \cup {e[1]} \subseteq MessagesOf(Append(rt.forwarded, e))
        /\ MessagesOf(out) \cup {e[1]} \subseteq MessagesOf(Append(out, e))
    BY <1>1, <2>1, MessagesGrow, ZenonT(60)
  <2> QED
    BY <1>2, <2>2, Zenon
<1>4. Recalled(rt.forwarded, rt) /\ Recalled(out, rt) /\ Apart(rt.forwarded, out)
  BY Zenon DEF RtMemory
<1>5. /\ Recalled(rt.forwarded, rt') /\ Recalled(Append(rt.forwarded, e), rt')
      /\ Recalled(out, rt') /\ Recalled(Append(out, e), rt')
  BY <1>1, <1>4, PassingIsRecalled, ZenonT(60)
<1>6. Apart(rt.forwarded, Append(out, e)) /\ (out = <<>> => Apart(Append(rt.forwarded, e), out))
  BY <1>1, <1>4, PassingKeepsApart, ZenonT(60)
<1>7. Append(out, e) \in Seq(Nat \X Nat)
  BY <1>2, Appended, SMTT(60)
<1> HIDE DEF e
<1>8. \/ rt'.forwarded = Append(rt.forwarded, e) /\ out' = out /\ out = <<>> /\ rt'.failed = rt.failed
      \/ rt'.forwarded = rt.forwarded /\ out' = out /\ rt'.failed = rt.failed \cup {m}
      \/ rt'.forwarded = rt.forwarded /\ out' = Append(out, e) /\ rt'.failed = rt.failed
  BY Zenon DEF e
<1>9. Apart(rt'.forwarded, out') /\ Recalled(rt'.forwarded, rt') /\ Recalled(out', rt')
  BY <1>4, <1>5, <1>6, <1>8, ZenonT(60)
<1>10. MessagesOf(rt.forwarded) \cup MessagesOf(out) \cup rt.failed \cup {m}
         \subseteq MessagesOf(rt'.forwarded) \cup MessagesOf(out') \cup rt'.failed
  BY <1>3, <1>8, Zenon
<1>11. rt'.new \cup rt'.old \subseteq MessagesOf(rt'.forwarded) \cup MessagesOf(out') \cup rt'.failed
  <2>1. rt.new \cup rt.old \subseteq MessagesOf(rt.forwarded) \cup MessagesOf(out) \cup rt.failed
    BY Zenon DEF RtMemory
  <2> QED
    BY <1>10, <2>1, ZenonT(60)
<1> QED
  BY <1>7, <1>8, <1>9, <1>10, <1>11, ZenonT(60) DEF RtMemory

\* msgHandler.
LEMMA RtRoute ==
  ASSUME RtInv, NEW c \in Feeds, RouteMessage(c)
  PROVE  RtInv'
<1> DEFINE m == Head(chan[c])  e == <<m, rt.rotations>>
           seen == [rt EXCEPT !.inner = FALSE]
           kept == [seen EXCEPT !.new = seen.new \cup {m}]
<1>1. /\ rt \in RtRouters /\ rtq \in [RtKeys -> Int] /\ chan \in [Feeds -> Seq(Nat)] /\ out \in Seq(Nat \X Nat)
      /\ rt.forwarded \in Seq(Nat \X Nat) /\ P \in Feeds /\ rt.rotations \in Nat /\ RtMemory
      /\ rt.new \in SUBSET Nat /\ rt.failed \in SUBSET Nat
  BY RouterRecords, Zenon DEF RtInv, RtType, Feeds
<1>2. chan[c] # <<>> /\ chan' = [chan EXCEPT ![c] = Tail(chan[c])] /\ UNCHANGED <<made, cl>>
  BY Zenon DEF RouteMessage
<1>3. m \in Nat /\ Tail(chan[c]) \in Seq(Nat) /\ Range(chan[c]) \subseteq {m} \cup Range(Tail(chan[c]))
  <2>1. chan[c] \in Seq(Nat)
    BY <1>1, Zenon
  <2>2. m \in Nat /\ Tail(chan[c]) \in Seq(Nat)
    BY <1>2, <2>1, Shortened, SMTT(60)
  <2> QED
    BY <1>2, <2>1, <2>2, RangeShrinks, ZenonT(60)
<1>4. /\ chan' \in [Feeds -> Seq(Nat)] /\ Range(chan[P]) \subseteq {m} \cup Range(chan'[P])
  <2>1. chan' \in [Feeds -> Seq(Nat)] /\ chan'[c] = Tail(chan[c]) /\ \A d \in Feeds \ {c} : chan'[d] = chan[d]
    BY <1>1, <1>2, <1>3, SMTT(60)
  <2> QED
    BY <1>1, <1>3, <2>1, ZenonT(60)
<1>5. /\ seen \in RtRouters /\ seen.new = rt.new /\ seen.old = rt.old /\ seen.rotations = rt.rotations
      /\ seen.forwarded = rt.forwarded /\ seen.failed = rt.failed /\ seen.connected = rt.connected
  BY <1>1, RouterChanges, Zenon
<1>6. /\ kept \in RtRouters /\ kept.new = rt.new \cup {m} /\ kept.old = rt.old /\ kept.rotations = rt.rotations
      /\ kept.forwarded = rt.forwarded /\ kept.failed = rt.failed /\ kept.connected = rt.connected
  <2>1. seen.new \cup {m} \in SUBSET Nat
    BY <1>1, <1>3, <1>5, ZenonT(60)
  <2> HIDE DEF seen, m
  <2> QED
    BY <1>5, <2>1, Zenon DEF RtRouters
<1>7. \/ m \in rt.new \cup rt.old /\ rt' = seen /\ UNCHANGED <<out, rtq>>
      \/ /\ m \notin rt.new \cup rt.old /\ rtq["relay"] = 0
         /\ rt' = [kept EXCEPT !.forwarded = Append(kept.forwarded, e)] /\ UNCHANGED <<out, rtq>>
      \/ /\ m \notin rt.new \cup rt.old /\ rtq["relay"] = 0 /\ Used("failures")
         /\ rt' = [kept EXCEPT !.failed = kept.failed \cup {m}] /\ UNCHANGED out
      \/ /\ m \notin rt.new \cup rt.old /\ rtq["relay"] = 1
         /\ rt' = kept /\ out' = Append(out, e) /\ UNCHANGED rtq
  BY Zenon DEF RouteMessage
<1>8. Append(rt.forwarded, e) \in Seq(Nat \X Nat)
  <2>1. e \in Nat \X Nat
    BY <1>1, <1>3, Zenon
  <2> QED
    BY SMTT(60), <1>1, <2>1, Appended
<1> HIDE DEF m, e, seen, kept
<1>9. rtq' \in [RtKeys -> Int] /\ rtq'["relay"] = rtq["relay"]
  <2>1. "failures" \in RtKeys \ {"relay"}
    BY DEF RtKeys
  <2>2. Used("failures") \/ UNCHANGED rtq
    BY <1>7, ZenonT(60)
  <2> QED
    BY <1>1, <2>1, <2>2, RtUses, ZenonT(60)
<1>10. CASE m \in rt.new \cup rt.old
  <2>1. rt' = seen /\ UNCHANGED <<out, rtq>>
    BY <1>7, <1>10, Zenon
  <2>2. \A s : Recalled(s, rt) => Recalled(s, rt')
    BY <1>5, <2>1, ZenonT(60) DEF Recalled
  <2>3. RtMemory'
    BY <1>1, <1>5, <2>1, <2>2, ZenonT(60) DEF RtMemory
  <2>4. m \in MessagesOf(rt.forwarded) \cup MessagesOf(out) \cup rt.failed
    BY <1>1, <1>10, ZenonT(60) DEF RtMemory
  <2>5. MessagesOf(rt.forwarded) \cup MessagesOf(out) \cup rt.failed \cup Range(chan[P])
          \subseteq MessagesOf(rt'.forwarded) \cup MessagesOf(out') \cup rt'.failed \cup Range(chan'[P])
    BY <1>4, <1>5, <2>1, <2>4, ZenonT(60)
  <2>6. rtq'["relay"] = 0 => out' = <<>>
    BY <2>1, Zenon DEF RtInv
  <2> QED
    BY <1>1, <1>2, <1>4, <1>5, <1>9, <2>1, <2>3, <2>5, <2>6, RtPassed, ZenonT(60)
<1>11. CASE m \notin rt.new \cup rt.old
  <2>1. /\ rt' \in RtRouters /\ rt'.connected = rt.connected
        /\ rt'.new = rt.new \cup {m} /\ rt'.old = rt.old /\ rt'.rotations = rt.rotations
        /\ \/ rt'.forwarded = Append(rt.forwarded, e) /\ out' = out /\ out = <<>> /\ rt'.failed = rt.failed
           \/ rt'.forwarded = rt.forwarded /\ out' = out /\ rt'.failed = rt.failed \cup {m}
           \/ rt'.forwarded = rt.forwarded /\ out' = Append(out, e) /\ rt'.failed = rt.failed
        /\ rtq'["relay"] = 0 => out' = <<>>
    <3>1. rtq["relay"] = 0 => out = <<>>
      BY Zenon DEF RtInv
    <3>2. CASE rtq["relay"] = 0 /\ rt' = [kept EXCEPT !.forwarded = Append(kept.forwarded, e)] /\ UNCHANGED <<out, rtq>>
      <4>1. rt' = [kept EXCEPT !.forwarded = Append(rt.forwarded, e)]
        BY <1>6, <3>2, Zenon
      <4> QED
        BY <1>6, <1>8, <3>1, <3>2, <4>1, ZenonT(60) DEF RtRouters
    <3>3. CASE rtq["relay"] = 0 /\ rt' = [kept EXCEPT !.failed = kept.failed \cup {m}] /\ UNCHANGED out
      <4>1. rt' = [kept EXCEPT !.failed = rt.failed \cup {m}] /\ rt.failed \cup {m} \in SUBSET Nat
        BY <1>1, <1>3, <1>6, <3>3, ZenonT(60)
      <4> QED
        BY <1>6, <3>1, <3>3, <4>1, ZenonT(60) DEF RtRouters
    <3>4. CASE rtq["relay"] = 1 /\ rt' = kept /\ out' = Append(out, e) /\ UNCHANGED rtq
      <4>1. rtq'["relay"] # 0
        BY <3>4, SMTT(60)
      <4> QED
        BY <1>6, <3>4, <4>1, ZenonT(60)
    <3> QED
      BY <1>7, <1>11, <3>2, <3>3, <3>4, ZenonT(60)
  <2>2. /\ RtMemory' /\ out' \in Seq(Nat \X Nat)
        /\ MessagesOf(rt.forwarded) \cup MessagesOf(out) \cup rt.failed \cup {m}
             \subseteq MessagesOf(rt'.forwarded) \cup MessagesOf(out') \cup rt'.failed
    BY <1>1, <1>3, <1>11, <2>1, RtRemembers, ZenonT(60) DEF e
  <2>3. MessagesOf(rt.forwarded) \cup MessagesOf(out) \cup rt.failed \cup Range(chan[P])
          \subseteq MessagesOf(rt'.forwarded) \cup MessagesOf(out') \cup rt'.failed \cup Range(chan'[P])
    BY <1>4, <2>2, ZenonT(60)
  <2> QED
    BY <1>2, <1>4, <1>9, <2>1, <2>2, <2>3, RtPassed, ZenonT(60)
<1> QED
  BY <1>10, <1>11, SMTT(60)

\* Every step of the router keeps the invariant.
LEMMA RtStep == RtInv /\ [RtNext]_rtvars => RtInv'
<1> SUFFICES ASSUME RtInv, [RtNext]_rtvars
             PROVE  RtInv'
  OBVIOUS
<1>1. CASE UNCHANGED rtvars
  <2>1. made' = made /\ cl' = cl /\ chan' = chan /\ rt' = rt /\ out' = out /\ rtq' = rtq
    BY <1>1, Zenon DEF rtvars
  <2>2. RtType' /\ RtCount'
    BY <2>1, Zenon DEF RtInv, RtType, RtCount
  <2> QED
    BY <2>1, <2>2, RtAside, ZenonT(60)
<1>2. CASE RtNext
  <2>1. CASE \E c \in Feeds : \/ Dial(c) \/ ReadMessages(c) \/ FrameIgnored(c)
                                  \/ HandOver(c) \/ WrongServer(c) \/ ReadFails(c)
    BY <2>1, RtDial, RtReadMessages, RtIgnored, RtHandOver, RtWrongServer, RtReadFails, ZenonT(60)
  <2>2. CASE EnterInner \/ PrimaryIsDown \/ StopSecondaryFeed \/ Produce
    BY <2>2, RtIdle, Zenon
  <2>3. CASE SecondaryStopped \/ StartSecondaryFeed
    BY <2>3, RtStopped, RtStartSecondary, ZenonT(60)
  <2>4. CASE \E c \in Feeds : RouteMessage(c)
    BY <2>4, RtRoute, Zenon
  <2>5. CASE RelayMessage \/ Cleanup
    BY <2>5, RtRelay, RtCleanup, Zenon
  <2> QED
    BY <1>2, <2>1, <2>2, <2>3, <2>4, <2>5, ZenonT(60) DEF RtNext, ClientSteps, RouterSteps
<1> QED
  BY <1>1, <1>2, SMTT(60)

\* The invariant gives what the relay and the node rely on.
LEMMA RtSafe == RtInv => FeedPassedOn
<1> SUFFICES ASSUME RtInv
             PROVE  FeedPassedOn
  OBVIOUS
<1>1. rt \in RtRouters /\ out \in Seq(Nat \X Nat) /\ cl \in [Feeds -> RtClients] /\ P \in Feeds /\ S \in Feeds
  BY Zenon DEF RtInv, RtType, Feeds
<1>2. rt.forwarded \in Seq(Nat \X Nat) /\ rt.connected \in Int /\ cl[P].next \in Nat
  BY <1>1, RouterRecords, ClientRecords, ZenonT(60)
<1>3. DOMAIN rt.forwarded = 1 .. Len(rt.forwarded) /\ DOMAIN out = 1 .. Len(out)
  BY <1>1, <1>2, SMTT(60)
<1>4. PassedOnce
  BY <1>3, Zenon DEF PassedOnce, RtInv, RtMemory, Apart
<1>5. NoMessageSkipped
  <2>1. \A m \in 0 .. cl[P].next - 1 : m \in Nat /\ m < cl[P].next
    BY <1>2
  <2>2. PassedOn = MessagesOf(rt.forwarded) \cup MessagesOf(out)
    BY <1>3, Zenon DEF PassedOn, MessagesOf
  <2>3. \A m \in 0 .. cl[P].next - 1 :
          m \in cl[P].unread \/ m \in Arrived(rt.forwarded, out, rt.failed, chan[P], cl[P].hold)
    BY <2>1, Zenon DEF RtInv, RtStream, Behind
  <2> QED
    BY <2>2, <2>3, Zenon DEF NoMessageSkipped, Arrived
<1>6. ConnectedCounted
  <2> DEFINE D == {c \in Feeds : cl[c].counted}
  <2>1. rt.connected >= AsOne(cl[P]) + AsOne(cl[S])
    BY Zenon DEF RtInv, RtCount
  <2>2. P # S /\ Feeds = {P, S}
    BY Zenon DEF P, S, Feeds
  <2>3. /\ cl[P].counted /\ cl[S].counted => D = {P, S}
        /\ cl[P].counted /\ ~cl[S].counted => D = {P}
        /\ ~cl[P].counted /\ cl[S].counted => D = {S}
        /\ ~cl[P].counted /\ ~cl[S].counted => D = {}
    BY <2>2, Zenon
  <2>4. /\ Cardinality({}) = 0 /\ Cardinality({P}) = 1 /\ Cardinality({S}) = 1 /\ Cardinality({P, S}) = 2
    <3>1. {P, S} = {P} \cup {S} /\ S \notin {P}
      BY <2>2, Zenon
    <3>2. Cardinality({}) = 0 /\ Cardinality({P}) = 1 /\ Cardinality({S}) = 1 /\ IsFiniteSet({P})
      BY FS_EmptySet, FS_Singleton, ZenonT(60)
    <3>3. Cardinality({P} \cup {S}) = Cardinality({P}) + 1
      BY <3>1, <3>2, FS_AddElement, ZenonT(60)
    <3> QED
      BY <3>1, <3>2, <3>3, SMTT(60)
  <2> HIDE DEF D
  <2>5. Cardinality(D) = AsOne(cl[P]) + AsOne(cl[S])
    BY <2>3, <2>4, SMTT(60) DEF AsOne
  <2> QED
    BY <2>1, <2>5, ZenonT(60) DEF ConnectedCounted, D
<1> QED
  BY <1>4, <1>5, <1>6, ZenonT(60) DEF FeedPassedOn

\* The router starts with nothing subscribed and nothing waiting.
LEMMA RtStarts == RtInit => RtInv
<1> SUFFICES ASSUME RtInit
             PROVE  RtInv
  OBVIOUS
<1>1. /\ rtq \in RtScenarios /\ made = 0 /\ chan = [c \in Feeds |-> <<>>] /\ out = <<>>
      /\ cl = [c \in Feeds |-> NewClientFor(IF c = P THEN "dial" ELSE "off")]
      /\ rt = [pc |-> "run", inner |-> FALSE, new |-> {}, old |-> {}, rotations |-> 0,
               forwarded |-> <<>>, failed |-> {}, connected |-> 0, fatal |-> FALSE]
  BY Zenon DEF RtInit
<1>2. rtq \in [RtKeys -> Int] /\ made \in Nat
  BY <1>1, RtAssumption, SMTT(60)
<1>3. \A pc \in {"dial", "off"} : NewClientFor(pc) \in RtClients
  BY DEF NewClientFor, RtClients
<1>4. cl \in [Feeds -> RtClients] /\ P \in Feeds /\ S \in Feeds
  <2>1. \A c \in Feeds : NewClientFor(IF c = P THEN "dial" ELSE "off") \in RtClients
    BY <1>3, Zenon
  <2> QED
    BY <1>1, <2>1, Zenon DEF Feeds
<1>5. \A T : <<>> \in Seq(T)
  OBVIOUS
<1>6. chan \in [Feeds -> Seq(Nat)] /\ out \in Seq(Nat \X Nat)
  BY <1>1, <1>5, Zenon
<1>7. rt \in RtRouters
  <2>1. 0 \in Nat /\ 0 \in Int
    OBVIOUS
  <2> QED
    BY <1>1, <1>5, <2>1, Zenon DEF RtRouters
<1>8. rt.forwarded = <<>> /\ rt.new = {} /\ rt.old = {} /\ rt.connected = 0
  BY <1>1, Zenon
<1>9. 1 .. Len(<<>>) = {}
  OBVIOUS
<1>10. RtMemory
  BY <1>1, <1>8, <1>9, Zenon DEF RtMemory, Apart, Recalled
<1>11. RtStream
  <2>1. cl[P].hold = <<>> /\ cl[P].next = 0 /\ cl[P].pc = "dial"
    BY <1>1, <1>4, Zenon DEF NewClientFor
  <2>2. \A m \in Nat : ~(m < 0)
    OBVIOUS
  <2> QED
    BY <2>1, <2>2, Zenon DEF RtStream, Behind
<1>12. RtCount
  <2>1. \A c \in Feeds : ~cl[c].counted
    BY <1>1, Zenon DEF NewClientFor
  <2>2. AsOne(cl[P]) = 0 /\ AsOne(cl[S]) = 0
    BY <1>4, <2>1, Zenon DEF AsOne
  <2> QED
    BY <1>8, <2>2, SMTT(60) DEF RtCount
<1> QED
  BY <1>1, <1>2, <1>4, <1>6, <1>7, <1>10, <1>11, <1>12, ZenonT(60) DEF RtInv, RtType

\* For every number of messages and of queue places, whatever connections break, feeds start
\* and stop and hand overs fail: a message is passed on twice only if the memory of recent
\* messages was rotated twice in between, none that the primary client is done with is missing,
\* and the count of connected feeds is not too low (msgHandler, startBackgroundReader,
\* stopSecondaryFeed, adjustCount).
THEOREM FeedIsPassedOn == RtSpec => []FeedPassedOn
<1>1. RtInit => RtInv
  BY RtStarts
<1>2. RtInv => FeedPassedOn
  BY RtSafe
<1> QED
  BY <1>1, <1>2, RtStep, PTL DEF RtSpec
=============================================================================
