---------------------- MODULE SeqCoordinatorProofs ----------------------
(*****************************************************************************)
(* The safety properties of SeqCoordinator, for every set of nodes and       *)
(* messages and every value of the bounds: what its helpers preserve, that   *)
(* each step keeps IInv, and what follows.                                   *)
(*****************************************************************************)
EXTENDS SeqCoordinator, TLAPS

(***************************************************************************)
(* The helpers, the shared acquisition, the lease's upkeep, taking over,   *)
(* shutting down and the clock.                                            *)
(***************************************************************************)

\* The count in Redis is a number.
LEMMA CountType ==
  ASSUME TypeOK
  PROVE  msgCount \in 0 .. MaxMsgs /\ msgCount \in Nat
<1>1. msgCount \in 0 .. MaxMsgs
  BY Zenon DEF TypeOK
<1> QED BY <1>1

\* No node has started: the invariant holds of an empty redis.
LEMMA InitInv == Init => IInv
<1> SUFFICES ASSUME Init PROVE IInv
  OBVIOUS
<1> USE NodesAssumption, BoundsAssumption DEF NodesAssumption, BoundsAssumption
<1>1. TypeOK
  BY DEF Init, TypeOK, Positions, MaybeNode, MaybeMsg, NoAcq, Acqs, NoSeq, Seqs,
         NoUpdate, Updates, UpdatePcs
<1>2. LogComplete /\ LogsAgree
  BY DEF Init, LogComplete, LogsAgree, Positions
<1>3. \A n \in Nodes : NodeInv(n)
  BY Zenon DEF Init, NodeInv, Undisturbed, AcqCaller, SeqThread, UpdThread, NoAcq, NoSeq,
         NoUpdate
<1> QED BY <1>1, <1>2, <1>3, Zenon DEF IInv

(***************************************************************************)
(* Facts about the helpers.                                                *)
(***************************************************************************)
\* A write to a watched key only turns a watching call into one that will be refused.
LEMMA DirtyAcqsFacts ==
  ASSUME TypeOK
  PROVE  /\ DirtyAcqs \in [Nodes -> Acqs]
         /\ \A m \in Nodes :
              /\ DirtyAcqs[m].st = IF acq[m].st = "watch" THEN "dirty" ELSE acq[m].st
              /\ DirtyAcqs[m].by = acq[m].by /\ DirtyAcqs[m].exp = acq[m].exp
              /\ DirtyAcqs[m].msg = acq[m].msg
<1> SUFFICES ASSUME NEW m \in Nodes
             PROVE  /\ DirtyAcqs[m] \in Acqs
                    /\ DirtyAcqs[m].st =
                         IF acq[m].st = "watch" THEN "dirty" ELSE acq[m].st
                    /\ DirtyAcqs[m].by = acq[m].by /\ DirtyAcqs[m].exp = acq[m].exp
                    /\ DirtyAcqs[m].msg = acq[m].msg
  BY Zenon DEF DirtyAcqs
<1>1. acq[m] \in Acqs
  BY Zenon DEF TypeOK
<1>2. DirtyAcqs[m] = [acq[m] EXCEPT !.st = IF @ = "watch" THEN "dirty" ELSE @]
  BY Zenon DEF DirtyAcqs
<1> QED BY <1>1, <1>2, Zenon DEF Acqs

\* Moving the update loop of one node touches no other node.
LEMMA GotoFacts ==
  ASSUME TypeOK, NEW n \in Nodes, NEW pc \in UpdatePcs, Goto(n, pc)
  PROVE  /\ upd' \in [Nodes -> Updates]
         /\ \A m \in Nodes \ {n} : upd'[m] = upd[m]
         /\ upd'[n].pc = pc
         /\ pc \in {"keep", "keeping", "take", "taking"} => upd'[n].exp = upd[n].exp
<1>1. upd \in [Nodes -> Updates] /\ upd[n] \in Updates
  BY Zenon DEF TypeOK
<1>2. NoUpdate \in Updates
  BY BoundsAssumption DEF BoundsAssumption, NoUpdate, Updates, UpdatePcs, MaybeNode
<1>3. CASE pc \in {"keep", "keeping", "take", "taking"}
  <2>1. upd' = [upd EXCEPT ![n] = [upd[n] EXCEPT !.pc = pc]]
    BY <1>3, <1>1, Zenon DEF Goto
  <2>2. [upd[n] EXCEPT !.pc = pc] \in Updates
    BY <1>1, Zenon DEF Updates
  <2> QED BY <2>1, <2>2, <1>1, Zenon DEF Updates
<1>4. CASE pc \notin {"keep", "keeping", "take", "taking"}
  <2>1. upd' = [upd EXCEPT ![n] = [NoUpdate EXCEPT !.pc = pc]]
    BY <1>4, Zenon DEF Goto
  <2>2. [NoUpdate EXCEPT !.pc = pc] \in Updates
    BY <1>2, Zenon DEF Updates
  <2>3. [NoUpdate EXCEPT !.pc = pc].pc = pc
    BY DEF NoUpdate
  <2> QED BY <2>1, <2>2, <2>3, <1>1, <1>4, Zenon
<1> QED BY <1>3, <1>4, Zenon

\* A resting update loop holds no lease call in flight.
LEMMA RestingType == Resting \in UpdatePcs \ {"keep", "keeping", "take", "taking"}
BY Zenon DEF Resting, UpdatePcs

\* What is published stays published.
LEMMA PublishedStable ==
  ASSUME IInv, NEW m \in Nodes, seq'[m] = seq[m], seq[m].st # "idle", Published(m),
         msgCount <= msgCount', msgCount' \in Nat,
         \A p \in Positions : msgs[p] # None => msgs'[p] = msgs[p]
  PROVE  Published(m)'
BY SMTT(60), BoundsAssumption, NodesAssumption
DEF BoundsAssumption, NodesAssumption, IInv, NodeInv, SeqThread, Published,
    TypeOK, Positions, Seqs

(***************************************************************************)
(* What another node's step may do to node m: its open transaction gets    *)
(* dirty, or nothing it watches changes for the worse; the log in Redis    *)
(* only grows.                                                             *)
(***************************************************************************)
\* A step that leaves a node and the keys alone leaves its part of the invariant.
LEMMA NodeStable ==
  ASSUME IInv, NEW m \in Nodes,
         seq'[m] = seq[m], log'[m] = log[m],
         \/ upd'[m] = upd[m] \/ UpdThread(m)'
         \/ upd'[m].pc \notin {"keep", "take", "keeping", "taking"},
         acq'[m].by = acq[m].by, acq'[m].exp = acq[m].exp, acq'[m].msg = acq[m].msg,
         acq'[m].st = acq[m].st \/ (acq[m].st = "watch" /\ acq'[m].st = "dirty"),
         acq'[m].st = "watch" => chosen' \in {None, chosen} /\ msgCount' = msgCount,
         msgCount <= msgCount', msgCount' \in Nat,
         \A p \in Positions : msgs[p] # None => msgs'[p] = msgs[p]
  PROVE  NodeInv(m)'
<1>1. Undisturbed(m)'
  BY Zenon DEF IInv, NodeInv, Undisturbed
<1>2. AcqCaller(m)'
  BY ZenonT(60) DEF IInv, NodeInv, AcqCaller
<1>3. UpdThread(m)'
  BY Zenon DEF IInv, NodeInv, UpdThread
<1>4. Published(m) /\ seq[m].st # "idle" => Published(m)'
  BY PublishedStable, Zenon
<1>5. SeqThread(m)'
  BY <1>4, ZenonT(60) DEF IInv, NodeInv, SeqThread, AcqCaller
<1> QED BY <1>1, <1>2, <1>3, <1>5 DEF NodeInv

(***************************************************************************)
(* The EXEC of an undisturbed transaction: it appends the message at the   *)
(* end of the log or leaves the log alone.                                 *)
(***************************************************************************)
\* What the transaction of acquireLockoutAndWriteMessage writes, when redis runs it.
LEMMA WritesFacts ==
  ASSUME IInv, NEW n \in Nodes, acq[n].st = "watch", AcquireWrites(n), log' = log
  PROVE  /\ chosen \in {None, n} /\ chosen' \in {None, n}
         /\ chosenTtl' \in 0 .. LockoutDuration
         /\ wants' \in [Nodes -> 0 .. LockoutDuration]
         /\ release' \in [Nodes -> {"none", "clean", "dirty"}]
         /\ msgCount' \in 0 .. MaxMsgs /\ msgs' \in [Positions -> MaybeMsg]
         /\ \/ msgCount' = msgCount /\ msgs' = msgs /\ acq[n].by = "update"
            \/ /\ acq[n].by = "seq" /\ msgCount' = msgCount + 1
               /\ msgCount \in Positions
               /\ seq[n].pos = msgCount /\ seq[n].msg \in Msgs
               /\ Len(log[n]) = msgCount
               /\ msgs' = [msgs EXCEPT ![msgCount] = seq[n].msg]
         /\ LogComplete' /\ LogsAgree'
         /\ msgCount <= msgCount'
         /\ \A q \in Positions : msgs[q] # None => msgs'[q] = msgs[q]
<1> USE NodesAssumption, BoundsAssumption DEF NodesAssumption, BoundsAssumption
<1> DEFINE a == acq[n]
<1>1. a \in Acqs /\ NodeInv(n)
  BY Zenon DEF IInv, TypeOK
<1>2. /\ Len(log[n]) \in Nat /\ Len(log[n]) <= msgCount /\ msgCount \in Nat
      /\ a.exp \in Nat /\ msgCount <= a.exp /\ chosen \in {None, n}
  BY SMTT(60), <1>1 DEF IInv, TypeOK, LogsAgree, Acqs, NodeInv, Undisturbed
<1>3. a.by \in {"seq", "update"}
  BY <1>1, Zenon DEF NodeInv, AcqCaller
<1>4. a.by = "update" => a.msg = None /\ a.exp = msgCount
  BY SMTT(60), <1>1, <1>2 DEF NodeInv, AcqCaller
<1>5. a.by = "seq" => /\ a.msg = seq[n].msg /\ a.msg \in Msgs /\ a.exp = msgCount
                      /\ seq[n].pos = msgCount /\ msgCount < MaxMsgs
                      /\ Len(log[n]) = msgCount
  BY <1>1, <1>2, SMTT(60) DEF NodeInv, AcqCaller, SeqThread
<1>6. /\ chosen' \in {None, n} /\ chosenTtl' \in 0 .. LockoutDuration
      /\ wants' \in [Nodes -> 0 .. LockoutDuration]
  BY <1>1, Zenon DEF IInv, TypeOK, AcquireWrites, Acqs
<1>7. release' \in [Nodes -> {"none", "clean", "dirty"}]
  BY Zenon DEF IInv, TypeOK, AcquireWrites, DirtyReleases
<1>8. \/ msgCount' = msgCount /\ msgs' = msgs /\ a.by = "update"
      \/ /\ a.by = "seq" /\ msgCount' = msgCount + 1
         /\ msgCount \in Positions
         /\ seq[n].pos = msgCount /\ seq[n].msg \in Msgs
         /\ Len(log[n]) = msgCount
         /\ msgs' = [msgs EXCEPT ![msgCount] = seq[n].msg]
  <2>1. CASE a.by = "update"
    BY <2>1, <1>4, Zenon DEF AcquireWrites
  <2>2. CASE a.by = "seq"
    <3>1. a.msg # None /\ msgCount \in Positions
      BY <2>2, <1>2, <1>5 DEF Positions
    <3>2. msgCount' = msgCount + 1 /\ msgs' = [msgs EXCEPT ![msgCount] = seq[n].msg]
      BY <2>2, <3>1, <1>5, Zenon DEF AcquireWrites
    <3> QED BY <2>2, <3>1, <3>2, <1>5, Zenon
  <2> QED BY <1>3, <2>1, <2>2, Zenon
<1>9. msgCount' \in 0 .. MaxMsgs /\ msgs' \in [Positions -> MaybeMsg]
  <2>1. msgCount \in 0 .. MaxMsgs /\ msgs \in [Positions -> MaybeMsg]
    BY Zenon DEF IInv, TypeOK
  <2>2. msgCount' \in 0 .. MaxMsgs
    BY <1>8, <2>1 DEF Positions
  <2>3. msgs' \in [Positions -> MaybeMsg]
    BY <1>8, <2>1, Zenon DEF MaybeMsg
  <2> QED BY <2>2, <2>3, Zenon
<1>10. LogComplete'
  BY SMTT(60), <1>8, <1>2 DEF IInv, TypeOK, LogComplete, Positions
<1>11. /\ msgCount <= msgCount'
       /\ \A q \in Positions : msgs[q] # None => msgs'[q] = msgs[q]
  BY SMTT(60), <1>8, <1>2 DEF IInv, TypeOK, LogComplete, Positions
<1>12. LogsAgree'
  <2> SUFFICES ASSUME NEW m \in Nodes
               PROVE  /\ Len(log[m]) <= msgCount'
                      /\ \A i \in 1 .. Len(log[m]) : log[m][i] = msgs'[i - 1]
    BY Zenon DEF LogsAgree
  <2>1. /\ Len(log[m]) \in Nat /\ Len(log[m]) <= msgCount
        /\ \A i \in 1 .. Len(log[m]) : log[m][i] = msgs[i - 1]
    BY SMTT(60) DEF IInv, TypeOK, LogsAgree
  <2>2. \A i \in 1 .. Len(log[m]) : i - 1 \in Positions /\ i - 1 < msgCount
    BY <2>1 DEF IInv, TypeOK, Positions
  <2>3. \A i \in 1 .. Len(log[m]) : msgs[i - 1] # None
    BY <2>2, Zenon DEF IInv, LogComplete
  <2>4. \A i \in 1 .. Len(log[m]) : msgs'[i - 1] = msgs[i - 1]
    BY <2>2, <2>3, <1>11, Zenon
  <2>5. Len(log[m]) <= msgCount'
    BY <2>1, <1>9, <1>11, <1>2, SMTT(60)
  <2> QED BY <2>1, <2>4, <2>5, Zenon
<1> QED BY <1>2, <1>6, <1>7, <1>8, <1>9, <1>10, <1>11, <1>12, Zenon

\* redis runs the transaction of acquireLockoutAndWriteMessage.
LEMMA AcquireExecInv ==
  ASSUME IInv, NEW n \in Nodes, AcquireExec(n)
  PROVE  IInv'
<1> DEFINE D == DirtyAcqs
<1>1. /\ acq[n].st = "watch" /\ AcquireWrites(n) /\ log' = log
      /\ acq' = [D EXCEPT ![n].st = "post"]
      /\ UNCHANGED <<node, upd, seq, faults>>
  BY Zenon DEF AcquireExec, node
<1>2. TypeOK /\ NodeInv(n)
  BY Zenon DEF IInv
<1>3. /\ D \in [Nodes -> Acqs]
      /\ \A m \in Nodes :
              /\ D[m].st = IF acq[m].st = "watch" THEN "dirty" ELSE acq[m].st
              /\ D[m].by = acq[m].by /\ D[m].exp = acq[m].exp /\ D[m].msg = acq[m].msg
  BY <1>2, DirtyAcqsFacts, Zenon
<1> HIDE DEF D
<1>4. /\ acq' \in [Nodes -> Acqs]
      /\ acq'[n].st = "post" /\ acq'[n].by = acq[n].by /\ acq'[n].exp = acq[n].exp
      /\ acq'[n].msg = acq[n].msg
      /\ \A m \in Nodes \ {n} : acq'[m] = D[m]
  BY <1>1, <1>3 DEF Acqs
<1>5. TypeOK'
  BY <1>1, <1>2, <1>4, WritesFacts, Zenon DEF TypeOK, node, MaybeNode
<1>w. /\ msgCount <= msgCount' /\ msgCount' \in Nat
      /\ \A q \in Positions : msgs[q] # None => msgs'[q] = msgs[q]
  <2>1. msgCount' \in 0 .. MaxMsgs
    BY <1>1, WritesFacts, Zenon
  <2> QED BY <1>1, <2>1, WritesFacts
<1>6. LogComplete' /\ LogsAgree'
  BY <1>1, WritesFacts, Zenon
<1>7. ASSUME NEW m \in Nodes, m # n PROVE NodeInv(m)'
  <2>1. /\ acq'[m].by = acq[m].by /\ acq'[m].exp = acq[m].exp /\ acq'[m].msg = acq[m].msg
        /\ acq'[m].st = IF acq[m].st = "watch" THEN "dirty" ELSE acq[m].st
    BY <1>3, <1>4, <1>7, ZenonT(60)
  <2>2. seq'[m] = seq[m] /\ log'[m] = log[m] /\ upd'[m] = upd[m]
    BY <1>1, Zenon
  <2> QED BY <2>1, <2>2, <1>w, NodeStable, Zenon
<1>8. NodeInv(n)'
  <2>1. Undisturbed(n)'
    BY <1>4, Zenon DEF Undisturbed
  <2>2. AcqCaller(n)'
    BY <1>1, <1>2, <1>4, ZenonT(60) DEF NodeInv, AcqCaller
  <2>3. UpdThread(n)'
    BY <1>1, <1>2, Zenon DEF NodeInv, UpdThread, node
  <2>4. acq[n].by = "seq" => Published(n)'
    BY SMTT(60), <1>1, <1>2, WritesFacts DEF Published, TypeOK
  <2>5. seq[n].st = "write" => Published(n)'
    BY <1>1, <1>2, <1>w, PublishedStable, Zenon DEF NodeInv, SeqThread
  <2>6. SeqThread(n)'
    BY <1>1, <1>2, <1>4, <2>4, <2>5, Zenon DEF NodeInv, AcqCaller, SeqThread
  <2> QED BY <2>1, <2>2, <2>3, <2>6, Zenon DEF NodeInv
<1> QED BY <1>5, <1>6, <1>7, <1>8, Zenon DEF IInv

\* The values of threads that are not in a call are of the right types.
LEMMA IdleTypes == /\ NoAcq \in Acqs /\ NoAcq.st = "none"
                   /\ NoSeq \in Seqs /\ NoSeq.st = "idle"
                   /\ NoUpdate \in Updates /\ NoUpdate.pc = "idle"
BY SMTT(60), BoundsAssumption DEF BoundsAssumption, NoAcq, Acqs, NoSeq, Seqs, NoUpdate, Updates,
   UpdatePcs, MaybeMsg, MaybeNode

\* What a refused call of acquireLockoutAndWriteMessage does to its caller.
LEMMA RefusedFacts ==
  ASSUME TypeOK, NEW n \in Nodes, NEW by, AcquireRefused(n, by)
  PROVE  /\ upd' \in [Nodes -> Updates] /\ seq' \in [Nodes -> Seqs]
         /\ prevChosen' \in [Nodes -> MaybeNode]
         /\ \A m \in Nodes \ {n} : upd'[m] = upd[m] /\ seq'[m] = seq[m]
         /\ upd'[n] = upd[n] \/ upd'[n].pc \notin {"keep", "take", "keeping", "taking"}
         /\ seq'[n] \in {seq[n], NoSeq}
         /\ by = "seq" => seq'[n] = NoSeq
         /\ by # "seq" => seq' = seq
<1>1. /\ upd \in [Nodes -> Updates] /\ seq \in [Nodes -> Seqs]
      /\ prevChosen \in [Nodes -> MaybeNode] /\ NoSeq \in Seqs
  BY IdleTypes, Zenon DEF TypeOK
<1>2. CASE by = "seq"
  BY <1>1, <1>2, Zenon DEF AcquireRefused
<1>3. CASE by # "seq"
  <2>1. PICK pc \in {"retryWants", Resting} : Goto(n, pc)
    BY <1>3, Zenon DEF AcquireRefused
  <2>2. pc \in UpdatePcs \ {"keep", "keeping", "take", "taking"}
    BY RestingType, Zenon DEF UpdatePcs
  <2>3. prevChosen' \in [Nodes -> MaybeNode] /\ seq' = seq
    BY <1>1, <1>3, Zenon DEF AcquireRefused, MaybeNode
  <2> QED BY <1>1, <1>3, <2>1, <2>2, <2>3, GotoFacts, Zenon
<1> QED BY <1>2, <1>3, Zenon

\* The node whose call ends keeps its invariant.
LEMMA NodeReset ==
  ASSUME IInv, NEW n \in Nodes, acq'[n] = NoAcq, log'[n] = log[n],
         seq'[n] \in {seq[n], NoSeq},
         upd'[n] = upd[n] \/ upd'[n].pc \notin {"keep", "take", "keeping", "taking"},
         msgCount <= msgCount', msgCount' \in Nat,
         \A p \in Positions : msgs[p] # None => msgs'[p] = msgs[p]
  PROVE  NodeInv(n)'
<1>1. acq'[n].st = "none" /\ NoSeq.st = "idle"
  BY IdleTypes, Zenon
<1>2. Undisturbed(n)' /\ AcqCaller(n)'
  BY <1>1, Zenon DEF Undisturbed, AcqCaller
<1>3. UpdThread(n)'
  BY Zenon DEF IInv, NodeInv, UpdThread
<1>4. seq'[n].st = "write" => Published(n)'
  BY <1>1, PublishedStable, Zenon DEF IInv, NodeInv, SeqThread
<1>5. SeqThread(n)'
  BY <1>1, <1>4, Zenon DEF IInv, NodeInv, SeqThread
<1> QED BY <1>2, <1>3, <1>5, Zenon DEF NodeInv

\* The transaction of acquireLockoutAndWriteMessage is refused or its answer is lost.
LEMMA AcquireFailsInv ==
  ASSUME IInv, NEW n \in Nodes, AcquireFails(n)
  PROVE  IInv'
<1> DEFINE D == DirtyAcqs
<1>1. /\ AcquireRefused(n, acq[n].by) /\ TypeOK
      /\ UNCHANGED <<reported, lockout, avoid, mode, log>>
  BY Zenon DEF AcquireFails, IInv
<1>2. faults' \in 0 .. MaxFaults
  BY SMTT(60), BoundsAssumption DEF BoundsAssumption, AcquireFails, Fault, NoFault, IInv, TypeOK
<1>3. \/ acq' = [acq EXCEPT ![n] = NoAcq] /\ UNCHANGED <<redis, release>>
      \/ acq[n].st = "watch" /\ AcquireWrites(n) /\ acq' = [D EXCEPT ![n] = NoAcq]
  BY Zenon DEF AcquireFails
<1>4. /\ acq \in [Nodes -> Acqs] /\ D \in [Nodes -> Acqs]
      /\ \A m \in Nodes :
           /\ D[m].st = IF acq[m].st = "watch" THEN "dirty" ELSE acq[m].st
           /\ D[m].by = acq[m].by /\ D[m].exp = acq[m].exp /\ D[m].msg = acq[m].msg
  BY <1>1, DirtyAcqsFacts, Zenon DEF TypeOK
<1> HIDE DEF D
<1>5. /\ acq' \in [Nodes -> Acqs] /\ acq'[n] = NoAcq
      /\ \A m \in Nodes \ {n} :
           /\ acq'[m].by = acq[m].by /\ acq'[m].exp = acq[m].exp
           /\ acq'[m].msg = acq[m].msg
           /\ \/ acq'[m].st = acq[m].st /\ UNCHANGED <<redis, release>>
              \/ acq'[m].st = IF acq[m].st = "watch" THEN "dirty" ELSE acq[m].st
  BY SMTT(60), <1>3, <1>4, IdleTypes
<1>6. /\ chosen' \in MaybeNode /\ chosenTtl' \in 0 .. LockoutDuration
      /\ wants' \in [Nodes -> 0 .. LockoutDuration]
      /\ release' \in [Nodes -> {"none", "clean", "dirty"}]
      /\ msgCount' \in 0 .. MaxMsgs /\ msgs' \in [Positions -> MaybeMsg]
  BY <1>1, <1>3, WritesFacts, Zenon DEF TypeOK, redis, MaybeNode
<1>7. LogComplete' /\ LogsAgree'
  BY <1>1, <1>3, WritesFacts, ZenonT(60) DEF IInv, LogComplete, LogsAgree, redis
<1>8. /\ msgCount <= msgCount' /\ msgCount' \in Nat
      /\ \A q \in Positions : msgs[q] # None => msgs'[q] = msgs[q]
  <2>1. msgCount \in Nat /\ msgCount' \in Nat
    BY <1>1, <1>6 DEF TypeOK
  <2>2. CASE UNCHANGED <<redis, release>>
    BY <2>1, <2>2 DEF redis
  <2>3. CASE acq[n].st = "watch" /\ AcquireWrites(n)
    BY <1>1, <2>1, <2>3, WritesFacts, Zenon
  <2> QED BY <1>3, <2>2, <2>3, Zenon
<1>9. TypeOK'
  BY <1>1, <1>2, <1>5, <1>6, RefusedFacts, Zenon DEF TypeOK
<1>10. NodeInv(n)'
  BY <1>1, <1>5, <1>8, NodeReset, RefusedFacts, ZenonT(60)
<1>11. ASSUME NEW m \in Nodes, m # n PROVE NodeInv(m)'
  BY SMTT(60), <1>1, <1>5, <1>8, <1>11, NodeStable, RefusedFacts DEF redis
<1> QED BY <1>7, <1>9, <1>10, <1>11, Zenon DEF IInv

\* acquireLockoutAndWriteMessage returns to its caller after the transaction.
LEMMA AcquirePostInv ==
  ASSUME IInv, NEW n \in Nodes, AcquirePost(n)
  PROVE  IInv'
<1> USE DEF redis
<1>1. TypeOK /\ NodeInv(n) /\ acq[n] \in Acqs /\ acq[n].st = "post"
  BY Zenon DEF IInv, TypeOK, AcquirePost
<1>2. acq' = [acq EXCEPT ![n] = NoAcq] /\ acq' \in [Nodes -> Acqs]
  BY <1>1, IdleTypes, Zenon DEF AcquirePost, TypeOK
<1>3. reported' \in [Nodes -> BOOLEAN] /\ lockout' \in [Nodes -> 0 .. LockoutDuration]
  <2>1. Minus(acq[n].ttl, LockoutSpare) \in 0 .. LockoutDuration
    <3>1. acq[n].ttl \in 0 .. LockoutDuration
      BY <1>1, Zenon DEF Acqs
    <3> QED BY <3>1, BoundsAssumption DEF BoundsAssumption, Minus
  <2>2. lockout' \in [Nodes -> 0 .. LockoutDuration]
    BY <1>1, <2>1, Zenon DEF AcquirePost, TypeOK
  <2>3. reported' \in [Nodes -> BOOLEAN]
    BY <1>1, Zenon DEF AcquirePost, TypeOK
  <2> QED BY <2>2, <2>3, Zenon
<1>4. /\ seq' \in [Nodes -> Seqs] /\ upd' \in [Nodes -> Updates]
      /\ \A m \in Nodes \ {n} : seq'[m] = seq[m] /\ upd'[m] = upd[m]
      /\ upd'[n] = upd[n] \/ upd'[n].pc \notin {"keep", "take", "keeping", "taking"}
      /\ acq[n].by # "seq" => seq' = seq
      /\ acq[n].by = "seq" => /\ seq'[n].st = "write" /\ seq'[n].pos = seq[n].pos
                              /\ seq'[n].msg = seq[n].msg
  <2>1. CASE acq[n].by = "seq"
    <3>1. seq' = [seq EXCEPT ![n].st = "write"] /\ upd' = upd
      BY <2>1, Zenon DEF AcquirePost
    <3>2. seq \in [Nodes -> Seqs] /\ upd \in [Nodes -> Updates] /\ seq[n] \in Seqs
      BY <1>1, Zenon DEF TypeOK
    <3> QED BY <2>1, <3>1, <3>2, Zenon DEF Seqs
  <2>2. CASE acq[n].by # "seq"
    <3>1. seq' = seq /\ \E pc \in {"took", Resting} : Goto(n, pc)
      BY <2>2, Zenon DEF AcquirePost
    <3>2. {"took", Resting} \subseteq UpdatePcs \ {"keep", "keeping", "take", "taking"}
      BY RestingType, Zenon DEF UpdatePcs
    <3> QED BY <1>1, <2>2, <3>1, <3>2, GotoFacts, ZenonT(60) DEF TypeOK
  <2> QED BY <2>1, <2>2, Zenon
<1>5. TypeOK'
  BY <1>1, <1>2, <1>3, <1>4, Zenon DEF TypeOK, AcquirePost
<1>6. LogComplete' /\ LogsAgree'
  BY Zenon DEF IInv, LogComplete, LogsAgree, AcquirePost
<1>7. /\ UNCHANGED <<redis, log>> /\ msgCount \in Nat
  <2>1. UNCHANGED <<redis, log>>
    BY Zenon DEF AcquirePost
  <2> QED BY <1>1, <2>1, CountType, Zenon
<1>8. ASSUME NEW m \in Nodes, m # n PROVE NodeInv(m)'
  <2>1. acq'[m] = acq[m]
    BY <1>1, <1>2, <1>8, Zenon DEF TypeOK
  <2>2. msgCount <= msgCount' /\ msgCount' = msgCount
    BY <1>7
  <2>3. seq'[m] = seq[m] /\ upd'[m] = upd[m]
    BY <1>4, <1>8, Zenon
  <2> QED BY <1>7, <2>1, <2>2, <2>3, NodeStable, Zenon
<1>9. NodeInv(n)'
  <2>1. acq'[n] = NoAcq
    BY <1>1, <1>2, ZenonT(60) DEF TypeOK
  <2>2. CASE acq[n].by # "seq"
    BY SMTT(60), <2>1, <2>2, <1>4, <1>7, NodeReset
  <2>3. CASE acq[n].by = "seq"
    <3>1. Undisturbed(n)' /\ AcqCaller(n)' /\ acq'[n].st = "none"
      BY <2>1, IdleTypes, Zenon DEF Undisturbed, AcqCaller
    <3>2. UpdThread(n)'
      BY <1>1, <1>4, <1>7, Zenon DEF NodeInv, UpdThread
    <3>3. SeqThread(n)'
      BY <1>1, <1>4, <1>7, <2>3, <3>1, Zenon DEF NodeInv, SeqThread, AcqCaller, Published
    <3> QED BY <3>1, <3>2, <3>3, Zenon DEF NodeInv
  <2> QED BY <2>2, <2>3, Zenon
<1> QED BY <1>5, <1>6, <1>8, <1>9, Zenon DEF IInv

(***************************************************************************)
(* Steps that leave the logs and the sequencing threads alone.             *)
(***************************************************************************)
\* A step that changes only what the update loop remembers keeps the invariant.
LEMMA Quiet ==
  ASSUME IInv, TypeOK', UNCHANGED <<msgCount, msgs, log, seq>>,
         \A m \in Nodes :
           \/ upd'[m] = upd[m] \/ UpdThread(m)'
           \/ upd'[m].pc \notin {"keep", "take", "keeping", "taking"},
         \A m \in Nodes :
           /\ acq'[m].by = acq[m].by /\ acq'[m].exp = acq[m].exp
           /\ acq'[m].msg = acq[m].msg
           /\ \/ acq'[m].st = acq[m].st /\ chosen' \in {None, chosen}
              \/ acq'[m].st = IF acq[m].st = "watch" THEN "dirty" ELSE acq[m].st
  PROVE  IInv'
<1>1. LogComplete' /\ LogsAgree'
  BY Zenon DEF IInv, LogComplete, LogsAgree
<1>2. msgCount \in Nat
  BY CountType, Zenon DEF IInv
<1>3. ASSUME NEW m \in Nodes PROVE NodeInv(m)'
  BY <1>2, NodeStable, SMTT(60)
<1> QED BY <1>1, <1>3, Zenon DEF IInv

\* A budget step keeps the type of faults.
LEMMA FaultType ==
  ASSUME TypeOK, Fault \/ NoFault
  PROVE  faults' \in 0 .. MaxFaults
BY BoundsAssumption DEF BoundsAssumption, TypeOK, Fault, NoFault

\* update reads the recommended sequencer.
LEMMA UpdateRecommendInv ==
  ASSUME IInv, NEW n \in Nodes, UpdateRecommend(n)
  PROVE  IInv'
<1> USE DEF redis, node
<1>1. TypeOK
  BY Zenon DEF IInv
<1>2. Recommended \in MaybeNode
  <2>1. \A i \in 1 .. Len(Priorities) : Priorities[i] \in Nodes
    BY NodesAssumption DEF NodesAssumption
  <2> QED BY <2>1, Zenon DEF Recommended, MaybeNode
<1>3. /\ upd' \in [Nodes -> Updates] /\ \A m \in Nodes \ {n} : upd'[m] = upd[m]
      /\ upd'[n].pc = "update"
  <2>1. upd \in [Nodes -> Updates] /\ upd[n] \in Updates
    BY <1>1, Zenon DEF TypeOK
  <2>2. upd' = [upd EXCEPT ![n] = [upd[n] EXCEPT !.pc = "update", !.next = Recommended]]
    BY <2>1, Zenon DEF UpdateRecommend
  <2>3. [upd[n] EXCEPT !.pc = "update", !.next = Recommended] \in Updates
    BY <2>1, <1>2, Zenon DEF Updates, UpdatePcs
  <2> QED BY <2>1, <2>2, <2>3, Zenon DEF Updates
<1>4. TypeOK'
  BY <1>1, <1>3, Zenon DEF TypeOK, UpdateRecommend
<1> QED BY <1>3, <1>4, Quiet, Zenon DEF UpdateRecommend

\* A node that forwards has one of the three modes.
LEMMA ForwardToType ==
  ASSUME TypeOK, NEW n \in Nodes, NEW ok \in BOOLEAN, ForwardTo(n, ok)
  PROVE  mode' \in [Nodes -> {"paused", "forward", "active"}]
BY Zenon DEF ForwardTo, TypeOK

\* chosenOneRelease gives up the lockout of its node as it reads the chosen key.
LEMMA ReleaseReadsType ==
  ASSUME TypeOK, NEW n \in Nodes, ReleaseReads(n)
  PROVE  /\ lockout' \in [Nodes -> 0 .. LockoutDuration]
         /\ release' \in [Nodes -> {"none", "clean", "dirty"}]
BY BoundsAssumption DEF BoundsAssumption, ReleaseReads, TypeOK

\* update hands the lease to the recommended sequencer (chosenOneRelease).
LEMMA UpdateHandOverInv ==
  ASSUME IInv, NEW n \in Nodes, UpdateHandOver(n)
  PROVE  IInv'
<1> USE DEF redis
<1>1. TypeOK /\ upd \in [Nodes -> Updates] /\ upd[n] \in Updates
  BY Zenon DEF IInv, TypeOK
<1>2. PICK ok \in BOOLEAN :
        /\ Fault \/ NoFault
        /\ ForwardTo(n, ok)
        /\ upd' = [upd EXCEPT ![n].pc = "release", ![n].next = IF ok THEN @ ELSE None]
  BY Zenon DEF UpdateHandOver
<1>3. /\ upd' \in [Nodes -> Updates] /\ \A m \in Nodes \ {n} : upd'[m] = upd[m]
      /\ upd'[n].pc = "release"
  <2> DEFINE x == IF ok THEN upd[n].next ELSE None
  <2>1. x \in MaybeNode
    BY <1>1, Zenon DEF Updates, MaybeNode
  <2>2. upd' = [upd EXCEPT ![n] = [upd[n] EXCEPT !.pc = "release", !.next = x]]
    BY <1>1, <1>2, Zenon DEF Updates
  <2> HIDE DEF x
  <2>3. [upd[n] EXCEPT !.pc = "release", !.next = x] \in Updates
    BY <1>1, <2>1, Zenon DEF Updates, UpdatePcs
  <2> QED BY <1>1, <2>2, <2>3, Zenon DEF Updates
<1>4. /\ faults' \in 0 .. MaxFaults
      /\ mode' \in [Nodes -> {"paused", "forward", "active"}]
  BY <1>1, <1>2, FaultType, ForwardToType, Zenon
<1>5. /\ lockout' \in [Nodes -> 0 .. LockoutDuration]
      /\ release' \in [Nodes -> {"none", "clean", "dirty"}]
  BY <1>1, ReleaseReadsType, Zenon DEF UpdateHandOver
<1>6. TypeOK'
  BY <1>1, <1>3, <1>4, <1>5, Zenon DEF TypeOK, UpdateHandOver
<1> QED BY <1>3, <1>6, Quiet, Zenon DEF UpdateHandOver

\* What the end of chosenOneRelease does to Redis.
LEMMA ReleaseFacts ==
  ASSUME TypeOK, NEW n \in Nodes, ReleaseReturnsNil(n) \/ ReleaseErrs(n)
  PROVE  /\ chosen' \in {chosen, None} /\ chosenTtl' \in 0 .. LockoutDuration
         /\ UNCHANGED <<msgCount, msgs, wants>>
         /\ release' \in [Nodes -> {"none", "clean", "dirty"}]
         /\ acq' \in [Nodes -> Acqs]
         /\ \A m \in Nodes :
              /\ acq'[m].by = acq[m].by /\ acq'[m].exp = acq[m].exp
              /\ acq'[m].msg = acq[m].msg
              /\ \/ acq'[m].st = acq[m].st
                 \/ acq'[m].st = IF acq[m].st = "watch" THEN "dirty" ELSE acq[m].st
         /\ faults' \in 0 .. MaxFaults
<1> USE DEF redis
<1>1. faults' \in 0 .. MaxFaults
  BY FaultType, Zenon DEF ReleaseReturnsNil, ReleaseIgnored, ReleaseErrs
<1>2. CASE ReleaseErrs(n) \/ ReleaseIgnored(n)
  BY <1>1, <1>2, Zenon DEF ReleaseErrs, ReleaseIgnored, TypeOK
<1>3. CASE ReleaseSucceeds(n)
  <2>1. /\ chosen' \in {chosen, None} /\ chosenTtl' \in 0 .. LockoutDuration
        /\ UNCHANGED <<msgCount, msgs, wants>>
    BY SMTT(60), <1>3, BoundsAssumption DEF BoundsAssumption, ReleaseSucceeds, TypeOK
  <2>2. release' \in [Nodes -> {"none", "clean", "dirty"}]
    <3>1. DirtyReleases(n) \in [Nodes -> {"none", "clean", "dirty"}]
      BY Zenon DEF DirtyReleases, TypeOK
    <3> HIDE DEF DirtyReleases
    <3> QED BY <1>3, <3>1, Zenon DEF ReleaseSucceeds, TypeOK
  <2>3. acq' = acq \/ acq' = DirtyAcqs
    BY <1>3, Zenon DEF ReleaseSucceeds
  <2>4. acq' \in [Nodes -> Acqs]
    BY <2>3, DirtyAcqsFacts, Zenon DEF TypeOK
  <2> QED BY <1>1, <2>1, <2>2, <2>3, <2>4, DirtyAcqsFacts, ZenonT(60)
<1> QED BY <1>2, <1>3, Zenon DEF ReleaseReturnsNil

\* chosenOneRelease returns to update.
LEMMA UpdateReleasedInv ==
  ASSUME IInv, NEW n \in Nodes, UpdateReleased(n)
  PROVE  IInv'
<1>1. TypeOK /\ upd[n] \in Updates
  BY Zenon DEF IInv, TypeOK
<1>2. ReleaseReturnsNil(n) \/ ReleaseErrs(n)
  BY Zenon DEF UpdateReleased
<1>3. prevChosen' \in [Nodes -> MaybeNode]
  BY <1>1, Zenon DEF UpdateReleased, TypeOK, Updates
<1>4. /\ upd' \in [Nodes -> Updates] /\ \A m \in Nodes \ {n} : upd'[m] = upd[m]
      /\ upd'[n].pc \notin {"keep", "keeping", "take", "taking"}
  BY <1>1, RestingType, GotoFacts, Zenon DEF UpdateReleased
<1>5. TypeOK'
  BY <1>1, <1>2, <1>3, <1>4, ReleaseFacts, Zenon DEF TypeOK, UpdateReleased, MaybeNode
<1> QED BY <1>1, <1>2, <1>4, <1>5, ReleaseFacts, Quiet, ZenonT(60) DEF UpdateReleased

\* The length of a node's log is a natural number.
LEMMA LogLength ==
  ASSUME IInv, NEW n \in Nodes
  PROVE  log[n] \in Seq(Msgs) /\ Len(log[n]) \in 0 .. MaxMsgs
<1>1. log[n] \in Seq(Msgs) /\ msgCount \in 0 .. MaxMsgs /\ Len(log[n]) <= msgCount
  BY Zenon DEF IInv, TypeOK, LogsAgree
<1>2. Len(log[n]) \in Nat
  BY SMTT(60), <1>1
<1> QED BY SMTT(60), <1>1, <1>2, BoundsAssumption DEF BoundsAssumption

\* The chosen sequencer renews its lease.
LEMMA UpdateKeepaliveInv ==
  ASSUME IInv, NEW n \in Nodes, UpdateKeepalive(n)
  PROVE  IInv'
<1> USE DEF redis, node
<1>1. TypeOK /\ upd \in [Nodes -> Updates]
  BY Zenon DEF IInv, TypeOK
<1>2. /\ upd' \in [Nodes -> Updates]
      /\ \A m \in Nodes : upd'[m] = upd[m] \/ UpdThread(m)'
  <2>1. CASE lockout[n] > MarginOfError
    <3>1. Goto(n, Resting)
      BY <2>1, Zenon DEF UpdateKeepalive
    <3> QED BY <1>1, <3>1, RestingType, GotoFacts, Zenon DEF UpdThread
  <2>2. CASE ~(lockout[n] > MarginOfError)
    <3> DEFINE u == [pc |-> "keep", next |-> None, exp |-> Len(log[n])]
    <3>1. Len(log[n]) \in 0 .. MaxMsgs
      BY LogLength, Zenon
    <3>2. u \in Updates /\ u.exp = Len(log[n])
      BY <3>1, Zenon DEF Updates, UpdatePcs, MaybeNode
    <3>3. upd' = [upd EXCEPT ![n] = u]
      BY <2>2, Zenon DEF UpdateKeepalive
    <3>4. log' = log
      BY Zenon DEF UpdateKeepalive
    <3> HIDE DEF u
    <3> QED BY <1>1, <3>1, <3>2, <3>3, <3>4, SMTT(60) DEF UpdThread
  <2> QED BY <2>1, <2>2, Zenon
<1>3. TypeOK'
  BY <1>1, <1>2, Zenon DEF TypeOK, UpdateKeepalive
<1> QED BY <1>2, <1>3, Quiet, Zenon DEF UpdateKeepalive

\* The node that enters acquireLockoutAndWriteMessage.
LEMMA StartedAcqFacts ==
  ASSUME TypeOK, NEW n \in Nodes, NEW by \in {"seq", "update"},
         NEW e \in 0 .. MaxMsgs, NEW m \in MaybeMsg, StartedAcq(n, by, e, m).st # "refused"
  PROVE  LET a == StartedAcq(n, by, e, m)
         IN  /\ a \in Acqs /\ a.by = by /\ a.exp = e /\ a.msg = m
             /\ a.st \in {"watch", "post"}
             /\ a.st = "watch" => chosen \in {None, n} /\ msgCount <= e
             /\ a.st = "post" => m = None
<1> DEFINE a == StartedAcq(n, by, e, m)
           st == AcquireReads(n, e, m)
<1>1. st = a.st
  BY Zenon DEF StartedAcq
<1>2. /\ st \in {"watch", "post"}
      /\ st = "watch" => chosen \in {None, n} /\ msgCount <= e
      /\ st = "post" => m = None
  BY <1>1, Zenon DEF AcquireReads
<1>3. (avoid[n] = 0) \in BOOLEAN
  BY SMTT(60)
<1>4. a = [st |-> st, by |-> by, exp |-> e, msg |-> m, ttl |-> LockoutDuration,
           setWants |-> avoid[n] = 0]
  BY Zenon DEF StartedAcq
<1>5. LockoutDuration \in 0 .. LockoutDuration
  BY SMTT(60), BoundsAssumption DEF BoundsAssumption
<1> HIDE DEF st, a
<1>6. a \in Acqs /\ a.by = by /\ a.exp = e /\ a.msg = m
  BY <1>2, <1>3, <1>4, <1>5, Zenon DEF Acqs
<1> QED BY <1>1, <1>2, <1>6, Zenon DEF a

(*****************************************************************************)
(* The remaining actions of SeqCoordinator that act on one record at a time  *)
(* keep IInv: taking over, stopping and the clock.                           *)
(*****************************************************************************)

\* update starts to take the lease over.
LEMMA UpdateAcquireInv ==
  ASSUME IInv, NEW n \in Nodes, UpdateAcquire(n)
  PROVE  IInv'
<1> USE DEF redis
<1> DEFINE a == StartedAcq(n, "update", upd[n].exp, None)
<1>1. TypeOK /\ upd[n] \in Updates /\ NodeInv(n) /\ upd[n].pc \in {"keep", "take"}
  BY ZenonT(60) DEF IInv, TypeOK, UpdateAcquire
<1>2. CASE a.st = "refused"
  <2>1. AcquireRefused(n, "update") /\ UNCHANGED acq
    BY <1>2, Zenon DEF UpdateAcquire
  <2>2. TypeOK'
    BY <1>1, <2>1, RefusedFacts, Zenon DEF TypeOK, UpdateAcquire
  <2> QED BY <1>1, <2>1, <2>2, RefusedFacts, Quiet, SMTT(60) DEF UpdateAcquire
<1>3. CASE a.st # "refused"
  <2>1. /\ acq' = [acq EXCEPT ![n] = a] /\ UNCHANGED <<seq, prevChosen>>
        /\ Goto(n, IF upd[n].pc = "keep" THEN "keeping" ELSE "taking")
    BY <1>3, Zenon DEF UpdateAcquire
  <2>2. upd[n].exp \in 0 .. MaxMsgs /\ upd[n].exp <= Len(log[n])
    BY <1>1, ZenonT(60) DEF Updates, NodeInv, UpdThread
  <2>3. /\ a \in Acqs /\ a.by = "update" /\ a.exp = upd[n].exp /\ a.msg = None
        /\ a.st \in {"watch", "post"}
        /\ a.st = "watch" => chosen \in {None, n} /\ msgCount <= a.exp
    BY SMTT(60), <1>1, <1>3, <2>2, StartedAcqFacts DEF MaybeMsg
  <2> HIDE DEF a
  <2>4. /\ upd' \in [Nodes -> Updates]
        /\ \A m \in Nodes \ {n} : upd'[m] = upd[m]
        /\ upd'[n].exp = upd[n].exp
    <3>1. PICK pc \in {"keeping", "taking"} : Goto(n, pc)
      BY <2>1, Zenon
    <3> QED BY <1>1, <3>1, GotoFacts, Zenon DEF UpdatePcs
  <2>5. acq' \in [Nodes -> Acqs] /\ acq'[n] = a /\ \A m \in Nodes \ {n} : acq'[m] = acq[m]
    BY <1>1, <2>1, <2>3, Zenon DEF TypeOK
  <2>6. TypeOK'
    BY <1>1, <2>1, <2>4, <2>5, ZenonT(60) DEF TypeOK, UpdateAcquire
  <2>7. UNCHANGED <<redis, log, seq>>
    BY <2>1, Zenon DEF UpdateAcquire
  <2>8. LogComplete' /\ LogsAgree'
    BY <2>7, Zenon DEF IInv, LogComplete, LogsAgree
  <2>9. NodeInv(n)'
    <3>1. Undisturbed(n)' /\ AcqCaller(n)' /\ UpdThread(n)'
      BY <2>2, <2>3, <2>4, <2>5, <2>7, Zenon DEF Undisturbed, AcqCaller, UpdThread
    <3>2. SeqThread(n)'
      BY <1>1, <2>3, <2>5, <2>7, ZenonT(60) DEF NodeInv, SeqThread, Published
    <3> QED BY <3>1, <3>2, Zenon DEF NodeInv
  <2>10. ASSUME NEW m \in Nodes, m # n PROVE NodeInv(m)'
    <3>1. msgCount \in Nat
      BY <1>1 DEF TypeOK
    <3> QED BY SMTT(60), <2>4, <2>5, <2>7, <2>10, <3>1, NodeStable
  <2> QED BY <2>6, <2>8, <2>9, <2>10, Zenon DEF IInv
<1> QED BY <1>2, <1>3, Zenon

\* A sequencer that has the lease activates.
LEMMA UpdateActivateInv ==
  ASSUME IInv, NEW n \in Nodes, UpdateActivate(n)
  PROVE  IInv'
<1> USE DEF redis
<1>1. TypeOK
  BY Zenon DEF IInv
<1>2. /\ upd' \in [Nodes -> Updates] /\ \A m \in Nodes \ {n} : upd'[m] = upd[m]
      /\ upd'[n].pc \notin {"keep", "keeping", "take", "taking"}
  BY <1>1, RestingType, GotoFacts, Zenon DEF UpdateActivate
<1>3. TypeOK'
  BY <1>1, <1>2, Zenon DEF TypeOK, UpdateActivate, MaybeNode
<1> QED BY <1>2, <1>3, Quiet, Zenon DEF UpdateActivate

\* The set of sequencers that want the lease stays a set of nodes.
LEMMA WantsType ==
  ASSUME TypeOK, NEW n \in Nodes, NEW ok \in BOOLEAN,
         WantsUpdate(n, ok) \/ WantsRelease(n, ok)
  PROVE  wants' \in [Nodes -> 0 .. LockoutDuration] /\ reported' \in [Nodes -> BOOLEAN]
<1>1. /\ wants \in [Nodes -> 0 .. LockoutDuration] /\ reported \in [Nodes -> BOOLEAN]
      /\ 0 \in 0 .. LockoutDuration /\ LockoutDuration \in 0 .. LockoutDuration
  BY BoundsAssumption DEF BoundsAssumption, TypeOK
<1>2. wants' \in [Nodes -> 0 .. LockoutDuration]
  BY <1>1, Zenon DEF WantsUpdate, WantsRelease
<1>3. reported' \in [Nodes -> BOOLEAN]
  BY <1>1, Zenon DEF WantsUpdate, WantsRelease
<1> QED BY <1>2, <1>3, Zenon

\* After a failed takeover update marks the node as wanting the lease.
LEMMA UpdateRetryInv ==
  ASSUME IInv, NEW n \in Nodes, UpdateRetry(n)
  PROVE  IInv'
<1>1. TypeOK
  BY Zenon DEF IInv
<1>2. /\ upd' \in [Nodes -> Updates] /\ \A m \in Nodes \ {n} : upd'[m] = upd[m]
      /\ upd'[n].pc \notin {"keep", "keeping", "take", "taking"}
  BY <1>1, RestingType, GotoFacts, Zenon DEF UpdateRetry
<1>3. /\ wants' \in [Nodes -> 0 .. LockoutDuration] /\ reported' \in [Nodes -> BOOLEAN]
      /\ faults' \in 0 .. MaxFaults
  BY <1>1, WantsType, FaultType, Zenon DEF UpdateRetry
<1>4. TypeOK'
  BY <1>1, <1>2, <1>3, Zenon DEF TypeOK, UpdateRetry
<1> QED BY <1>2, <1>4, Quiet, Zenon DEF UpdateRetry

\* Following the recommended sequencer keeps mode and prevChosen in their types.
LEMMA FollowType ==
  ASSUME TypeOK, NEW n \in Nodes, NEW ok \in BOOLEAN, FollowRecommended(n, ok)
  PROVE  /\ prevChosen' \in [Nodes -> MaybeNode]
         /\ mode' \in [Nodes -> {"paused", "forward", "active"}]
<1>1. upd[n] \in Updates /\ prevChosen \in [Nodes -> MaybeNode]
  BY Zenon DEF TypeOK
<1>2. prevChosen' \in [Nodes -> MaybeNode]
  BY <1>1, Zenon DEF FollowRecommended, Updates, MaybeNode
<1>3. mode' \in [Nodes -> {"paused", "forward", "active"}]
  <2>1. mode \in [Nodes -> {"paused", "forward", "active"}]
    BY Zenon DEF TypeOK
  <2> QED BY <2>1, ForwardToType, Zenon DEF FollowRecommended
<1> QED BY <1>2, <1>3, Zenon

\* update could not read the message count.
LEMMA UpdateNoCountInv ==
  ASSUME IInv, NEW n \in Nodes, UpdateNoCount(n)
  PROVE  IInv'
<1> USE DEF redis
<1>1. TypeOK
  BY Zenon DEF IInv
<1>2. /\ upd' \in [Nodes -> Updates] /\ \A m \in Nodes \ {n} : upd'[m] = upd[m]
      /\ upd'[n].pc \notin {"keep", "keeping", "take", "taking"}
  BY <1>1, RestingType, GotoFacts, Zenon DEF UpdateNoCount
<1>3. /\ prevChosen' \in [Nodes -> MaybeNode] /\ faults' \in 0 .. MaxFaults
      /\ mode' \in [Nodes -> {"paused", "forward", "active"}]
  BY <1>1, FollowType, FaultType, Zenon DEF UpdateNoCount
<1>4. TypeOK'
  BY <1>1, <1>2, <1>3, Zenon DEF TypeOK, UpdateNoCount
<1> QED BY <1>2, <1>4, Quiet, Zenon DEF UpdateNoCount

\* AvoidLockout of a maintenance run or of the api.
LEMMA AvoidLockoutInv ==
  ASSUME IInv, NEW n \in Nodes, AvoidLockout(n)
  PROVE  IInv'
<1>1. TypeOK
  BY Zenon DEF IInv
<1>2. /\ wants' \in [Nodes -> 0 .. LockoutDuration] /\ reported' \in [Nodes -> BOOLEAN]
      /\ faults' \in 0 .. MaxFaults
  BY <1>1, WantsType, FaultType, Zenon DEF AvoidLockout
<1>3. avoid' \in [Nodes -> 0 .. MaxAvoid]
  BY SMTT(60), <1>1, BoundsAssumption DEF BoundsAssumption, TypeOK, AvoidLockout
<1>4. TypeOK'
  BY <1>1, <1>2, <1>3, Zenon DEF TypeOK, AvoidLockout
<1> QED BY <1>4, Quiet, Zenon DEF AvoidLockout

\* SeekLockout undoes AvoidLockout.
LEMMA SeekLockoutInv ==
  ASSUME IInv, NEW n \in Nodes, SeekLockout(n)
  PROVE  IInv'
<1>1. TypeOK
  BY Zenon DEF IInv
<1>2. PICK ok \in BOOLEAN :
        /\ Fault \/ NoFault
        /\ reported' \in {reported, [reported EXCEPT ![n] = @ \/ ok]}
        /\ wants' \in {wants, [wants EXCEPT ![n] = LockoutDuration]}
  BY Zenon DEF SeekLockout
<1>3. wants' \in [Nodes -> 0 .. LockoutDuration]
  <2>1. wants \in [Nodes -> 0 .. LockoutDuration] /\ LockoutDuration \in 0 .. LockoutDuration
    BY <1>1, BoundsAssumption DEF BoundsAssumption, TypeOK
  <2> QED BY <1>2, <2>1, Zenon
<1>4. reported' \in [Nodes -> BOOLEAN]
  BY <1>1, <1>2, Zenon DEF TypeOK
<1>5. faults' \in 0 .. MaxFaults
  BY <1>1, <1>2, FaultType, ZenonT(60)
<1>6. avoid' \in [Nodes -> 0 .. MaxAvoid]
  BY SMTT(60), <1>1, BoundsAssumption DEF BoundsAssumption, TypeOK, SeekLockout
<1>7. TypeOK'
  BY <1>1, <1>3, <1>4, <1>5, <1>6, Zenon DEF TypeOK, SeekLockout
<1> QED BY <1>7, Quiet, Zenon DEF SeekLockout

\* StopAndWait begins.
LEMMA StopAndWaitInv ==
  ASSUME IInv, NEW n \in Nodes, StopAndWait(n)
  PROVE  IInv'
<1> USE DEF redis, node
<1>1. TypeOK
  BY Zenon DEF IInv
<1>2. /\ upd' \in [Nodes -> Updates] /\ \A m \in Nodes \ {n} : upd'[m] = upd[m]
      /\ upd'[n].pc = "stopWants"
  BY <1>1, GotoFacts, Zenon DEF StopAndWait, UpdatePcs
<1>3. TypeOK'
  BY <1>1, <1>2, FaultType, Zenon DEF TypeOK, StopAndWait
<1> QED BY <1>2, <1>3, Quiet, Zenon DEF StopAndWait

\* StopAndWait removes the wants key.
LEMMA StopWantsInv ==
  ASSUME IInv, NEW n \in Nodes, StopWants(n)
  PROVE  IInv'
<1>1. TypeOK
  BY Zenon DEF IInv
<1>2. PICK pc \in {"stopWants", "stopChosen"} : Goto(n, pc)
  BY Zenon DEF StopWants
<1>3. /\ upd' \in [Nodes -> Updates] /\ \A m \in Nodes \ {n} : upd'[m] = upd[m]
      /\ upd'[n].pc \notin {"keep", "keeping", "take", "taking"}
  BY <1>1, <1>2, GotoFacts, Zenon DEF UpdatePcs
<1>4. /\ wants' \in [Nodes -> 0 .. LockoutDuration] /\ reported' \in [Nodes -> BOOLEAN]
      /\ faults' \in 0 .. MaxFaults
  BY <1>1, WantsType, FaultType, ZenonT(60) DEF StopWants
<1>5. TypeOK'
  BY <1>1, <1>3, <1>4, Zenon DEF TypeOK, StopWants
<1> QED BY <1>3, <1>5, Quiet, Zenon DEF StopWants

\* StopAndWait finds itself chosen and releases.
LEMMA StopChosenInv ==
  ASSUME IInv, NEW n \in Nodes, StopChosen(n)
  PROVE  IInv'
<1> USE DEF redis
<1>1. TypeOK
  BY Zenon DEF IInv
<1>2. /\ upd' \in [Nodes -> Updates] /\ \A m \in Nodes \ {n} : upd'[m] = upd[m]
      /\ upd'[n].pc = "stopRelease"
  BY <1>1, GotoFacts, Zenon DEF StopChosen, UpdatePcs
<1>3. TypeOK'
  BY <1>1, <1>2, ReleaseReadsType, Zenon DEF TypeOK, StopChosen
<1> QED BY <1>2, <1>3, Quiet, Zenon DEF StopChosen

\* StopAndWait has released the lease.
LEMMA StopReleasedInv ==
  ASSUME IInv, NEW n \in Nodes, StopReleased(n)
  PROVE  IInv'
<1> USE DEF node
<1>1. TypeOK
  BY Zenon DEF IInv
<1>2. PICK pc \in {"stopChosen", "stopped"} : Goto(n, pc)
  BY Zenon DEF StopReleased
<1>3. /\ upd' \in [Nodes -> Updates] /\ \A m \in Nodes \ {n} : upd'[m] = upd[m]
      /\ upd'[n].pc \notin {"keep", "keeping", "take", "taking"}
  BY <1>1, <1>2, GotoFacts, Zenon DEF UpdatePcs
<1>4. ReleaseReturnsNil(n) \/ ReleaseErrs(n)
  BY Zenon DEF StopReleased
<1>5. TypeOK'
  BY <1>1, <1>3, <1>4, ReleaseFacts, ZenonT(60) DEF TypeOK, StopReleased, MaybeNode
<1> QED BY <1>1, <1>3, <1>4, <1>5, ReleaseFacts, Quiet, Zenon DEF StopReleased

\* Time passes and keys of redis expire.
LEMMA TickInv ==
  ASSUME IInv, Tick
  PROVE  IInv'
<1> USE BoundsAssumption DEF BoundsAssumption
<1>1. TypeOK
  BY Zenon DEF IInv
<1>2. /\ chosen' \in {None, chosen} /\ chosenTtl' \in 0 .. LockoutDuration
      /\ chosenTtl # 1 => chosen' = chosen
  BY SMTT(60), <1>1 DEF Tick, TypeOK, Minus
<1>3. /\ wants' \in [Nodes -> 0 .. LockoutDuration]
      /\ lockout' \in [Nodes -> 0 .. LockoutDuration]
  <2>1. \A t \in 0 .. LockoutDuration : Minus(t, 1) \in 0 .. LockoutDuration
    BY DEF Minus
  <2> QED BY <1>1, <2>1, Zenon DEF Tick, TypeOK
<1>4. release' \in [Nodes -> {"none", "clean", "dirty"}]
  BY <1>1, Zenon DEF Tick, TypeOK, DirtyReleases
<1>5. /\ upd' \in [Nodes -> Updates]
      /\ \A m \in Nodes : upd'[m] = upd[m] \/ upd'[m].pc = "idle"
  BY <1>1, IdleTypes, Zenon DEF Tick, TypeOK
<1>6. ASSUME NEW m \in Nodes
      PROVE  /\ acq'[m] \in Acqs
             /\ acq'[m].by = acq[m].by /\ acq'[m].exp = acq[m].exp
             /\ acq'[m].msg = acq[m].msg
             /\ \/ acq'[m].st = acq[m].st
                \/ acq'[m].st = IF acq[m].st = "watch" THEN "dirty" ELSE acq[m].st
  <2> DEFINE b == IF chosenTtl = 1 THEN DirtyAcqs[m] ELSE acq[m]
  <2>1. /\ b \in Acqs /\ b.by = acq[m].by /\ b.exp = acq[m].exp /\ b.msg = acq[m].msg
        /\ \/ b.st = acq[m].st
           \/ b.st = IF acq[m].st = "watch" THEN "dirty" ELSE acq[m].st
    BY <1>1, DirtyAcqsFacts, Zenon DEF TypeOK
  <2>2. acq'[m] = [b EXCEPT !.ttl = Minus(@, 1)]
    BY Zenon DEF Tick
  <2> HIDE DEF b
  <2>3. Minus(b.ttl, 1) \in 0 .. LockoutDuration
    <3>1. b.ttl \in 0 .. LockoutDuration
      BY <2>1, Zenon DEF Acqs
    <3> QED BY SMTT(60), <3>1 DEF Minus
  <2> QED BY <2>1, <2>2, <2>3, Zenon DEF Acqs
<1>7. acq' \in [Nodes -> Acqs]
  <2>1. acq' = [m \in Nodes |-> acq'[m]]
    BY Zenon DEF Tick
  <2> QED BY <2>1, <1>6, Zenon
<1>8. TypeOK'
  BY <1>1, <1>2, <1>3, <1>4, <1>5, <1>7, ZenonT(60) DEF TypeOK, Tick, MaybeNode
<1> QED BY <1>2, <1>5, <1>6, <1>8, Quiet, Zenon DEF Tick


(***************************************************************************)
(* Steps of the sequencing thread and steps that extend a log.             *)
(***************************************************************************)
\* A transaction arrives at SequencingMessage.
LEMMA SequenceStartInv ==
  ASSUME IInv, NEW n \in Nodes, SequenceStart(n)
  PROVE  IInv'
<1> USE DEF redis, node
<1>1. TypeOK /\ NodeInv(n) /\ seq[n].st = "idle" /\ seq \in [Nodes -> Seqs]
  BY Zenon DEF IInv, TypeOK, SequenceStart
<1>2. PICK x \in Msgs :
        seq' = [seq EXCEPT ![n] = [st |-> "chosen", pos |-> Len(log[n]), msg |-> x]]
  BY Zenon DEF SequenceStart
<1> DEFINE q == [st |-> "chosen", pos |-> Len(log[n]), msg |-> x]
<1>3. q \in Seqs /\ q.st = "chosen" /\ q.pos = Len(log[n]) /\ q.msg \in Msgs
  BY LogLength, Zenon DEF Seqs, MaybeMsg
<1> HIDE DEF q
<1>4. seq' \in [Nodes -> Seqs] /\ seq'[n] = q /\ \A m \in Nodes \ {n} : seq'[m] = seq[m]
  BY <1>1, <1>2, <1>3, Zenon DEF q
<1>5. TypeOK'
  BY <1>1, <1>4, ZenonT(60) DEF TypeOK, SequenceStart
<1>6. UNCHANGED <<redis, log, upd, acq>> /\ msgCount \in Nat
  BY SMTT(60), <1>1 DEF SequenceStart, TypeOK
<1>7. LogComplete' /\ LogsAgree'
  BY <1>6, ZenonT(60) DEF IInv, LogComplete, LogsAgree
<1>8. ASSUME NEW m \in Nodes, m # n PROVE NodeInv(m)'
  BY <1>4, <1>6, <1>8, NodeStable, SMTT(60)
<1>9. NodeInv(n)'
  <2>1. acq[n].st = "none" \/ acq[n].by # "seq"
    BY <1>1, Zenon DEF NodeInv, AcqCaller
  <2>2. Undisturbed(n)' /\ AcqCaller(n)' /\ UpdThread(n)'
    BY <1>1, <1>4, <1>6, <2>1, Zenon DEF NodeInv, Undisturbed, AcqCaller, UpdThread
  <2>3. Len(log[n]) < MaxMsgs
    BY Zenon DEF SequenceStart
  <2>4. SeqThread(n)'
    BY <1>3, <1>4, <1>6, <2>1, <2>3, Zenon DEF SeqThread
  <2> QED BY <2>2, <2>4, Zenon DEF NodeInv
<1> QED BY <1>5, <1>7, <1>8, <1>9, Zenon DEF IInv

\* SequencingMessage calls acquireLockoutAndWriteMessage.
LEMMA SequenceAcquireInv ==
  ASSUME IInv, NEW n \in Nodes, SequenceAcquire(n)
  PROVE  IInv'
<1> USE DEF redis
<1> DEFINE a == StartedAcq(n, "seq", seq[n].pos, seq[n].msg)
<1>1. TypeOK /\ seq[n] \in Seqs /\ NodeInv(n) /\ seq[n].st = "chosen"
  BY Zenon DEF IInv, TypeOK, SequenceAcquire
<1>2. UNCHANGED <<redis, log>> /\ msgCount \in Nat
  BY <1>1 DEF SequenceAcquire, TypeOK
<1>3. LogComplete' /\ LogsAgree'
  BY <1>2, Zenon DEF IInv, LogComplete, LogsAgree
<1>4. CASE AcquireRefused(n, "seq") /\ UNCHANGED acq
  <2>1. TypeOK'
    BY <1>1, <1>4, RefusedFacts, ZenonT(60) DEF TypeOK, SequenceAcquire
  <2>2. ASSUME NEW m \in Nodes, m # n PROVE NodeInv(m)'
    BY <1>1, <1>2, <1>4, <2>2, RefusedFacts, NodeStable, SMTT(60)
  <2>3. acq[n].st = "none"
    BY Zenon DEF SequenceAcquire
  <2>4. Undisturbed(n)' /\ AcqCaller(n)'
    BY <1>4, <2>3, Zenon DEF Undisturbed, AcqCaller
  <2>5. seq'[n].st = "idle"
    BY <1>1, <1>4, RefusedFacts, IdleTypes, Zenon
  <2>6. SeqThread(n)'
    BY <1>4, <2>3, <2>5, Zenon DEF SeqThread
  <2>7. UpdThread(n)'
    BY <1>1, <1>2, <1>4, RefusedFacts, Zenon DEF NodeInv, UpdThread
  <2> QED BY <1>3, <2>1, <2>2, <2>4, <2>6, <2>7, ZenonT(60) DEF IInv, NodeInv
<1>5. CASE /\ a.st # "refused" /\ acq' = [acq EXCEPT ![n] = a]
           /\ seq' = [seq EXCEPT ![n].st = "acquire"] /\ UNCHANGED <<upd, prevChosen>>
  <2>1. /\ seq[n].pos \in 0 .. MaxMsgs /\ seq[n].msg \in MaybeMsg
        /\ seq[n].msg \in Msgs /\ seq[n].msg # None
    BY <1>1, NodesAssumption, ZenonT(60) DEF NodesAssumption, Seqs, NodeInv, SeqThread
  <2>2. /\ a \in Acqs /\ a.by = "seq" /\ a.exp = seq[n].pos /\ a.msg = seq[n].msg
        /\ a.st = "watch" /\ chosen \in {None, n} /\ msgCount <= a.exp
    BY <1>1, <1>5, <2>1, StartedAcqFacts, SMTT(60)
  <2> HIDE DEF a
  <2>3. acq' \in [Nodes -> Acqs] /\ acq'[n] = a /\ \A m \in Nodes \ {n} : acq'[m] = acq[m]
    BY <1>1, <1>5, <2>2, Zenon DEF TypeOK
  <2>4. /\ seq' \in [Nodes -> Seqs] /\ \A m \in Nodes \ {n} : seq'[m] = seq[m]
        /\ seq'[n].st = "acquire" /\ seq'[n].pos = seq[n].pos /\ seq'[n].msg = seq[n].msg
    <3>1. seq \in [Nodes -> Seqs] /\ seq' = [seq EXCEPT ![n] = [seq[n] EXCEPT !.st = "acquire"]]
      BY <1>1, <1>5 DEF TypeOK
    <3>2. [seq[n] EXCEPT !.st = "acquire"] \in Seqs
      BY <1>1, Zenon DEF Seqs
    <3> QED BY <1>1, <3>1, <3>2, Zenon DEF Seqs
  <2>5. TypeOK'
    BY <1>1, <1>5, <2>3, <2>4, ZenonT(60) DEF TypeOK, SequenceAcquire
  <2>6. ASSUME NEW m \in Nodes, m # n PROVE NodeInv(m)'
    BY SMTT(60), <1>2, <1>5, <2>3, <2>4, <2>6, NodeStable
  <2>7. Undisturbed(n)' /\ AcqCaller(n)'
    BY <1>2, <2>2, <2>3, <2>4, Zenon DEF Undisturbed, AcqCaller
  <2>8. SeqThread(n)' /\ UpdThread(n)'
    BY <1>1, <1>2, <1>5, <2>2, <2>3, <2>4, Zenon DEF NodeInv, SeqThread, UpdThread
  <2> QED BY <1>3, <2>5, <2>6, <2>7, <2>8, Zenon DEF IInv, NodeInv
<1> QED BY <1>4, <1>5, Zenon DEF SequenceAcquire

\* A node whose log gets longer while no message is being sequenced, or just
\* after the sequenced message was stored.
LEMMA NodeExtends ==
  ASSUME IInv, NEW n \in Nodes, UNCHANGED <<chosen, msgCount, msgs>>,
         acq'[n] = acq[n], Len(log[n]) \in Nat, Len(log'[n]) \in Nat,
         Len(log[n]) <= Len(log'[n]),
         seq'[n].st = "idle",
         seq[n].st = "idle" \/ seq[n].st = "write",
         \/ upd'[n] = upd[n] \/ UpdThread(n)'
         \/ upd'[n].pc \notin {"keep", "take", "keeping", "taking"}
  PROVE  NodeInv(n)'
<1> USE DEF IInv, NodeInv
<1>1. acq[n] \in Acqs /\ upd[n] \in Updates
  BY Zenon DEF TypeOK
<1>2. Undisturbed(n)'
  BY Zenon DEF Undisturbed
<1>3. acq[n].st = "none" \/ acq[n].by = "update"
  BY ZenonT(60) DEF AcqCaller
<1>4. AcqCaller(n)'
  <2>1. acq[n].exp \in Nat
    BY SMTT(60), <1>1 DEF Acqs
  <2> QED BY SMTT(60), <1>3, <2>1 DEF AcqCaller
<1>5. SeqThread(n)'
  BY <1>3, ZenonT(60) DEF SeqThread
<1>6. UpdThread(n)'
  <2>1. upd[n].exp \in Nat
    BY SMTT(60), <1>1 DEF Updates
  <2> QED BY SMTT(60), <2>1 DEF UpdThread
<1> QED BY <1>2, <1>4, <1>5, <1>6, Zenon

\* A log extended by what Redis holds still agrees with it.
LEMMA LogGrows ==
  ASSUME IInv, NEW n \in Nodes, NEW new \in Seq(Msgs),
         log' = [log EXCEPT ![n] = log[n] \o new], UNCHANGED <<msgCount, msgs>>,
         Len(log[n]) + Len(new) <= msgCount,
         \A i \in 1 .. Len(new) : new[i] = msgs[Len(log[n]) + i - 1]
  PROVE  /\ log' \in [Nodes -> Seq(Msgs)] /\ LogComplete' /\ LogsAgree'
         /\ Len(log'[n]) = Len(log[n]) + Len(new) /\ Len(new) \in Nat
         /\ \A m \in Nodes \ {n} : log'[m] = log[m]
<1>1. log \in [Nodes -> Seq(Msgs)] /\ log[n] \in Seq(Msgs)
  BY ZenonT(60) DEF IInv, TypeOK
<1> DEFINE g == log[n] \o new
<1>2. /\ g \in Seq(Msgs) /\ Len(g) = Len(log[n]) + Len(new)
      /\ Len(log[n]) \in Nat /\ Len(new) \in Nat
      /\ \A i \in 1 .. Len(g) :
           g[i] = IF i <= Len(log[n]) THEN log[n][i] ELSE new[i - Len(log[n])]
  BY SMTT(60), <1>1
<1>3. \A i \in 1 .. Len(log[n]) : log[n][i] = msgs[i - 1]
  BY Zenon DEF IInv, LogsAgree
<1>4. ASSUME NEW i \in 1 .. Len(g) PROVE g[i] = msgs[i - 1]
  <2>1. CASE i <= Len(log[n])
    <3>1. i \in 1 .. Len(log[n]) /\ g[i] = log[n][i]
      BY SMTT(60), <1>2, <2>1
    <3> QED BY <1>3, <3>1, Zenon
  <2>2. CASE ~(i <= Len(log[n]))
    <3> DEFINE j == i - Len(log[n])
    <3>1. j \in 1 .. Len(new) /\ Len(log[n]) + j - 1 = i - 1
      BY <1>2, <2>2
    <3>2. new[j] = msgs[Len(log[n]) + j - 1]
      BY <3>1, Zenon
    <3> QED BY <1>2, <2>2, <3>1, <3>2, ZenonT(60)
  <2> QED BY <2>1, <2>2, Zenon
<1> HIDE DEF g
<1>5. log' \in [Nodes -> Seq(Msgs)] /\ log'[n] = g /\ \A m \in Nodes \ {n} : log'[m] = log[m]
  BY <1>1, <1>2, Zenon DEF g
<1>6. LogsAgree'
  BY <1>2, <1>4, <1>5, ZenonT(60) DEF IInv, LogsAgree
<1>7. LogComplete'
  BY Zenon DEF IInv, LogComplete
<1> QED BY <1>2, <1>5, <1>6, <1>7, Zenon

\* One more message at the end of a log.
LEMMA AppendOne ==
  ASSUME NEW t \in Seq(Msgs), NEW x \in Msgs
  PROVE  /\ Append(t, x) = t \o <<x>> /\ <<x>> \in Seq(Msgs)
         /\ Len(<<x>>) = 1 /\ <<x>>[1] = x
OBVIOUS

\* The sequenced message enters the log of its node.
LEMMA SequenceWriteInv ==
  ASSUME IInv, NEW n \in Nodes, SequenceWrite(n)
  PROVE  IInv'
<1> USE DEF redis
<1> DEFINE x == seq[n].msg
<1>1. /\ TypeOK /\ NodeInv(n) /\ seq[n].st = "write" /\ seq[n] \in Seqs
      /\ seq \in [Nodes -> Seqs] /\ log[n] \in Seq(Msgs)
  BY Zenon DEF IInv, TypeOK, SequenceWrite
<1>2. /\ x \in Msgs /\ seq[n].pos = Len(log[n]) /\ seq[n].pos < msgCount
      /\ msgs[seq[n].pos] = x
  BY <1>1, Zenon DEF NodeInv, SeqThread, Published
<1>3. log' = [log EXCEPT ![n] = log[n] \o <<x>>]
  BY <1>1, <1>2, AppendOne, ZenonT(60) DEF SequenceWrite
<1>4. /\ UNCHANGED <<redis, upd, acq>> /\ msgCount \in Nat /\ Len(log[n]) \in Nat
  BY <1>1 DEF SequenceWrite, TypeOK
<1>5. /\ <<x>> \in Seq(Msgs) /\ Len(<<x>>) = 1 /\ Len(log[n]) + Len(<<x>>) <= msgCount
      /\ \A i \in 1 .. Len(<<x>>) : <<x>>[i] = msgs[Len(log[n]) + i - 1]
  <2>1. <<x>> \in Seq(Msgs) /\ Len(<<x>>) = 1 /\ <<x>>[1] = x
    BY <1>1, <1>2, AppendOne, ZenonT(60)
  <2>2. Len(log[n]) + 1 <= msgCount /\ msgs[Len(log[n]) + 1 - 1] = x
    BY <1>2, <1>4
  <2>3. \A i \in 1 .. 1 : i = 1
    OBVIOUS
  <2> HIDE DEF x
  <2> QED BY <2>1, <2>2, <2>3, Zenon
<1> HIDE DEF x
<1>6. /\ log' \in [Nodes -> Seq(Msgs)] /\ LogComplete' /\ LogsAgree'
      /\ Len(log'[n]) = Len(log[n]) + 1 /\ \A m \in Nodes \ {n} : log'[m] = log[m]
  BY <1>3, <1>4, <1>5, LogGrows, ZenonT(60)
<1>7. /\ seq' \in [Nodes -> Seqs] /\ seq'[n].st = "idle"
      /\ \A m \in Nodes \ {n} : seq'[m] = seq[m]
  BY <1>1, IdleTypes, Zenon DEF SequenceWrite
<1>8. TypeOK'
  BY <1>1, <1>6, <1>7, ZenonT(60) DEF TypeOK, SequenceWrite
<1>9. NodeInv(n)'
  BY SMTT(60), <1>1, <1>4, <1>6, <1>7, NodeExtends
<1>10. ASSUME NEW m \in Nodes, m # n PROVE NodeInv(m)'
  BY SMTT(60), <1>4, <1>6, <1>7, <1>10, NodeStable
<1> QED BY <1>6, <1>8, <1>9, <1>10, Zenon DEF IInv

\* A message arrives by the feed.
LEMMA FeedInv ==
  ASSUME IInv, NEW n \in Nodes, Feed(n)
  PROVE  IInv'
<1> USE DEF redis, ctl
<1>1. TypeOK /\ seq[n].st = "idle" /\ log[n] \in Seq(Msgs) /\ Len(log[n]) \in Nat
  <2>1. TypeOK /\ seq[n].st = "idle"
    BY Zenon DEF IInv, Feed
  <2>2. log[n] \in Seq(Msgs)
    BY <2>1, Zenon DEF TypeOK
  <2> QED BY <2>1, <2>2, SMTT(60)
<1>2. PICK s \in Nodes : /\ Len(log[s]) > Len(log[n])
                         /\ log' = [log EXCEPT ![n] = Append(@, log[s][Len(@) + 1])]
  BY ZenonT(60) DEF Feed
<1> DEFINE x == log[s][Len(log[n]) + 1]
<1>3. /\ log[s] \in Seq(Msgs) /\ Len(log[s]) \in Nat /\ Len(log[s]) <= msgCount
      /\ \A i \in 1 .. Len(log[s]) : log[s][i] = msgs[i - 1]
  BY SMTT(60), <1>1 DEF IInv, TypeOK, LogsAgree
<1>4. /\ UNCHANGED <<redis, upd, acq, seq>> /\ msgCount \in Nat
  BY SMTT(60), <1>1 DEF Feed, TypeOK
<1>5. Len(log[n]) + 1 \in 1 .. Len(log[s]) /\ Len(log[n]) + 1 <= msgCount
  BY SMTT(60), <1>1, <1>2, <1>3, <1>4
<1>6. x \in Msgs /\ x = msgs[Len(log[n]) + 1 - 1]
  BY <1>3, <1>5
<1> HIDE DEF x
<1>7. log' = [log EXCEPT ![n] = log[n] \o <<x>>]
  BY <1>1, <1>2, <1>6, AppendOne, Zenon DEF x
<1>8. /\ <<x>> \in Seq(Msgs) /\ Len(<<x>>) = 1 /\ Len(log[n]) + Len(<<x>>) <= msgCount
      /\ \A i \in 1 .. Len(<<x>>) : <<x>>[i] = msgs[Len(log[n]) + i - 1]
  <2>1. <<x>> \in Seq(Msgs) /\ Len(<<x>>) = 1 /\ <<x>>[1] = x
    BY <1>1, <1>6, AppendOne, Zenon
  <2>2. \A i \in 1 .. 1 : i = 1
    OBVIOUS
  <2> QED BY <1>5, <1>6, <2>1, <2>2, Zenon
<1>9. /\ log' \in [Nodes -> Seq(Msgs)] /\ LogComplete' /\ LogsAgree'
      /\ Len(log'[n]) = Len(log[n]) + 1 /\ \A m \in Nodes \ {n} : log'[m] = log[m]
  BY <1>4, <1>7, <1>8, LogGrows, Zenon
<1>10. TypeOK'
  BY <1>1, <1>9, ZenonT(60) DEF TypeOK, Feed
<1>11. NodeInv(n)'
  BY SMTT(60), <1>1, <1>4, <1>9, NodeExtends
<1>12. ASSUME NEW m \in Nodes, m # n PROVE NodeInv(m)'
  BY <1>4, <1>9, <1>12, NodeStable, SMTT(60)
<1> QED BY <1>9, <1>10, <1>11, <1>12, ZenonT(60) DEF IInv

\* update reads a run of messages that follows its local log.
LEMMA ReadMessagesFacts ==
  ASSUME IInv, NEW n \in Nodes
  PROVE  /\ ReadMessages(n) \in Seq(Msgs)
         /\ Len(log[n]) + Len(ReadMessages(n)) <= msgCount
         /\ \A i \in 1 .. Len(ReadMessages(n)) :
              ReadMessages(n)[i] = msgs[Len(log[n]) + i - 1]
<1> DEFINE local == Len(log[n])
           limit == IF msgCount > local + MsgPerPoll THEN local + MsgPerPoll ELSE msgCount
           top == Minus(limit, local)
           P(k) == /\ \A p \in local .. local + k - 1 : msgs[p] # None
                   /\ k = top \/ msgs[local + k] = None
           size == CHOOSE k \in 0 .. top : P(k)
<1>1. /\ local \in Nat /\ msgCount \in 0 .. MaxMsgs /\ local <= msgCount
      /\ MsgPerPoll \in Nat /\ MaxMsgs \in Nat /\ msgs \in [Positions -> MaybeMsg]
  BY SMTT(60), LogLength, BoundsAssumption DEF BoundsAssumption, IInv, TypeOK, LogsAgree
<1>2. top \in Nat /\ local + top <= msgCount
  <2> HIDE DEF local
  <2>1. limit \in Nat /\ local <= limit /\ limit <= msgCount
    BY <1>1, SMTT(60)
  <2> HIDE DEF limit
  <2> QED BY <1>1, <2>1 DEF Minus
<1>3. \A p \in local .. local + top - 1 : p \in Positions /\ p < msgCount
  BY SMTT(60), <1>1, <1>2 DEF Positions
<1>4. \A p \in local .. local + top - 1 : msgs[p] # None /\ msgs[p] \in Msgs
  BY <1>1, <1>3, Zenon DEF IInv, LogComplete, MaybeMsg
<1>5. ReadMessages(n) = [i \in 1 .. size |-> msgs[local + i - 1]]
  BY Zenon DEF ReadMessages
<1> HIDE DEF top, local
<1>6. size \in 0 .. top
  <2>1. top \in 0 .. top /\ P(top)
    BY <1>2, <1>4, SMTT(60)
  <2> HIDE DEF P
  <2> QED BY <2>1, Zenon
<1> HIDE DEF size
<1>7. \A i \in 1 .. size : local + i - 1 \in local .. local + top - 1
  BY SMTT(60), <1>1, <1>2, <1>6
<1>8. \A i \in 1 .. size : msgs[local + i - 1] \in Msgs
  BY <1>4, <1>7, Zenon
<1>9. size \in Nat
  BY <1>2, <1>6, SMTT(60)
<1>10. ReadMessages(n) \in Seq(Msgs) /\ Len(ReadMessages(n)) = size
  BY SMTT(60), <1>5, <1>8, <1>9
<1>11. local + size <= msgCount
  BY SMTT(60), <1>1, <1>2, <1>6
<1> QED BY <1>5, <1>10, <1>11, ZenonT(60) DEF local

\* The messages update read continue the log of the node.
LEMMA AddMessagesFacts ==
  ASSUME IInv, NEW n \in Nodes, NEW new \in Seq(Msgs), AddMessages(n, new),
         Len(log[n]) + Len(new) <= msgCount,
         \A i \in 1 .. Len(new) : new[i] = msgs[Len(log[n]) + i - 1],
         UNCHANGED <<chosen, msgCount, msgs, acq, seq>>,
         \A m \in Nodes \ {n} : upd'[m] = upd[m],
         UpdThread(n)' \/ upd'[n].pc \notin {"keep", "take", "keeping", "taking"}
  PROVE  /\ log' \in [Nodes -> Seq(Msgs)] /\ LogComplete' /\ LogsAgree'
         /\ Len(log'[n]) \in 0 .. MaxMsgs
         /\ \A m \in Nodes : NodeInv(m)'
<1>1. log' = [log EXCEPT ![n] = log[n] \o new] /\ (new # <<>> => seq[n].st = "idle")
  BY Zenon DEF AddMessages
<1>2. /\ log' \in [Nodes -> Seq(Msgs)] /\ LogComplete' /\ LogsAgree'
      /\ Len(log'[n]) = Len(log[n]) + Len(new) /\ Len(new) \in Nat
      /\ \A m \in Nodes \ {n} : log'[m] = log[m]
  BY <1>1, LogGrows, ZenonT(60)
<1>3. /\ msgCount \in 0 .. MaxMsgs /\ MaxMsgs \in Nat
      /\ log \in [Nodes -> Seq(Msgs)] /\ Len(log[n]) \in Nat
  BY SMTT(60), BoundsAssumption DEF BoundsAssumption, IInv, TypeOK
<1>4. Len(log'[n]) \in 0 .. MaxMsgs
  BY SMTT(60), <1>2, <1>3
<1>5. ASSUME NEW m \in Nodes, m # n PROVE NodeInv(m)'
  BY SMTT(60), <1>2, <1>3, <1>5, NodeStable
<1>6. NodeInv(n)'
  <2>1. CASE new = <<>>
    <3>1. log'[n] = log[n]
      BY SMTT(60), <1>1, <1>3, <2>1
    <3> QED BY SMTT(60), <1>3, <3>1, NodeStable
  <2>2. CASE new # <<>>
    BY <1>1, <1>2, <1>3, <2>2, NodeExtends, SMTT(60)
  <2> QED BY <2>1, <2>2, ZenonT(60)
<1> QED BY <1>2, <1>4, <1>5, <1>6, Zenon

\* update reads messages and adds them.
LEMMA UpdateReadInv ==
  ASSUME IInv, NEW n \in Nodes, UpdateRead(n)
  PROVE  IInv'
<1>1. TypeOK
  BY Zenon DEF IInv
<1> DEFINE R == ReadMessages(n)
<1>2. PICK synced \in BOOLEAN, ok \in [{"forward", "wants"} -> BOOLEAN], k \in 0 .. Len(R) :
        /\ Fault \/ NoFault
        /\ FollowRecommended(n, ok["forward"])
        /\ AddMessages(n, SubSeq(R, 1, k))
        /\ WantsUpdate(n, ok["wants"]) \/ WantsRelease(n, ok["wants"])
  BY BoundsAssumption, Zenon DEF BoundsAssumption, UpdateRead
<1>3. /\ upd' \in [Nodes -> Updates] /\ \A m \in Nodes \ {n} : upd'[m] = upd[m]
      /\ upd'[n].pc \notin {"keep", "keeping", "take", "taking"}
  BY <1>1, RestingType, GotoFacts, ZenonT(60) DEF UpdateRead
<1>4. UNCHANGED <<chosen, chosenTtl, msgCount, msgs, lockout, avoid, release, seq, acq>>
  BY ZenonT(60) DEF UpdateRead
<1>5. /\ R \in Seq(Msgs) /\ Len(log[n]) + Len(R) <= msgCount /\ Len(R) \in Nat
      /\ \A i \in 1 .. Len(R) : R[i] = msgs[Len(log[n]) + i - 1]
      /\ Len(log[n]) \in Nat /\ msgCount \in Nat
  BY <1>1, ReadMessagesFacts, LogLength, SMTT(60) DEF TypeOK
<1> HIDE DEF R
<1> DEFINE new == SubSeq(R, 1, k)
<1>6. /\ new \in Seq(Msgs) /\ Len(new) = k
      /\ \A i \in 1 .. k : new[i] = R[i]
  BY <1>5
<1>7. /\ Len(log[n]) + Len(new) <= msgCount
      /\ \A i \in 1 .. Len(new) : new[i] = msgs[Len(log[n]) + i - 1]
  <2> HIDE DEF new
  <2>1. k \in Nat /\ k <= Len(R) /\ \A i \in 1 .. k : i \in 1 .. Len(R)
    BY <1>5, SMTT(60)
  <2>2. Len(log[n]) + k <= msgCount
    BY <1>5, <2>1
  <2> QED BY <1>5, <1>6, <2>1, <2>2, ZenonT(60)
<1>8. AddMessages(n, new)
  BY <1>2, Zenon
<1> HIDE DEF new
<1>9. /\ log' \in [Nodes -> Seq(Msgs)] /\ LogComplete' /\ LogsAgree'
      /\ \A m \in Nodes : NodeInv(m)'
  BY <1>3, <1>4, <1>6, <1>7, <1>8, AddMessagesFacts, ZenonT(60)
<1>10. /\ wants' \in [Nodes -> 0 .. LockoutDuration] /\ reported' \in [Nodes -> BOOLEAN]
       /\ faults' \in 0 .. MaxFaults
       /\ prevChosen' \in [Nodes -> MaybeNode]
       /\ mode' \in [Nodes -> {"paused", "forward", "active"}]
  <2>1. ok["forward"] \in BOOLEAN /\ ok["wants"] \in BOOLEAN
    OBVIOUS
  <2>2. faults' \in 0 .. MaxFaults
    BY <1>1, <1>2, FaultType, Zenon
  <2>3. wants' \in [Nodes -> 0 .. LockoutDuration] /\ reported' \in [Nodes -> BOOLEAN]
    BY <1>1, <1>2, <2>1, WantsType, Zenon
  <2>4. /\ prevChosen' \in [Nodes -> MaybeNode]
        /\ mode' \in [Nodes -> {"paused", "forward", "active"}]
    BY <1>1, <1>2, <2>1, FollowType, ZenonT(60)
  <2> QED BY <2>2, <2>3, <2>4, ZenonT(60)
<1>11. TypeOK'
  BY <1>1, <1>3, <1>4, <1>9, <1>10, ZenonT(60) DEF TypeOK
<1> QED BY <1>9, <1>11, Zenon DEF IInv

\* update reads the last messages and takes the lease over.
LEMMA UpdateTakeoverInv ==
  ASSUME IInv, NEW n \in Nodes, UpdateTakeover(n)
  PROVE  IInv'
<1> USE DEF redis
<1>1. TypeOK /\ upd \in [Nodes -> Updates]
  BY Zenon DEF IInv, TypeOK
<1> DEFINE R == ReadMessages(n)
           u == [pc |-> "take", next |-> None, exp |-> Len(log'[n])]
<1>2. AddMessages(n, R) /\ upd' = [upd EXCEPT ![n] = u]
  BY Zenon DEF UpdateTakeover
<1>3. UNCHANGED <<redis, prevChosen, reported, lockout, avoid, release, seq, acq, faults>>
  BY Zenon DEF UpdateTakeover
<1>4. /\ R \in Seq(Msgs) /\ Len(log[n]) + Len(R) <= msgCount /\ Len(R) \in Nat
      /\ \A i \in 1 .. Len(R) : R[i] = msgs[Len(log[n]) + i - 1]
  BY ReadMessagesFacts
<1> HIDE DEF R
<1>5. log' \in [Nodes -> Seq(Msgs)] /\ Len(log'[n]) = Len(log[n]) + Len(R)
  BY <1>2, <1>3, <1>4, LogGrows, ZenonT(60) DEF AddMessages
<1>6. Len(log'[n]) \in 0 .. MaxMsgs
  BY SMTT(60), <1>1, <1>3, <1>4, <1>5, LogLength, BoundsAssumption DEF BoundsAssumption, TypeOK
<1>7. u \in Updates /\ u.exp = Len(log'[n])
  BY <1>6, Zenon DEF Updates, UpdatePcs, MaybeNode
<1> HIDE DEF u
<1>8. /\ upd' \in [Nodes -> Updates] /\ \A m \in Nodes \ {n} : upd'[m] = upd[m]
      /\ upd'[n] = u
  BY <1>1, <1>2, <1>7, ZenonT(60)
<1>9. UpdThread(n)'
  BY SMTT(60), <1>6, <1>7, <1>8 DEF UpdThread
<1>10. /\ LogComplete' /\ LogsAgree' /\ \A m \in Nodes : NodeInv(m)'
  BY <1>2, <1>3, <1>4, <1>8, <1>9, AddMessagesFacts, ZenonT(60)
<1>11. mode' \in [Nodes -> {"paused", "forward", "active"}]
  BY <1>1, Zenon DEF TypeOK, UpdateTakeover
<1>12. TypeOK'
  BY <1>1, <1>3, <1>5, <1>8, <1>11, ZenonT(60) DEF TypeOK
<1> QED BY <1>10, <1>12, ZenonT(60) DEF IInv

\* A node crashes and starts again.
LEMMA RestartInv ==
  ASSUME IInv, NEW n \in Nodes, Restart(n)
  PROVE  IInv'
<1> USE DEF redis
<1>1. TypeOK /\ msgCount \in Nat
  BY SMTT(60) DEF IInv, TypeOK
<1>2. faults' \in 0 .. MaxFaults
  BY <1>1, FaultType, Zenon DEF Restart
<1>3. /\ upd' \in [Nodes -> Updates] /\ seq' \in [Nodes -> Seqs] /\ acq' \in [Nodes -> Acqs]
      /\ upd'[n] = NoUpdate /\ seq'[n] = NoSeq /\ acq'[n] = NoAcq
      /\ \A m \in Nodes \ {n} : upd'[m] = upd[m] /\ seq'[m] = seq[m] /\ acq'[m] = acq[m]
  BY <1>1, IdleTypes, ZenonT(60) DEF Restart, TypeOK
<1>4. /\ prevChosen' \in [Nodes -> MaybeNode] /\ reported' \in [Nodes -> BOOLEAN]
      /\ lockout' \in [Nodes -> 0 .. LockoutDuration] /\ avoid' \in [Nodes -> 0 .. MaxAvoid]
      /\ mode' \in [Nodes -> {"paused", "forward", "active"}]
      /\ release' \in [Nodes -> {"none", "clean", "dirty"}]
  BY SMTT(60), <1>1, BoundsAssumption DEF BoundsAssumption, Restart, TypeOK, MaybeNode
<1>5. UNCHANGED <<redis, log>>
  BY Zenon DEF Restart
<1>6. TypeOK'
  BY <1>1, <1>2, <1>3, <1>4, <1>5, Zenon DEF TypeOK
<1>7. LogComplete' /\ LogsAgree'
  BY <1>5, ZenonT(60) DEF IInv, LogComplete, LogsAgree
<1>8. NodeInv(n)'
  BY SMTT(60), <1>1, <1>3, <1>5, IdleTypes, NodeReset
<1>9. ASSUME NEW m \in Nodes, m # n PROVE NodeInv(m)'
  BY SMTT(60), <1>1, <1>3, <1>5, <1>9, NodeStable
<1> QED BY <1>6, <1>7, <1>8, <1>9, ZenonT(60) DEF IInv

(***************************************************************************)
(* The theorems.                                                           *)
(***************************************************************************)
\* The invariant is inductive: one case for each step of the coordinator.
LEMMA NextInv ==
  ASSUME IInv, [Next]_vars
  PROVE  IInv'
<1>1. CASE UNCHANGED vars
  BY ZenonT(60), <1>1 DEF vars, redis, node, ctl, IInv, TypeOK, LogComplete, LogsAgree, NodeInv,
     Undisturbed, AcqCaller, SeqThread, UpdThread, Published
<1>2. CASE Tick
  BY <1>2, TickInv, Zenon
<1>3. ASSUME NEW n \in Nodes, Step(n) PROVE IInv'
  BY <1>3, AcquireExecInv, AcquireFailsInv, AcquirePostInv, UpdateRecommendInv,
     UpdateHandOverInv, UpdateReleasedInv, UpdateKeepaliveInv, UpdateAcquireInv,
     UpdateReadInv, UpdateNoCountInv, UpdateTakeoverInv, UpdateActivateInv,
     UpdateRetryInv, SequenceStartInv, SequenceAcquireInv, SequenceWriteInv, FeedInv,
     AvoidLockoutInv, SeekLockoutInv, StopAndWaitInv, StopWantsInv, StopChosenInv,
     StopReleasedInv, RestartInv, SMTT(60)
  DEF Step
<1> QED BY <1>1, <1>2, <1>3, ZenonT(60) DEF Next

\* The invariant holds in every reachable state.
THEOREM Invariance == Spec => []IInv
<1>1. Init => IInv
  BY InitInv, Zenon
<1>2. IInv /\ [Next]_vars => IInv'
  BY NextInv, Zenon
<1> QED BY <1>1, <1>2, PTL DEF Spec

\* Every variable of the coordinators and of Redis keeps its type: no lease,
\* count or position leaves its range.
THEOREM TypeCorrect == Spec => []TypeOK
<1>1. IInv => TypeOK
  BY Zenon DEF IInv
<1> QED BY <1>1, Invariance, PTL

\* Whatever leases the nodes believe they hold, each node's database is a prefix
\* of the log in Redis: WriteMessageFromSequencer and update never fork it.
THEOREM LogsNeverFork == Spec => []LogsAgree
<1>1. IInv => LogsAgree
  BY Zenon DEF IInv
<1> QED BY <1>1, Invariance, PTL

\* MSG_COUNT never counts a message whose key was not written.
THEOREM CountIsBacked == Spec => []LogComplete
<1>1. IInv => LogComplete
  BY Zenon DEF IInv
<1> QED BY <1>1, Invariance, PTL

(***************************************************************************)
(* Every step leaves the log in Redis and the databases alone, extends one *)
(* node's database, or is the EXEC of an undisturbed transaction.          *)
(***************************************************************************)
QuietStep == UNCHANGED <<msgCount, msgs, log>> /\ chosen' \in {None, chosen}

LearnStep(n) == /\ UNCHANGED <<chosen, msgCount, msgs>>
                /\ \E new \in Seq(Msgs) : log' = [log EXCEPT ![n] = log[n] \o new]

WriteStep(n) == acq[n].st = "watch" /\ AcquireWrites(n) /\ log' = log

\* Every step learns from redis, writes to it, or leaves messages and logs alone.
LEMMA StepKinds ==
  ASSUME IInv, [Next]_vars
  PROVE  QuietStep \/ \E n \in Nodes : LearnStep(n) \/ WriteStep(n)
<1> USE DEF redis, node, ctl
<1>1. CASE UNCHANGED vars
  BY <1>1, Zenon DEF vars, QuietStep
<1>2. CASE Tick
  BY <1>2, Zenon DEF Tick, QuietStep
<1>3. ASSUME NEW n \in Nodes, Step(n) PROVE QuietStep \/ LearnStep(n) \/ WriteStep(n)
  <2>0. TypeOK
    BY Zenon DEF IInv
  <2>1. CASE AcquireExec(n) \/ AcquireFails(n)
    BY <2>1, Zenon DEF AcquireExec, AcquireFails, QuietStep, WriteStep
  <2>2. CASE AcquirePost(n) \/ UpdateRecommend(n) \/ UpdateHandOver(n)
    BY <2>2, Zenon DEF AcquirePost, UpdateRecommend, UpdateHandOver, QuietStep
  <2>3. CASE UpdateReleased(n) \/ StopReleased(n)
    <3>1. (ReleaseReturnsNil(n) \/ ReleaseErrs(n)) /\ log' = log
      BY <2>3, Zenon DEF UpdateReleased, StopReleased
    <3> QED BY <2>0, <3>1, ReleaseFacts, Zenon DEF QuietStep
  <2>4. CASE UpdateKeepalive(n) \/ UpdateAcquire(n) \/ UpdateNoCount(n)
             \/ UpdateActivate(n) \/ UpdateRetry(n)
    BY <2>4, Zenon DEF UpdateKeepalive, UpdateAcquire, UpdateNoCount, UpdateActivate,
       UpdateRetry, QuietStep
  <2>5. CASE SequenceStart(n) \/ SequenceAcquire(n) \/ AvoidLockout(n) \/ SeekLockout(n)
    BY <2>5, Zenon
    DEF SequenceStart, SequenceAcquire, AvoidLockout, SeekLockout, QuietStep
  <2>6. CASE StopAndWait(n) \/ StopWants(n) \/ StopChosen(n) \/ Restart(n)
    BY <2>6, Zenon DEF StopAndWait, StopWants, StopChosen, Restart, QuietStep
  <2>7. CASE UpdateRead(n)
    <3>1. PICK k \in 0 .. Len(ReadMessages(n)) : AddMessages(n, SubSeq(ReadMessages(n), 1, k))
      BY <2>7, Zenon DEF UpdateRead
    <3>2. SubSeq(ReadMessages(n), 1, k) \in Seq(Msgs)
      BY ReadMessagesFacts
    <3> QED BY <2>7, <3>1, <3>2, Zenon DEF UpdateRead, AddMessages, LearnStep
  <2>8. CASE UpdateTakeover(n)
    BY <2>8, ReadMessagesFacts, Zenon DEF UpdateTakeover, AddMessages, LearnStep
  <2>9. CASE SequenceWrite(n)
    <3>1. log[n] \in Seq(Msgs) /\ seq[n].msg \in Msgs
      BY <2>0, <2>9, ZenonT(60) DEF TypeOK, IInv, NodeInv, SeqThread, SequenceWrite
    <3>2. Append(log[n], seq[n].msg) = log[n] \o <<seq[n].msg>> /\ <<seq[n].msg>> \in Seq(Msgs)
      BY <3>1, AppendOne, Zenon
    <3> QED BY <2>9, <3>2, ZenonT(60) DEF SequenceWrite, LearnStep
  <2>10. CASE Feed(n)
    <3>1. PICK s \in Nodes : /\ Len(log[s]) > Len(log[n])
                             /\ log' = [log EXCEPT ![n] = Append(@, log[s][Len(@) + 1])]
      BY <2>10, ZenonT(60) DEF Feed
    <3>2. log[n] \in Seq(Msgs) /\ log[s] \in Seq(Msgs) /\ log[s][Len(log[n]) + 1] \in Msgs
      BY SMTT(60), <2>0, <3>1 DEF TypeOK
    <3>3. Append(log[n], log[s][Len(log[n]) + 1]) = log[n] \o <<log[s][Len(log[n]) + 1]>>
          /\ <<log[s][Len(log[n]) + 1]>> \in Seq(Msgs)
      BY <3>2, AppendOne, Zenon
    <3> QED BY <2>10, <3>1, <3>3, ZenonT(60) DEF Feed, LearnStep
  <2> QED BY <1>3, <2>1, <2>2, <2>3, <2>4, <2>5, <2>6, <2>7, <2>8, <2>9, <2>10, ZenonT(60) DEF Step
<1> QED BY <1>1, <1>2, <1>3, Zenon DEF Next

\* No transaction of any node, however stale the lease it believes in, rewrites
\* a sequenced message or lowers MSG_COUNT.
THEOREM SequencedIsFinal == Spec => MessagesFinal
<1> DEFINE A == /\ msgCount <= msgCount'
                /\ \A p \in Positions : msgs[p] # None => msgs'[p] = msgs[p]
<1>1. IInv /\ [Next]_vars => [A]_vars
  <2> SUFFICES ASSUME IInv, [Next]_vars PROVE A
    BY SMTT(60)
  <2>1. msgCount \in Nat
    BY DEF IInv, TypeOK
  <2>2. ASSUME NEW n \in Nodes, WriteStep(n) PROVE A
    BY <2>2, WritesFacts, Zenon DEF WriteStep
  <2> QED BY <2>1, <2>2, StepKinds, SMTT(60) DEF QuietStep, LearnStep
<1> QED BY <1>1, Invariance, PTL DEF Spec, MessagesFinal

\* No node overwrites the lease of another: CHOSEN is free or the node's own
\* when an undisturbed transaction writes it.
THEOREM LeaseNeverStolen == Spec => ChosenNeverOverwritten
<1> DEFINE A == chosen # None => chosen' \in {chosen, None}
<1>1. IInv /\ [Next]_vars => [A]_vars
  <2> SUFFICES ASSUME IInv, [Next]_vars PROVE A
    OBVIOUS
  <2>1. ASSUME NEW n \in Nodes, WriteStep(n) PROVE A
    BY <2>1, WritesFacts, Zenon DEF WriteStep
  <2> QED BY <2>1, StepKinds, Zenon DEF QuietStep, LearnStep
<1> QED BY <1>1, Invariance, PTL DEF Spec, ChosenNeverOverwritten

(***************************************************************************)
(* Refinement: the coordinators implement one shared append-only log.      *)
(***************************************************************************)
\* The log that redis holds, and its length.
LEMMA RedisLogFacts ==
  ASSUME IInv
  PROVE  /\ RedisLog \in Seq(Msgs) /\ Len(RedisLog) = msgCount /\ msgCount \in Nat
         /\ \A i \in 1 .. msgCount : RedisLog[i] = msgs[i - 1]
<1>1. msgCount \in 0 .. MaxMsgs /\ msgs \in [Positions -> MaybeMsg] /\ MaxMsgs \in Nat
  BY BoundsAssumption, ZenonT(60) DEF BoundsAssumption, IInv, TypeOK
<1>2. \A i \in 1 .. msgCount : i - 1 \in Positions /\ i - 1 < msgCount
  BY <1>1 DEF Positions
<1>3. \A i \in 1 .. msgCount : msgs[i - 1] \in Msgs
  BY <1>1, <1>2, Zenon DEF IInv, LogComplete, MaybeMsg
<1> QED BY <1>1, <1>3, SMTT(60) DEF RedisLog

\* Two sequences with the same members at the same places are equal.
LEMMA SameSeq ==
  ASSUME NEW S, NEW s \in Seq(S), NEW t \in Seq(S), Len(s) = Len(t),
         \A i \in 1 .. Len(s) : s[i] = t[i]
  PROVE  s = t
BY SMTT(60)

\* The coordinator starts where the abstract message log starts.
LEMMA RefineInit == Init => Abstract!Init
<1> SUFFICES ASSUME Init PROVE RedisLog = <<>> /\ log = [n \in Nodes |-> <<>>]
  BY Zenon DEF Abstract!Init
<1>1. IInv /\ msgCount = 0
  BY InitInv, Zenon DEF Init
<1>2. RedisLog \in Seq(Msgs) /\ Len(RedisLog) = 0
  BY <1>1, RedisLogFacts, Zenon
<1> QED BY <1>2 DEF Init

\* The node that sequences a message has the whole log.
LEMMA RefineWrite ==
  ASSUME IInv, IInv', NEW n \in Nodes, WriteStep(n)
  PROVE  [Abstract!Next]_<<RedisLog, log>>
<1>1. log' = log /\ acq[n].st = "watch" /\ AcquireWrites(n)
  BY Zenon DEF WriteStep
<1>2. CASE msgCount' = msgCount /\ msgs' = msgs
  BY <1>1, <1>2, Zenon DEF RedisLog
<1>3. CASE /\ msgCount' = msgCount + 1 /\ msgCount \in Positions
           /\ seq[n].msg \in Msgs /\ Len(log[n]) = msgCount
           /\ msgs' = [msgs EXCEPT ![msgCount] = seq[n].msg]
  <2> DEFINE x == seq[n].msg
  <2>1. /\ RedisLog \in Seq(Msgs) /\ Len(RedisLog) = msgCount /\ msgCount \in Nat
        /\ \A i \in 1 .. msgCount : RedisLog[i] = msgs[i - 1]
    BY RedisLogFacts, Zenon
  <2>2. /\ RedisLog' \in Seq(Msgs) /\ Len(RedisLog') = msgCount + 1
        /\ \A i \in 1 .. msgCount + 1 : RedisLog'[i] = msgs'[i - 1]
    <3>1. (/\ RedisLog \in Seq(Msgs) /\ Len(RedisLog) = msgCount /\ msgCount \in Nat
           /\ \A i \in 1 .. msgCount : RedisLog[i] = msgs[i - 1])'
      BY IInv', RedisLogFacts, PTL
    <3> QED BY <1>3, <3>1, Zenon
  <2>3. log[n] = RedisLog
    <3>1. log[n] \in Seq(Msgs) /\ \A i \in 1 .. Len(log[n]) : log[n][i] = msgs[i - 1]
      BY Zenon DEF IInv, TypeOK, LogsAgree
    <3> QED BY <1>3, <2>1, <3>1, SameSeq, ZenonT(60)
  <2>4. RedisLog' = Append(RedisLog, x)
    <3>1. msgs \in [Positions -> MaybeMsg]
      BY ZenonT(60) DEF IInv, TypeOK
    <3>2. /\ Append(RedisLog, x) \in Seq(Msgs) /\ Len(Append(RedisLog, x)) = msgCount + 1
          /\ \A i \in 1 .. msgCount : Append(RedisLog, x)[i] = RedisLog[i]
          /\ Append(RedisLog, x)[msgCount + 1] = x
      BY <1>3, <2>1, SMTT(60)
    <3>3. ASSUME NEW i \in 1 .. msgCount + 1
          PROVE  RedisLog'[i] = Append(RedisLog, x)[i]
      <4>1. CASE i = msgCount + 1
        <5>1. msgs'[msgCount] = x /\ i - 1 = msgCount
          BY <1>3, <2>1, <3>1, <4>1, SMTT(60)
        <5> QED BY <2>2, <3>2, <4>1, <5>1, ZenonT(60)
      <4>2. CASE i \in 1 .. msgCount
        <5>1. i - 1 # msgCount
          BY <2>1, <4>2
        <5>2. msgs'[i - 1] = msgs[i - 1]
          <6>1. i - 1 \in Positions
            <7>1. msgCount <= MaxMsgs - 1 /\ MaxMsgs \in Nat
              BY <1>3, <2>1, BoundsAssumption, SMTT(60) DEF BoundsAssumption, Positions
            <7> QED BY <2>1, <4>2, <7>1, SMTT(60) DEF Positions
          <6> QED BY <1>3, <3>1, <5>1, <6>1, ZenonT(60)
        <5> QED BY <2>1, <2>2, <3>2, <4>2, <5>2, ZenonT(60)
      <4> QED BY <2>1, <4>1, <4>2, SMTT(60)
    <3> QED BY <2>2, <3>2, <3>3, SameSeq, ZenonT(60)
  <2> QED BY <1>1, <1>3, <2>3, <2>4, Zenon DEF Abstract!Next, Abstract!Sequence
<1> QED BY <1>1, <1>2, <1>3, WritesFacts, Zenon

\* A node that learns messages is a learning step of the abstract log.
LEMMA RefineLearn ==
  ASSUME IInv, IInv', NEW n \in Nodes, LearnStep(n)
  PROVE  [Abstract!Next]_<<RedisLog, log>>
<1>1. PICK new \in Seq(Msgs) : log' = [log EXCEPT ![n] = log[n] \o new]
  BY Zenon DEF LearnStep
<1>2. UNCHANGED <<msgCount, msgs>> /\ RedisLog' = RedisLog
  BY Zenon DEF LearnStep, RedisLog
<1>3. log \in [Nodes -> Seq(Msgs)] /\ log[n] \in Seq(Msgs)
  BY Zenon DEF IInv, TypeOK
<1> DEFINE g == log[n] \o new
           k == Len(log[n]) + Len(new)
<1>4. g \in Seq(Msgs) /\ Len(g) = k /\ Len(log[n]) \in Nat /\ Len(new) \in Nat
  BY <1>3, SMTT(60)
<1>5. CASE new = <<>>
  BY <1>1, <1>2, <1>3, <1>5, SMTT(60)
<1>6. CASE new # <<>>
  <2>1. k > Len(log[n])
    BY <1>4, <1>6
  <2>2. /\ RedisLog \in Seq(Msgs) /\ Len(RedisLog) = msgCount /\ msgCount \in Nat
        /\ \A i \in 1 .. msgCount : RedisLog[i] = msgs[i - 1]
    BY RedisLogFacts, Zenon
  <2>3. log'[n] = g
    BY <1>1, <1>3, Zenon
  <2>4. k <= msgCount /\ \A i \in 1 .. k : g[i] = msgs[i - 1]
    <3>1. /\ Len(log'[n]) <= msgCount'
          /\ \A i \in 1 .. Len(log'[n]) : log'[n][i] = msgs'[i - 1]
      BY Zenon DEF IInv, LogsAgree
    <3> HIDE DEF g, k
    <3> QED BY <1>2, <1>4, <2>3, <3>1, ZenonT(60)
  <2> HIDE DEF g
  <2>5. SubSeq(RedisLog, 1, k) = g
    <3>1. /\ SubSeq(RedisLog, 1, k) \in Seq(Msgs) /\ Len(SubSeq(RedisLog, 1, k)) = k
          /\ \A i \in 1 .. k : SubSeq(RedisLog, 1, k)[i] = RedisLog[i]
      BY SMTT(60), <1>4, <2>2, <2>4
    <3>2. ASSUME NEW i \in 1 .. k PROVE RedisLog[i] = g[i]
      <4>1. k \in Nat
        BY <1>4
      <4> HIDE DEF k
      <4>2. i \in 1 .. msgCount
        BY <2>2, <2>4, <4>1, SMTT(60)
      <4> QED BY <2>2, <2>4, <4>2, Zenon
    <3> QED BY <1>4, <3>1, <3>2, SameSeq, ZenonT(60)
  <2>6. log' = [log EXCEPT ![n] = SubSeq(RedisLog, 1, k)]
    BY <1>1, <2>5, ZenonT(60) DEF g
  <2>7. k \in Len(log[n]) + 1 .. Len(RedisLog)
    BY <1>4, <2>1, <2>2, <2>4, SMTT(60)
  <2> QED BY <1>2, <2>6, <2>7, Zenon DEF Abstract!Next, Abstract!Learn
<1> QED BY <1>5, <1>6, Zenon

\* The coordinators implement MessageLog: the log in Redis only grows, by a node
\* that has all of it, and every database holds a prefix of it.
THEOREM Refinement == Spec => ImplementsMessageLog
<1>1. Init => Abstract!Init
  BY RefineInit, Zenon
<1>2. IInv /\ IInv' /\ [Next]_vars => [Abstract!Next]_<<RedisLog, log>>
  <2> SUFFICES ASSUME IInv, IInv', [Next]_vars
               PROVE  [Abstract!Next]_<<RedisLog, log>>
    OBVIOUS
  <2>1. CASE QuietStep
    BY <2>1 DEF QuietStep, RedisLog
  <2> QED BY <2>1, StepKinds, RefineWrite, RefineLearn, ZenonT(60)
<1> QED BY <1>1, <1>2, Invariance, PTL DEF Spec, ImplementsMessageLog, Abstract!Spec
=============================================================================
