------------------------------- MODULE Staker -------------------------------
(***************************************************************************)
(* The staker (staker/staker.go, staker/l1_validator.go): one validator    *)
(* that reads the rollup contract, decides on transactions and has its     *)
(* wallet execute them, next to another staker that asserts right and      *)
(* wrong states.  Between the reading and the execution the contract's     *)
(* state moves on, and the contract refuses what no longer fits.           *)
(*                                                                         *)
(* A node is an assertion: its parent, the number of messages (batches of  *)
(* one message) it covers, and whether it agrees with the node's chain.    *)
(* Ages: 0 fresh, 1 the minimum assertion period is over, 2 the assertion  *)
(* interval is, 3 the deadline is.                                         *)
(***************************************************************************)
EXTENDS Integers, FiniteSetsExt, Sequences

CONSTANTS
  MaxNodes, MaxCount,   \* assertions, messages
  HighGasDelay,         \* HighGasDelayBlocks in polls
  AdvanceLimit,         \* nodes passed in one call of Act
  StakerConfigs         \* strategy, wallet, starting point and fault budget

VARIABLES
  cfgS,      \* the configuration
  nodes,     \* the assertions, node 0 left out
  confirmed, unresolved,   \* latestConfirmed and firstUnresolvedNode
  stake,     \* the node each staker is staked on, NoStake when not staked
  funds,     \* our withdrawable funds are positive
  chal,      \* the challenge between us and the other staker
  valid,     \* the block validator: count, and whether module roots are recorded
  actor      \* our staker: pc, transactions, and its fields

stakerVars == <<cfgS, nodes, confirmed, unresolved, stake, funds, chal, valid, actor>>

Watchtower == 0
Defensive == 1
StakeLatest == 2
ResolveNodes == 3
MakeNodes == 4
NoStake == -1
NoChallenge == [on |-> FALSE]
Node(n) == IF n = 0 THEN [parent |-> 0, count |-> 0, ok |-> TRUE, age |-> 3, max |-> 1] ELSE nodes[n]
\* Folds a sequence from its first element.
InOrder(Op(_, _), base, q) ==
  LET f[i \in 0 .. Len(q)] == IF i = 0 THEN base ELSE Op(f[i - 1], q[i]) IN f[Len(q)]

Children(n) == SelectSeq([i \in 1 .. Len(nodes) |-> i], LAMBDA i : nodes[i].parent = n)
-----------------------------------------------------------------------------
(* The rollup contract (external).                                         *)
Ancestry(n) == LET path[k \in 0 .. n] == IF k = 0 THEN {0} ELSE {k} \cup path[nodes[k].parent] IN path[n]
StakedOn(who, n) == stake[who] # NoStake /\ n \in Ancestry(stake[who])
Linear == \A n \in unresolved .. Len(nodes) : nodes[n].parent = (IF n = unresolved THEN confirmed ELSE n - 1)

\* CheckDecidableNextNode.
Decidable ==
  LET n == unresolved IN
  IF n > Len(nodes) THEN "none"
  ELSE IF nodes[n].parent < confirmed THEN "invalid"
  ELSE LET on == {s \in DOMAIN stake : StakedOn(s, n)}
           all == {s \in DOMAIN stake : stake[s] > confirmed}
       IN IF nodes[n].age < 3 THEN "none"
          ELSE IF on = {} /\ all # {} THEN "invalid"
          ELSE IF on # {} /\ on = all THEN "valid" ELSE "none"

\* FindStakerConflict: the two nodes on which the paths of the stakers part.
Conflict ==
  IF stake["me"] <= 0 \/ stake["other"] <= 0 THEN {}
  ELSE {c \in Ancestry(stake["me"]) \X Ancestry(stake["other"]) :
          /\ c[1] > 0 /\ c[2] > 0 /\ c[1] # c[2]
          /\ nodes[c[1]].parent = nodes[c[2]].parent}
-----------------------------------------------------------------------------
\* lookupNodeStartState and the first half of generateNodeAction: what the staker may build on.
\* "wait" is a return without action, "error" one that ends Act.
NodeAct(k, n, wrong) == [k |-> k, node |-> n, wrong |-> wrong]
StartCheck(n) ==
  IF valid.local < Node(n).count THEN "wait"
  ELSE IF ~Node(n).ok THEN "error"
  ELSE IF ~valid.roots THEN "error"
  ELSE IF Node(n).age = 0 THEN "wait" ELSE "go"

\* GlobalStateToMsgCount for the state after the assertion.
SuccessorOK(c) == nodes[c].ok

\* createNewNodeAction.
CreateNewNodeAction(n, wrong) ==
  IF valid.count <= Node(n).count \/ valid.count < Node(n).max THEN NodeAct("none", n, wrong)
  ELSE NodeAct("create", n, wrong)

\* generateNodeAction: the children are examined in order, until one is not yet validated; what
\* comes after the right one is wrong by being younger.
GenerateNodeAction(n, strategy) ==
  IF StartCheck(n) = "wait" THEN NodeAct("none", n, FALSE)
  ELSE IF StartCheck(n) = "error" THEN NodeAct("error", n, FALSE)
  ELSE LET kids == Children(n)
           right == {i \in DOMAIN kids : SuccessorOK(kids[i])}
           first == IF right = {} THEN Len(kids) + 1 ELSE Min(right)
           late == \E i \in 1 .. Min({first, Len(kids)}) : valid.count < nodes[kids[i]].count
           wrong == first > 1 \/ first < Len(kids)
       IN IF late THEN NodeAct("none", n, FALSE)
          ELSE IF right # {} THEN NodeAct("existing", kids[first], wrong)
          ELSE IF strategy = Watchtower THEN NodeAct("none", n, wrong)
          ELSE IF wrong \/ (strategy >= MakeNodes /\ Node(n).age >= 2)
          THEN CreateNewNodeAction(n, wrong)
          ELSE NodeAct("none", n, wrong)
-----------------------------------------------------------------------------
\* A transaction carries what the contract will compare: the number of siblings stands for the
\* hash of the last one.
TxCreate(n) == [k |-> "create", parent |-> n, count |-> valid.count, siblings |-> Len(Children(n))]

\* advanceStake: one node further.  s is the staker's view during Act.
AdvanceStake(s, strategy) ==
  LET a == GenerateNodeAction(s.latest, strategy)
      active == strategy >= StakeLatest
      alarm == a.wrong /\ strategy >= Defensive
  IN CASE a.k = "error" -> [s EXCEPT !.failed = TRUE, !.can = FALSE]
       [] a.k = "none" -> [s EXCEPT !.can = FALSE]
       [] a.k = "create" /\ a.wrong /\ cfgS.disable -> [s EXCEPT !.can = FALSE]
       [] a.k = "create" /\ ~active ->
            [s EXCEPT !.can = FALSE, !.bring = IF alarm THEN s.latest + 1 ELSE @]
       [] a.k = "create" /\ active ->
            [s EXCEPT !.can = FALSE, !.exists = TRUE, !.txs = Append(@, TxCreate(s.latest))]
       [] a.k = "existing" /\ ~active ->
            IF alarm THEN [s EXCEPT !.latest = a.node, !.bring = a.node, !.can = FALSE]
            ELSE [s EXCEPT !.latest = a.node, !.inactive = a.node]
       [] OTHER -> [s EXCEPT !.latest = a.node, !.exists = TRUE,
                             !.txs = Append(@, [k |-> "stake", node |-> a.node])]

\* The loop of Act around advanceStake.
AdvanceLoop(s, strategy) ==
  InOrder(LAMBDA x, i :
             IF ~x.can THEN x
             ELSE LET y == AdvanceStake(x, strategy)
                  IN IF ~cfgS.batch /\ strategy >= StakeLatest THEN [y EXCEPT !.can = FALSE] ELSE y,
           s, [i \in 1 .. AdvanceLimit |-> i])

\* What Act starts from: its own stake, or the latest confirmed node; the effective strategy;
\* and the fields it resets when there is a fork or when it was brought online.
Latest0 == IF stake["me"] # NoStake THEN stake["me"] ELSE confirmed
\* A variant that does not come online for what it found.
BroughtOnlineNever == FALSE
BroughtOnline == actor.bring # 0 /\ Latest0 < actor.bring
Effective == IF (~Linear \/ BroughtOnline) /\ cfgS.strategy = Defensive THEN StakeLatest ELSE cfgS.strategy
ActView ==
  LET bring == IF BroughtOnline THEN actor.bring ELSE 0
      inactive == IF ~Linear \/ actor.bring # 0 THEN 0 ELSE actor.inactive
  IN [latest |-> IF Effective <= Defensive /\ inactive # 0 THEN inactive ELSE Latest0,
      exists |-> stake["me"] # NoStake, can |-> TRUE, failed |-> FALSE, txs |-> <<>>,
      bring |-> bring, inactive |-> inactive, confirmed |-> confirmed]

\* isRequiredStakeElevated: the contract asks for more once the next node could be resolved.
StakeElevated == unresolved <= Len(nodes) /\ nodes[unresolved].age = 3

\* resolveNextNode.
ResolveNextNode(s) ==
  CASE Decidable = "invalid" /\ stake["me"] > unresolved -> [s EXCEPT !.txs = <<[k |-> "reject"]>>]
    [] Decidable = "valid" ->
         [s EXCEPT !.txs = <<[k |-> "confirm", node |-> unresolved]>>, !.confirmed = unresolved,
                   !.latest = IF stake["me"] = NoStake /\ unresolved > @ THEN unresolved ELSE @]
    [] OTHER -> s

\* handleConflict: the move of the challenge manager when it is its turn.
HandleConflict(s) ==
  IF chal.on /\ chal.turn = "me" THEN [s EXCEPT !.txs = Append(@, [k |-> "move"])] ELSE s

\* A variant that only challenges assertions younger than our own.
CreateConflictYounger(s) ==
  IF chal.on \/ \A c \in Conflict : Min({c[1], c[2]}) <= confirmed \/ c[2] < c[1] THEN s
  ELSE [s EXCEPT !.txs = Append(@, [k |-> "challenge"])]
\* createConflict.
CreateConflict(s) ==
  IF chal.on \/ \A c \in Conflict : Min({c[1], c[2]}) <= confirmed THEN s
  ELSE [s EXCEPT !.txs = Append(@, [k |-> "challenge"])]

\* canActFurther, and whether there is a stake of ours (rawInfo).
CanActFurther(s) == cfgS.batch \/ s.txs = <<>>
HasStake == stake["me"] # NoStake

\* The stages of Act after the resolution of the next node: what may be withdrawn, the move in
\* our challenge, the stake, and a new challenge.
Withdrawn(s) == IF funds /\ CanActFurther(s) THEN [s EXCEPT !.txs = Append(@, [k |-> "withdraw"])] ELSE s
ConflictHandled(s) == IF HasStake /\ CanActFurther(s) THEN HandleConflict(s) ELSE s
StakeAdvanced(s, strategy, mayStake) ==
  IF (HasStake \/ mayStake) /\ CanActFurther(s) THEN AdvanceLoop(s, strategy) ELSE s
ConflictCreated(s) == IF HasStake /\ s.txs = <<>> /\ ~s.failed THEN CreateConflict(s) ELSE s

\* An old stake is removed, and nothing else is done.
StakeIsOld(s, strategy) ==
  /\ HasStake /\ stake["me"] <= s.confirmed /\ CanActFurther(s)
  /\ stake["me"] < s.confirmed \/ strategy < StakeLatest

\* A new stake is not made while a node is resolved and the required stake is elevated.
ActRest(s, strategy) ==
  IF StakeIsOld(s, strategy) THEN [s EXCEPT !.txs = @ \o <<[k |-> "return"], [k |-> "withdraw"]>>]
  ELSE ConflictCreated(StakeAdvanced(ConflictHandled(Withdrawn(s)), strategy, s.txs = <<>> \/ ~StakeElevated))

\* An error drops what was built.
ActOutcome(s) == IF s.failed THEN <<>> ELSE s.txs

\* shouldAct: the buffer of blocks for which an expensive transaction is put off.
GasBuffer(high) == IF high THEN Max({0, actor.gas - 1}) ELSE Min({HighGasDelay, actor.gas + 1})

\* What the staker is left with after Act.
ActEnds(s, high) ==
  [gas |-> GasBuffer(high), bring |-> s.bring, inactive |-> s.inactive,
   txs |-> ActOutcome(s), pc |-> IF ActOutcome(s) = <<>> THEN "idle" ELSE "send"]

\* Act, up to the execution of the transactions.
ActResult(high) ==
  LET shouldResolve == Effective >= ResolveNodes \/ (Effective >= StakeLatest /\ ~HasStake /\ StakeElevated)
  IN  IF high /\ GasBuffer(high) > 0 THEN [actor EXCEPT !.gas = GasBuffer(high)]
      ELSE IF shouldResolve /\ chal.on /\ chal.late
      THEN ActEnds([ActView EXCEPT !.txs = <<[k |-> "timeout"]>>], high)
      ELSE ActEnds(ActRest(IF shouldResolve THEN ResolveNextNode(ActView) ELSE ActView, Effective), high)

\* confirmDataPosterIsReady: Act is held back while a transaction is on its way.
DataPosterReady == actor.pc = "idle"

\* A turn of the loop in Start.
Act(high) ==
  /\ DataPosterReady /\ actor' = ActResult(high)
  /\ UNCHANGED <<cfgS, nodes, confirmed, unresolved, stake, funds, chal, valid>>
-----------------------------------------------------------------------------
\* The wallet executes the transactions in one block: all of them or, when the contract
\* refuses one, none (ExecuteTransactions).  c is the contract's state.
Contract == [nodes |-> nodes, confirmed |-> confirmed, unresolved |-> unresolved, stake |-> stake,
             funds |-> funds, chal |-> chal, ok |-> TRUE]
NewChallenge(t) == [on |-> TRUE, turn |-> t, late |-> FALSE]
Apply(c, tx) ==
  LET refuse == [c EXCEPT !.ok = FALSE]
      mine == IF c.stake["me"] = NoStake THEN c.confirmed ELSE c.stake["me"]
      kids(n) == {i \in 1 .. Len(c.nodes) : c.nodes[i].parent = n}
  IN CASE ~c.ok -> c
       [] tx.k = "create" ->
            IF mine # tx.parent \/ Cardinality(kids(mine)) # tx.siblings THEN refuse
            ELSE [c EXCEPT !.nodes = Append(@, [parent |-> mine, count |-> tx.count, ok |-> TRUE,
                                                age |-> 0, max |-> valid.l1]),
                           !.stake["me"] = Len(c.nodes) + 1]
       [] tx.k = "stake" ->
            IF tx.node \notin kids(mine) \/ tx.node < c.unresolved THEN refuse
            ELSE [c EXCEPT !.stake["me"] = tx.node]
       [] tx.k = "confirm" ->
            IF c.unresolved # tx.node \/ Decidable # "valid" THEN refuse
            ELSE [c EXCEPT !.confirmed = tx.node, !.unresolved = tx.node + 1]
       [] tx.k = "reject" -> IF Decidable # "invalid" THEN refuse ELSE [c EXCEPT !.unresolved = @ + 1]
       [] tx.k = "return" ->
            IF c.stake["me"] = NoStake \/ c.stake["me"] > c.confirmed \/ c.chal.on THEN refuse
            ELSE [c EXCEPT !.stake["me"] = NoStake, !.funds = TRUE]
       [] tx.k = "withdraw" -> [c EXCEPT !.funds = FALSE]
       [] tx.k = "move" -> IF ~c.chal.on \/ c.chal.turn # "me" THEN refuse
                           ELSE [c EXCEPT !.chal.turn = "other"]
       [] tx.k = "timeout" -> IF ~(c.chal.on /\ c.chal.late) THEN refuse
                              ELSE [c EXCEPT !.chal = NoChallenge, !.stake["other"] = NoStake, !.funds = TRUE]
       [] OTHER -> IF c.chal.on \/ Conflict = {} THEN refuse ELSE [c EXCEPT !.chal = NewChallenge("other")]

ExecuteTransactions ==
  /\ actor.pc = "send"
  /\ LET c == InOrder(Apply, Contract, actor.txs) IN
     IF c.ok
     THEN /\ nodes' = c.nodes /\ confirmed' = c.confirmed /\ unresolved' = c.unresolved
          /\ stake' = c.stake /\ funds' = c.funds /\ chal' = c.chal
     ELSE UNCHANGED <<nodes, confirmed, unresolved, stake, funds, chal>>
  /\ actor' = [actor EXCEPT !.pc = "idle", !.txs = <<>>]
  /\ UNCHANGED <<cfgS, valid>>

\* NewStaker after a restart: the fields of the staker are gone.
StakerRestart ==
  /\ cfgS.crashes > 0 /\ cfgS' = [cfgS EXCEPT !.crashes = @ - 1]
  /\ actor' = [pc |-> "idle", txs |-> <<>>, gas |-> HighGasDelay, bring |-> 0, inactive |-> 0]
  /\ UNCHANGED <<nodes, confirmed, unresolved, stake, funds, chal, valid>>
-----------------------------------------------------------------------------
(* The outside: the other staker, the passing of time, the node itself.    *)
OtherAsserts(ok) ==
  /\ Len(nodes) < MaxNodes
  /\ ok \/ cfgS.wrong
  /\ LET at == IF stake["other"] = NoStake THEN confirmed ELSE stake["other"] IN
     /\ Node(at).age > 0 /\ Node(at).count < valid.l1
     /\ \A i \in DOMAIN nodes : nodes[i].parent = at => nodes[i].ok # ok
     /\ nodes' = Append(nodes, [parent |-> at, count |-> valid.l1, ok |-> ok /\ Node(at).ok, age |-> 0, max |-> valid.l1])
     /\ stake' = [stake EXCEPT !["other"] = Len(nodes) + 1]
  /\ ~chal.on
  /\ UNCHANGED <<cfgS, confirmed, unresolved, funds, chal, valid, actor>>

OtherStakes ==
  /\ ~chal.on
  /\ \E n \in DOMAIN nodes :
       /\ n >= unresolved
       /\ nodes[n].parent = (IF stake["other"] = NoStake THEN confirmed ELSE stake["other"])
       /\ nodes[n].ok
       /\ stake' = [stake EXCEPT !["other"] = n]
  /\ UNCHANGED <<cfgS, nodes, confirmed, unresolved, funds, chal, valid, actor>>

OtherResolves ==
  /\ \/ Decidable = "valid" /\ confirmed' = unresolved
     \/ Decidable = "invalid" /\ UNCHANGED confirmed
  /\ unresolved' = unresolved + 1
  /\ UNCHANGED <<cfgS, nodes, stake, funds, chal, valid, actor>>

\* The other side moves, or its time runs out; who asserted wrongly loses in the end.
OtherMoves ==
  /\ chal.on /\ chal.turn = "other"
  /\ \/ chal' = [chal EXCEPT !.turn = "me"] /\ ~chal.late
     \/ chal' = [chal EXCEPT !.late = TRUE] /\ ~chal.late
  /\ UNCHANGED <<cfgS, nodes, confirmed, unresolved, stake, funds, valid, actor>>

ChallengeEnds ==
  /\ chal.on
  /\ \E loser \in {"me", "other"} :
       /\ ~nodes[stake[loser]].ok
       /\ stake' = [stake EXCEPT ![loser] = NoStake]
       /\ funds' = (funds \/ loser = "other")
  /\ chal' = NoChallenge
  /\ UNCHANGED <<cfgS, nodes, confirmed, unresolved, valid, actor>>

\* Time passes, the older node first.  The deadline is days away: a prompt validator has validated
\* up to the assertion and has nothing left to do about it when it passes.
CanAct == actor.pc = "idle" /\ [ActResult(FALSE) EXCEPT !.gas = actor.gas] # actor
AgeNode ==
  /\ \E n \in DOMAIN nodes :
       /\ nodes[n].age < 3 /\ \A m \in 1 .. n - 1 : nodes[m].age > nodes[n].age
       /\ nodes[n].age = 2 /\ cfgS.prompt =>
            valid.roots /\ valid.count >= nodes[n].count /\ ~CanAct /\ actor.pc = "idle"
       /\ nodes' = [nodes EXCEPT ![n].age = @ + 1]
  /\ UNCHANGED <<cfgS, confirmed, unresolved, stake, funds, chal, valid, actor>>

NodeProgress ==
  /\ \/ valid.l1 < MaxCount /\ valid' = [valid EXCEPT !.l1 = @ + 1]
     \/ valid.local < valid.l1 /\ valid' = [valid EXCEPT !.local = @ + 1]
     \/ valid.count < valid.local /\ valid' = [valid EXCEPT !.count = @ + 1, !.roots = TRUE]
  /\ UNCHANGED <<cfgS, nodes, confirmed, unresolved, stake, funds, chal, actor>>
-----------------------------------------------------------------------------
StakerInit ==
  /\ cfgS \in StakerConfigs
  /\ nodes = <<>> /\ confirmed = 0 /\ unresolved = 1
  /\ stake = [w \in {"me", "other"} |-> NoStake]
  /\ funds = FALSE /\ chal = NoChallenge
  /\ valid = [l1 |-> 1, local |-> 1, count |-> 1, roots |-> FALSE]
  /\ actor = [pc |-> "idle", txs |-> <<>>, gas |-> HighGasDelay, bring |-> 0, inactive |-> 0]

StakerOutside == \/ \E ok \in BOOLEAN : OtherAsserts(ok)
                 \/ OtherStakes \/ OtherResolves \/ OtherMoves \/ ChallengeEnds
StakerNext ==
  \/ \E high \in BOOLEAN : Act(high)
  \/ ExecuteTransactions \/ StakerRestart \/ StakerOutside \/ AgeNode \/ NodeProgress

StakerSpec == StakerInit /\ [][StakerNext]_stakerVars

-----------------------------------------------------------------------------
\* Our stake is only ever on assertions that agree with our own validated chain, although the
\* rollup changes between the decision and the transaction (advanceStake, generateNodeAction).
StakedOnRight == stake["me"] > 0 => nodes[stake["me"]].ok /\ nodes[stake["me"]].count <= valid.count

\* A validator that is staked on the right assertion is never the one to lose a challenge, and
\* one that does not make assertions unless it has to is not staked in a rollup without a fork.
OnlyStakesWhenNeeded ==
  (cfgS.strategy <= Defensive /\ ~cfgS.wrong) => stake["me"] = NoStake

\* What a validator that is at least defensive is for: while it is prompt, no wrong assertion is
\* confirmed, although other stakers resolve nodes as soon as the contract lets them
\* (advanceStake, createConflict, bringActiveUntilNode).
WrongNeverConfirmed ==
  (cfgS.prompt /\ cfgS.strategy >= Defensive /\ ~cfgS.disable) => Node(confirmed).ok

\* The staker stakes on what it validated, only as its strategy asks for, and keeps wrong
\* assertions from being confirmed (advanceStake, generateNodeAction, createConflict).
StakeSound == StakedOnRight /\ OnlyStakesWhenNeeded /\ WrongNeverConfirmed

\* A wrong assertion that somebody is staked on does not stand: the validator gets onto a rival
\* assertion and into a challenge, or the staker is gone or left behind on a branch that
\* confirmation has passed (advanceStake, createConflict).
WrongAssertionChallenged ==
  (cfgS.prompt /\ cfgS.strategy >= Defensive /\ ~cfgS.disable
    /\ stake["other"] > 0 /\ ~nodes[stake["other"]].ok) 
  ~> (chal.on \/ stake["other"] = NoStake \/ confirmed \notin Ancestry(stake["other"]))
=============================================================================
