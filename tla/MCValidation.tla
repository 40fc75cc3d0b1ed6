---------------------------- MODULE MCValidation ----------------------------
(***************************************************************************)
(* Validation and disputes: the block validator, the staker and its        *)
(* wallet, a challenge and the machines it runs.  The parts are checked    *)
(* side by side: a behaviour is one of the part it starts in, the others   *)
(* stay as they are.                                                       *)
(***************************************************************************)
EXTENDS BlockValidator, Staker, ValidatorWallet, Challenge

VARIABLE part

BvQuota == [contents |-> {"x"}, divergent |-> {}, fault |-> 0, reorg |-> 0, stake |-> 0, crash |-> 0,
            shift |-> 0, feed |-> 0, fatal |-> FALSE, outlived |-> FALSE, redivided |-> FALSE]
MCBvBudgets ==
  {[BvQuota EXCEPT !.fault = 1], [BvQuota EXCEPT !.stake = 1, !.crash = 1],
   [BvQuota EXCEPT !.contents = {"x", "y"}, !.feed = 1],
   [BvQuota EXCEPT !.contents = {"x", "y"}, !.divergent = {"y"}, !.fatal = TRUE],
   [BvQuota EXCEPT !.contents = {"x", "y"}, !.reorg = 1, !.stake = 1],
   [BvQuota EXCEPT !.contents = {"x", "y"}, !.reorg = 1, !.crash = 1],
   [BvQuota EXCEPT !.contents = {"x", "y"}, !.shift = 1]}

StakerQuota == [strategy |-> Defensive, batch |-> FALSE, wrong |-> TRUE, disable |-> FALSE, prompt |-> TRUE,
                crashes |-> 0]
MCStakerConfigs ==
  {[StakerQuota EXCEPT !.batch = TRUE], [StakerQuota EXCEPT !.crashes = 1],
   [StakerQuota EXCEPT !.batch = TRUE, !.wrong = FALSE],
   [StakerQuota EXCEPT !.strategy = MakeNodes, !.batch = TRUE],
   [StakerQuota EXCEPT !.strategy = StakeLatest],
   [StakerQuota EXCEPT !.strategy = ResolveNodes, !.disable = TRUE, !.prompt = FALSE],
   [StakerQuota EXCEPT !.strategy = Watchtower, !.prompt = FALSE]}

\* Three batches of 2, 1 and 3 messages; the dispute starts at the second message.
ChalQuota(blocks) ==
  [batches |-> <<2, 3, 6>>, startBatch |-> 0, startPos |-> 1, maxBatches |-> 3,
   endBatch |-> CASE blocks = 1 -> 1 [] blocks = 2 -> 2 [] blocks \in {3, 4} -> 2 [] OTHER -> 3,
   blocks |-> blocks, asserter |-> FALSE, reorgs |-> 1, crashes |-> 1, misplaced |-> FALSE, takenBack |-> FALSE]
\* Up to MaxBisectionDegree blocks and more, from both sides.
MCChalScenarios == UNION {{ChalQuota(n), [ChalQuota(n) EXCEPT !.asserter = TRUE]} : n \in 1 .. 5}

MCMcScenarios ==
  [steps : {1, 2, 5, 9}, cached : {2, 4}, initial : {1, 3}, calls : {2}]

MCVwKinds == [kind : {"contract", "eoa"}, limit : BOOLEAN]
MCVwBatches == {<<>>, <<1>>, <<1, 1>>, <<2, 0>>}

\* The part that does not run is in one of its initial states.
ValidationInit ==
  /\ part \in {"validator", "staker", "challenge", "machines", "wallet"}
  /\ BvInit /\ (part # "validator" => bvq = CHOOSE q \in BvBudgets : q.fault = 1)
  /\ StakerInit /\ (part # "staker" => cfgS = CHOOSE c \in StakerConfigs : c.crashes = 1)
  /\ ChalInit /\ (part # "challenge" => chq = CHOOSE s \in ChalScenarios : TRUE)
  /\ McInit /\ (part # "machines" => mcq = CHOOSE s \in McScenarios : TRUE)
  /\ IF part = "wallet" THEN VwInit
     ELSE /\ vw = [VwIdle("eoa", FALSE) EXCEPT !.pc = "ready"] /\ vl = VwChain
          /\ vq = [rounds |-> 0, faults |-> 0]

ValidationNext ==
  /\ UNCHANGED part
  /\ \/ part = "validator" /\ BvNext /\ UNCHANGED <<stakerVars, chVars, mcVars, vwvars>>
     \/ part = "staker" /\ StakerNext /\ UNCHANGED <<bvVars, chVars, mcVars, vwvars>>
     \/ part = "challenge" /\ ChalNext /\ UNCHANGED <<bvVars, stakerVars, mcVars, vwvars>>
     \/ part = "machines" /\ McNext /\ UNCHANGED <<bvVars, stakerVars, chVars, vwvars>>
     \/ part = "wallet" /\ VwNext /\ UNCHANGED <<bvVars, stakerVars, chVars, mcVars>>

validationVars == <<bvVars, stakerVars, chVars, mcVars, vwvars, part>>

\* The threads of the validator go on; the staker polls, its transactions land, time passes and
\* the node validates; in a challenge we are polled, blocks become final, and the opponent's
\* clock runs while it is its turn; the wallet's calls go on and blocks are mined.  Written with
\* what a thread changes where that is cheaper to evaluate than the action's ENABLED.
ValidationFair ==
  /\ []<>~(part = "validator" /\ BvCanMove("node")) \/ []<><<upd' # upd \/ ex' # ex>>_bvVars
  /\ []<>~(part = "validator" /\ BvCanMove("create")) \/ []<><<bv'.created # bv.created>>_bvVars
  /\ []<>~(part = "validator" /\ BvCanMove("record")) \/ []<><<rec' # rec>>_bvVars
  /\ []<>~(part = "validator" /\ BvCanMove("advance")) \/ []<><<adv' # adv>>_bvVars
  /\ []<>~(part = "validator" /\ BvCanMove("servers")) \/ []<><<vals' # vals>>_bvVars
  /\ []<>~(part = "validator" /\ BvCanMove("start")) \/ []<><<bv'.up # bv.up>>_bvVars
  /\ []<>~(part = "staker" /\ CanAct) \/ []<><<actor' # actor>>_stakerVars
  /\ []<>(part = "staker" => actor.pc # "send")
  /\ []<>(part = "staker" => \A n \in DOMAIN nodes : nodes[n].age >= 2)
  /\ []<>(part = "staker" => valid.count = MaxCount)
  /\ WF_chVars(part = "challenge" /\ ChallengeAct)
  /\ []<>(part = "challenge" => fin = ch) /\ []<>(part = "challenge" => ch.turn # "other")
  /\ WF_vwvars(part = "wallet" /\ VwSteps) /\ WF_vwvars(part = "wallet" /\ VlMine)

ValidationSpec == ValidationInit /\ [][ValidationNext]_validationVars /\ ValidationFair
-----------------------------------------------------------------------------
\* ValidatorCatchesUp for the behaviours of the block validator: once the outside is quiet it
\* validates everything that is executed and in a batch (iterativeValidationProgress).
CatchesUp == part = "validator" => ValidatorCatchesUp

\* ChallengeWon for the behaviours of the challenge: the side that is right wins it
\* (ChallengeManager.Act).
RightSideWins == part = "challenge" => ChallengeWon

\* What has begun is brought to its end: what is executed is validated, a wrong assertion is
\* challenged, the side that is right wins, and the calls of the wallet return
\* (iterativeValidationProgress, createConflict, ChallengeManager.Act, WaitForTxApproval).
ValidationProgress == CatchesUp /\ WrongAssertionChallenged /\ RightSideWins /\ WalletCallsEnd
=============================================================================
