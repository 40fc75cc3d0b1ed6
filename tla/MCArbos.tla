------------------------------ MODULE MCArbos ------------------------------
(***************************************************************************)
(* ArbOS: the retryable tickets, the set of chain owners, the structures   *)
(* in storage, the outbox, the two prices, the fees of a transaction, the  *)
(* production of a block, and Stylus programs.  The parts are checked side *)
(* by side: a behaviour is one of the part it starts in.                   *)
(***************************************************************************)
EXTENDS Retryables, ArbosStorage, Outbox, Pricing, TxFees, BlockProduction, Programs

VARIABLE part

LpQuota == [version |-> 10, cap |-> 0, price |-> 2, fees |-> 2, reports |-> 2, upgrades |-> 0, donations |-> 0]
MCLpScenarios ==
  {LpQuota, [LpQuota EXCEPT !.version = 7], [LpQuota EXCEPT !.version = 1, !.fees = 1, !.donations = 1],
   [LpQuota EXCEPT !.version = 6, !.upgrades = 2, !.fees = 1], [LpQuota EXCEPT !.version = 1, !.upgrades = 2, !.fees = 1, !.reports = 1, !.donations = 1],
   [LpQuota EXCEPT !.cap = 100, !.donations = 1, !.fees = 1]}

MCTfRetryables ==
  [version : {10, 11}, infra : BOOLEAN, base : {2}, minBase : {1}, balance : {0, 3, 20}, deposit : {0, 3, 8, 20},
   maxSub : {2, 4}, fee : {2, 3}, value : {0, 2}, cap : {1, 2, 3}, gas : {1, 3}]
MCTfOrdinary ==
  [version : {1, 4, 5}, infra : BOOLEAN, base : {2, 3}, minBase : {2}, gas : {3, 6, 9}, posterCost : {0, 5}, limit : {2, 4}]
TfIdle == CHOOSE s \in MCTfOrdinary : TRUE

MCSkNumbers == (0 - 9) .. 9

BpTx(s, n, gas, data, used, redeem, pre, post) ==
  [sender |-> s, nonce |-> n, gas |-> gas, data |-> data, used |-> used, redeem |-> redeem, pre |-> pre, post |-> post]
MCBpTxs ==
  {BpTx("a", 0, 5, 1, 3, 0, TRUE, TRUE), BpTx("a", 1, 3, 0, 2, 0, TRUE, TRUE), BpTx("a", 0, 14, 0, 13, 3, TRUE, TRUE),
   BpTx("b", 0, 4, 2, 3, 0, TRUE, FALSE), BpTx("b", 0, 8, 1, 7, 3, TRUE, TRUE), BpTx("b", 1, 3, 0, 2, 0, FALSE, TRUE),
   BpTx("b", 1, 3, 2, 2, 0, TRUE, TRUE), BpTx("b", 1, 12, 0, 2, 0, TRUE, TRUE)}
BpPlain == BpTx("a", 0, 5, 1, 3, 0, TRUE, TRUE)
BpMessage(k, words, rest) == [k |-> k, tx |-> BpPlain, words |-> words, rest |-> rest]
\* Ordinary payloads, one with a number beyond uint64 and one that is cut short.
BpUnsigned == {BpMessage("unsigned", w, <<>>) : w \in {<<3, 1, 0, 1, 1>>, <<5, 1, 0, 1, 1>>, <<3, 1, 4, 1, 1>>, <<3, 5, 2, 7, 9>>, <<3, 1, 0, 1>>}}
BpContract == {BpMessage("contract", w, <<>>) : w \in {<<2, 1, 1, 1>>, <<4, 1, 1, 1>>, <<2, 1, 1>>}}
BpLeaf(k) == BpMessage(k, <<3, 1, 0, 1, 1>>, <<>>)
BpLeaves == {BpLeaf(k) : k \in {"signed", "heartbeat", "bad"}} \cup BpUnsigned \cup BpContract
BpBatches(S, n) == {[k |-> "batch", subs |-> q] : q \in UNION {[1 .. m -> S] : m \in 0 .. n}}
BpShallow == BpLeaves \cup BpBatches({BpLeaf("contract"), BpLeaf("signed"), BpLeaf("bad"), BpLeaf("cut")}, 2)
MCBpTrees ==
  BpShallow \cup BpBatches(BpShallow, 2) \cup {[k |-> "funded", sub |-> l] : l \in BpLeaves}
  \cup {[k |-> "batch", subs |-> <<[k |-> "batch", subs |-> <<b>>]>>] : b \in BpShallow}
  \cup {BpLeaf(k) : k \in {"endOfBlock", "rollupEvent", "initialize", "gasEstimation", "invalid"}}
  \cup {BpMessage("ethDeposit", w, <<>>) : w \in {<<>>, <<1>>, <<1, 9>>}}
  \cup {BpMessage("submitRetryable", w, rest) : w \in {<<1, 1, 1, 1, 1, 1, g, 1, n>> : g \in {3, 4}, n \in 0 .. 5} \cup {<<1, 1, 1, 1, 1, 1, 3, 1>>},
                                                rest \in {<<>>, <<7>>, <<7, 8, 9>>}}
MCBpReports ==
  [words : {<<1, 1, 1, 2, 1>>, <<1, 1, 1, 4, 1>>, <<1, 1, 1, 2>>}, rest : {<<>>, <<1>>, <<0, 1>>, <<1, 1>>},
   fetch : {"data", "fails", "other"}, gas : {1, 2}]

\* Each code hash has a wasm of its own, or two have the same; an upset is a block that is dropped,
\* a reorganization or a restart.
PgOwn == [c \in PgCodes |-> c]
MCPgScenarios ==
  {[wasm |-> PgOwn, steps |-> 4, grow |-> 2, upsets |-> 0], [wasm |-> [c \in PgCodes |-> "w"], steps |-> 4, grow |-> 0, upsets |-> 0]}
  \cup {[wasm |-> w, steps |-> 3, grow |-> 0, upsets |-> 1] : w \in {PgOwn, [c \in PgCodes |-> "w"]}}
MCPgFootprint == [c \in PgCodes |-> IF c = "x" THEN 1 ELSE 2]
MCPgExponents == <<1, 1, 1, 2, 2, 3, 5, 7, 10, 14, 19, 25, 33, 43, 57>>
-----------------------------------------------------------------------------
arbosVars == <<vars, asVars, skVars, obVars, lp, gp, tf, bp, pg, part>>

ArbosInit ==
  /\ part \in {"tickets", "owners", "storage", "outbox", "l1price", "l2price", "fees", "block", "programs"}
  /\ Init
  /\ AsInit /\ (part # "owners" => version = "new")
  /\ SkInit /\ (part # "storage" => sk = "queue")
  /\ ObInit
  /\ LpInit /\ (part # "l1price" => lp.version = 7)
  /\ GpInit
  /\ IF part = "fees" THEN TfInit ELSE tf = [kind |-> "ordinary", step |-> "none", s |-> TfIdle, bal |-> TfBalances(0), start |-> 0, early |-> 0]
  /\ IF part = "block" THEN BpInit ELSE bp = [step |-> "none"]
  /\ PgInit /\ (part # "programs" => pg.grow = 2)

ArbosNext ==
  /\ UNCHANGED part
  /\ \/ part = "tickets" /\ Next /\ UNCHANGED <<asVars, skVars, obVars, lp, gp, tf, bp, pg>>
     \/ part = "owners" /\ AsNext /\ UNCHANGED <<vars, skVars, obVars, lp, gp, tf, bp, pg>>
     \/ part = "storage" /\ SkNext /\ UNCHANGED <<vars, asVars, obVars, lp, gp, tf, bp, pg>>
     \/ part = "outbox" /\ ObNext /\ UNCHANGED <<vars, asVars, skVars, lp, gp, tf, bp, pg>>
     \/ part = "l1price" /\ LpNext /\ UNCHANGED <<vars, asVars, skVars, obVars, gp, tf, bp, pg>>
     \/ part = "l2price" /\ GpNext /\ UNCHANGED <<vars, asVars, skVars, obVars, lp, tf, bp, pg>>
     \/ part = "fees" /\ TfNext /\ UNCHANGED <<vars, asVars, skVars, obVars, lp, gp, bp, pg>>
     \/ part = "block" /\ BpNext /\ UNCHANGED <<vars, asVars, skVars, obVars, lp, gp, tf, pg>>
     \/ part = "programs" /\ PgNext /\ UNCHANGED <<vars, asVars, skVars, obVars, lp, gp, tf, bp>>

\* Blocks keep coming for the tickets and for the L2 price, where a block is always possible.
ArbosFair ==
  /\ SF_vars(part = "tickets" /\ LaterBlock) /\ SF_vars(part = "tickets" /\ LastBlock)
  /\ WF_vars(part = "tickets" /\ StartRetry) /\ WF_vars(part = "tickets" /\ SomeEnd)
  /\ []<>(part # "l2price") \/ []<><<gp' # gp>>_gp

ArbosSpec == ArbosInit /\ [][ArbosNext]_arbosVars /\ ArbosFair
-----------------------------------------------------------------------------
\* Blocks bring things to an end: every ticket is redeemed, cancelled or reaped, and after
\* congestion the base fee comes back to its minimum (TryToReapOneRetryable, UpdatePricingModel).
ArbosProgress == EveryTicketEnds /\ BaseFeeReturns
=============================================================================
