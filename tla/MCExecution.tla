---------------------------- MODULE MCExecution ----------------------------
(***************************************************************************)
(* A transaction on its way into a block, through the pre-checker and the  *)
(* Redis forwarder of a node and the sequencer; and what a node answers    *)
(* and keeps beside: whether it is in sync, the messages it prunes, the    *)
(* backlog of L1 prices.  The parts are checked side by side: a behaviour  *)
(* is one of the part it starts in.                                        *)
(***************************************************************************)
EXTENDS Sequencer, Upkeep

VARIABLE part

SeqQuota == [nonce |-> <<0, 1, 1>>, size |-> <<1, 1, 1>>, faults |-> 0, panics |-> 0, fates |-> FALSE, roles |-> 0, foreign |-> 0,
      foreign0 |-> 0, surplus |-> FALSE, updates |-> 0, stops |-> 0, abort |-> FALSE, paused |-> FALSE, moves |-> {}, nextId |-> 1, nextFwd |-> 1]
MCSeqScenarios ==
 {[SeqQuota EXCEPT !.nonce = <<1, 0, 1>>, !.fates = TRUE],
  [SeqQuota EXCEPT !.nonce = <<1, 0>>, !.size = <<1, 1>>, !.roles = 2, !.moves = {"pause", "activate", "forward"}],
  [SeqQuota EXCEPT !.nonce = <<0, 1>>, !.size = <<2, 1>>, !.faults = 1, !.panics = 1, !.stops = 1, !.abort = TRUE],
  [SeqQuota EXCEPT !.nonce = <<0, 0, 2>>, !.size = <<1, 3, 1>>],
  [SeqQuota EXCEPT !.nonce = <<1, 0>>, !.size = <<1, 1>>, !.roles = 1, !.moves = {"forward"}, !.stops = 1],
  [SeqQuota EXCEPT !.nonce = <<2, 1, 0>>, !.roles = 1, !.moves = {"chosen"}],
  [SeqQuota EXCEPT !.nonce = <<0, 1>>, !.size = <<1, 1>>, !.roles = 2, !.moves = {"activate", "chosen"}, !.paused = TRUE, !.faults = 1],
  [SeqQuota EXCEPT !.nonce = <<0, 1>>, !.size = <<1, 1>>, !.foreign = 2, !.foreign0 = 2],
  [SeqQuota EXCEPT !.nonce = <<0, 1>>, !.size = <<1, 1>>, !.surplus = TRUE, !.updates = 2]}

MCFwUrls == {"a", "b"}
MCFwScenarios == [redis : {TRUE}, fallback : {"", "a", "s"}, changes : {3}] \cup {[redis |-> FALSE, fallback |-> f, changes |-> 1] : f \in {"", "a"}}

PcTx == [type |-> TRUE, funds |-> TRUE, gas |-> 4, intrinsic |-> 3, dataGas |-> 1, feeCap |-> 2, minFee |-> 1, baseFee |-> 2,
         nonce |-> 1, stateNonce |-> 1, cond |-> FALSE, condNow |-> TRUE, condOld |-> TRUE,
         times |-> <<0>>, now |-> 0, age |-> 0, max |-> 0]
MCPcInputs ==
  {[PcTx EXCEPT !.type = t, !.funds = f, !.gas = g, !.feeCap = c, !.baseFee = b, !.nonce = n] :
     t, f \in BOOLEAN, g \in {1, 2, 3, 4}, c \in 0 .. 2, b \in {1, 2}, n \in 0 .. 2}
  \cup {[PcTx EXCEPT !.cond = TRUE, !.condNow = u, !.condOld = o, !.times = t, !.now = 4, !.age = a, !.max = m] :
     u, o \in BOOLEAN, t \in {<<0>>, <<0, 2>>, <<0, 2, 3, 3>>, <<0, 1, 2, 4>>}, a \in 0 .. 5, m \in 0 .. 2}

SyNode == [has |-> {"reader"}, batches |-> 1, msgs |-> 2, faults |-> 1]
MCSyScenarios ==
  {SyNode, [SyNode EXCEPT !.batches = 2, !.msgs = 1, !.faults = 0], [SyNode EXCEPT !.has = {"coordinator"}, !.batches = 0, !.msgs = 3],
   [SyNode EXCEPT !.has = {"reader", "coordinator"}, !.faults = 0]}

ExecutionInit ==
  /\ part \in {"sequencer", "forwarder", "precheck", "sync", "pruner", "prices"}
  /\ SeqInit /\ (part # "sequencer" => sqs = CHOOSE s \in SeqScenarios : TRUE)
  /\ FwInit /\ (part # "forwarder" => fwq = CHOOSE s \in FwScenarios : TRUE)
  /\ IF part = "precheck" THEN PcInit ELSE pcx = [st |-> "new", x |-> PcTx, strict |-> 0]
  /\ SyInit /\ (part # "sync" => sy.q = SyNode)
  /\ PnInit /\ PbInit

upkeepVars == <<sy, pn, pb>>

ExecutionNext ==
  /\ UNCHANGED part
  /\ \/ part = "sequencer" /\ SeqNext /\ UNCHANGED <<fwVars, pcx, upkeepVars>>
     \/ part = "forwarder" /\ FwNext /\ UNCHANGED <<seqVars, pcx, upkeepVars>>
     \/ part = "precheck" /\ PcNext /\ UNCHANGED <<seqVars, fwVars, upkeepVars>>
     \/ part = "sync" /\ SyNext /\ UNCHANGED <<seqVars, fwVars, pcx, pn, pb>>
     \/ part = "pruner" /\ PnNext /\ UNCHANGED <<seqVars, fwVars, pcx, sy, pb>>
     \/ part = "prices" /\ PbNext /\ UNCHANGED <<seqVars, fwVars, pcx, sy, pn>>

executionVars == <<seqVars, fwVars, pcx, upkeepVars, part>>

\* The goroutines run, time passes, and the coordinator does not pause the sequencer for ever.
ExecutionFair ==
  /\ []<>(part = "sequencer" => ThreadWaits /\ sq.bg = {}) \/ []<><<sq' # sq \/ role' # role>>_seqVars
  /\ []<>(part = "sequencer" => ~role.pause)
  /\ WF_seqVars(part = "sequencer" /\ \E i \in Subs : QueueTimeout(i) \/ FailureExpiry(i))
  /\ WF_seqVars(part = "sequencer" /\ \E i \in Subs : Publish(i) \/ PublishForward(i) \/ Enqueue(i))
  /\ WF_seqVars(part = "sequencer" /\ SurplusUpdate)
  /\ WF_fwVars(part = "forwarder" /\ Update)
ExecutionSpec == ExecutionInit /\ [][ExecutionNext]_executionVars /\ ExecutionFair
-----------------------------------------------------------------------------
\* What a node answers is the truth, to one who submits a transaction and to one who asks
\* whether it is in sync; and what it keeps for its answers is there (PublishTransaction,
\* createBlock, Synced, MessagePruner).
AnswersTruthful == SubmissionsTruthful /\ UpkeepSound

\* QueueAnswers for the behaviours of the sequencer: every submission in txQueue gets
\* its result (createBlock).
SequencerAnswers == part = "sequencer" => QueueAnswers

\* FollowsChosen for the behaviours of the forwarder: transactions go to the chosen
\* sequencer (RedisTxForwarder.update).
ForwarderFollows == part = "forwarder" => FollowsChosen

\* Nobody who submits a transaction waits for ever: the sequencer answers what is in its queue,
\* and the forwarder stays usable and goes to the sequencer that is chosen (createBlock,
\* RedisTxForwarder.update).
SubmittersAnswered == SequencerAnswers /\ []ForwarderUsable /\ ForwarderFollows
=============================================================================
