--------------------------- MODULE BlockProduction ---------------------------
(***************************************************************************)
(* From a message to a block (arbos/parse_l2.go, arbos/block_processor.go) *)
(* and back (messageFromTxes of the execution engine): the sequencer       *)
(* builds a block out of submitted transactions with its filters, writes   *)
(* the transactions that went in as a message, and every other node builds *)
(* the block again from the message, without filters.                      *)
(*                                                                         *)
(* A transaction is a record; whether it is valid depends on the state the *)
(* block has reached (the nonce of its sender).  A message is a tree.      *)
(***************************************************************************)
EXTENDS Integers, Sequences, SequencesExt, FiniteSets, FiniteSetsExt

CONSTANTS BpTxs,          \* transactions: sender, nonce, gas, data, used, redeem (gas donated, 0 if none), pre, post
          BpMaxTxs,       \* how many are submitted at a time
          BpSenders,
          BpLimit,        \* PerBlockGasLimit
          BpTxGas,        \* params.TxGas
          BpVersions,     \* ArbOS versions: from 11 on the gas of a redeem is counted once
          BpMaxDepth,     \* the depth of nested batches (16 in the code)
          BpWide,         \* the first number that is no uint64
          BpMaxData,      \* MaxL2MessageSize, as a bound on the data of a ticket
          BpMaxSize,      \* MaxL2MessageSize, as a bound on the parts of a message
          BpTrees,        \* messages of the delayed inbox
          BpReports       \* batch posting reports: the fields, what the batch fetcher answers, the gas of the batch

VARIABLE bp

\* What the sequencer puts into a block is small enough for a message (max-tx-data-size).
ASSUME SequencedFits == BpMaxTxs + 1 <= BpMaxSize

BpHeartbeat == "heartbeat"
BpRefused == [ok |-> FALSE]
BpNothing == [ok |-> TRUE, txs |-> <<>>]
-----------------------------------------------------------------------------
(* Messages.  Inside an L2 message a leaf is signed, unsigned, contract,   *)
(* heartbeat or bad, and a batch has subs.  A sub that is cut has a size   *)
(* that is too large, or larger than what is left of the message.  A       *)
(* payload is the sequence of its words, then the bytes that follow them.  *)
(* Requests are paths: the hash of an id and an index.                     *)

\* The segments of a batch that are read: one that cannot be read ends it (BytestringFromReader).
ReadSegments(subs) ==
  LET cut == SelectInSeq(subs, LAMBDA m : m.k = "cut") IN IF cut = 0 THEN subs ELSE SubSeq(subs, 1, cut - 1)

RECURSIVE TreeSize(_)
TreeSize(m) == IF m.k # "batch" THEN 1 ELSE FoldLeft(LAMBDA n, l : n + TreeSize(l), 1, m.subs)

\* A message without a request id has none for its parts either.
SubRequest(request, i) == IF request = <<>> THEN <<>> ELSE request \o <<i - 1>>

\* A batch is refused as a whole when one of its messages is.
Joined(parts) ==
  IF \E i \in DOMAIN parts : ~parts[i].ok THEN BpRefused
  ELSE [ok |-> TRUE, txs |-> FlattenSeq([i \in DOMAIN parts |-> parts[i].txs])]

\* big.Int.Uint64 keeps the low bits; IsUint64 is asked first.
Uint64(n) == n % BpWide
HasWords(m, n) == Len(m.words) >= n

\* One transaction out of a message, with the numbers that were converted.
OneTx(k, m, id, numbers) == [ok |-> TRUE, txs |-> <<[k |-> k, tx |-> m.tx, id |-> id, numbers |-> numbers]>>]

\* parseUnsignedTx: gas limit, fee, for an unsigned one the nonce, destination, value. A contract
\* transaction needs a request id, which a message of the sequencer has not.
ParseUnsignedTx(m, request) ==
  CASE m.k = "unsigned" /\ HasWords(m, 5) /\ m.words[1] < BpWide /\ m.words[3] < BpWide
         -> OneTx(m.k, m, <<>>, <<Uint64(m.words[1]), Uint64(m.words[3])>>)
    [] m.k = "contract" /\ HasWords(m, 4) /\ m.words[1] < BpWide /\ request # <<>>
         -> OneTx(m.k, m, request, <<Uint64(m.words[1])>>)
    [] OTHER -> BpRefused

\* parseEthDepositMessage: the address and the value.
ParseEthDeposit(m, request) ==
  IF HasWords(m, 2) /\ request # <<>> THEN OneTx("deposit", m, request, <<>>) ELSE BpRefused

\* The data of a ticket: as many bytes as the message declares. One Read fills what there is,
\* the others stay zero; there is an error only when no byte is left.
RetryData(m) == [i \in 1 .. Uint64(m.words[9]) |-> IF i <= Len(m.rest) THEN m.rest[i] ELSE 0]

\* parseSubmitRetryableMessage: the seventh word is the gas limit, the ninth the length of the data.
ParseSubmitRetryable(m, request) ==
  IF /\ HasWords(m, 9)
     /\ m.words[7] < BpWide /\ m.words[9] < BpWide
     /\ Uint64(m.words[9]) <= BpMaxData
     /\ Uint64(m.words[9]) = 0 \/ m.rest # <<>>
     /\ request # <<>>
  THEN OneTx("retryable", m, request, <<Uint64(m.words[7])>> \o RetryData(m)) ELSE BpRefused

RECURSIVE ParseL2Message(_, _, _)
ParseL2Message(m, request, depth) ==
  CASE m.k = "batch" -> IF depth >= BpMaxDepth THEN BpRefused
                        ELSE Joined([i \in DOMAIN ReadSegments(m.subs) |->
                                       ParseL2Message(m.subs[i], SubRequest(request, i), depth + 1)])
    [] m.k = "signed" -> OneTx(m.k, m, <<>>, <<>>)
    [] m.k \in {"unsigned", "contract"} -> ParseUnsignedTx(m, request)
    [] m.k = BpHeartbeat -> BpNothing                             \* before they were disabled
    [] OTHER -> BpRefused

\* A message funded by L1 is a deposit and an unsigned or contract transaction, with ids of
\* their own.
ParseFunded(m, request) ==
  LET p == ParseUnsignedTx(m.sub, SubRequest(request, 2))
  IN  IF request = <<>> \/ ~p.ok THEN BpRefused
      ELSE Joined(<<OneTx("deposit", m.sub, SubRequest(request, 1), <<>>), p>>)

\* ParseL2Transactions by the kind of the message; a report has its own, below.
ParseL2Transactions(m, request) ==
  CASE TreeSize(m) > BpMaxSize -> BpRefused
    [] m.k = "funded" -> ParseFunded(m, request)
    [] m.k = "submitRetryable" -> ParseSubmitRetryable(m, request)
    [] m.k = "ethDeposit" -> ParseEthDeposit(m, request)
    [] m.k \in {"endOfBlock", "rollupEvent"} -> BpNothing
    [] m.k \in {"initialize", "gasEstimation", "invalid"} -> BpRefused
    [] OTHER -> ParseL2Message(m, request, 0)

\* messageFromTxes: one transaction alone, or a batch of those that went into the block.
MessageFromTxes(txs, errors) ==
  IF Len(txs) = 1 /\ ~errors[1] THEN [k |-> "signed", tx |-> txs[1]]
  ELSE LET kept == SelectSeq([i \in DOMAIN txs |-> [tx |-> txs[i], bad |-> errors[i]]], LAMBDA e : ~e.bad)
       IN  [k |-> "batch", subs |-> [i \in DOMAIN kept |-> [k |-> "signed", tx |-> kept[i].tx]]]
-----------------------------------------------------------------------------
(* ProduceBlockAdvanced.                                                   *)

\* The block being built: b.block is what went in, b.errors one entry per user transaction.
NewBlockState(version) ==
  [version |-> version, nonce |-> [s \in BpSenders |-> 0], gasLeft |-> BpLimit - BpTxGas,     \* the internal start transaction
   block |-> <<>>, errors |-> <<>>, processed |-> 0, computed |-> 0, first |-> 0]

USub(a, b) == IF a < b THEN 0 ELSE a - b

\* What counts for the block's limit of the gas a transaction used: at least TxGas, and from
\* version 11 on without the gas burned for a redeem.
ComputeUsed(b, tx) ==
  LET used == IF b.version >= 11 THEN USub(tx.used, tx.redeem) ELSE tx.used
  IN  IF used < tx.data \/ used - tx.data < BpTxGas THEN BpTxGas ELSE used - tx.data

\* The gas a transaction may compute with; below TxGas it is refused early or will fail.
ComputeGas(tx) == LET d == IF tx.data > tx.gas THEN tx.gas ELSE tx.data IN Max({BpTxGas, tx.gas - d})
TooLittleGas(tx) == tx.gas < tx.data + BpTxGas

\* The first user transaction may exceed the limit, so that every one fits some block.
Admitted(b, tx) ==
  /\ b.gasLeft >= BpTxGas
  /\ ComputeGas(tx) <= b.gasLeft \/ b.processed = 0

\* A redeem runs right after its transaction, whatever is left of the block's gas.
RunRedeem(b, tx) ==
  IF tx.redeem = 0 THEN b
  ELSE [b EXCEPT !.gasLeft = USub(@, tx.redeem), !.block = Append(@, [redeem |-> tx]), !.computed = @ + tx.redeem]

\* A variant that charges the block for a transaction the sequencer dropped.
FailedCharged(b, discard) ==
  [b EXCEPT !.errors = Append(@, TRUE), !.gasLeft = USub(@, BpTxGas), !.processed = IF discard THEN @ ELSE @ + 1]
\* A transaction that is not applied is charged to the block unless invalid ones are discarded early.
Failed(b, discard) ==
  [b EXCEPT !.errors = Append(@, TRUE), !.gasLeft = IF discard THEN @ ELSE USub(@, BpTxGas),
            !.processed = IF discard THEN @ ELSE @ + 1]

Applied(b, tx) ==
  RunRedeem([b EXCEPT !.errors = Append(@, FALSE), !.nonce[tx.sender] = @ + 1, !.gasLeft = USub(@, ComputeUsed(b, tx)),
                   !.block = Append(@, [tx |-> tx]), !.processed = @ + 1, !.computed = @ + ComputeUsed(b, tx),
                   !.first = IF b.block = <<>> THEN Max({ComputeGas(tx), ComputeUsed(b, tx) + tx.redeem}) ELSE @], tx)

\* One user transaction: the early check, the filters, the state transition.
Process(b, tx, hooks) ==
  IF Admitted(b, tx) /\ (hooks => tx.pre /\ tx.post) /\ tx.nonce = b.nonce[tx.sender] /\ ~TooLittleGas(tx)
  THEN Applied(b, tx) ELSE Failed(b, hooks)

\* A block out of transactions; hooks says whether it is the sequencer that builds it.
ProduceBlockAdvanced(txs, hooks, version) == FoldLeft(LAMBDA b, tx : Process(b, tx, hooks), NewBlockState(version), txs)

\* ProduceBlock: a message that does not parse gives an empty block.
ProduceBlock(m, request, version) ==
  LET p == ParseL2Transactions(m, request)
  IN  ProduceBlockAdvanced(IF p.ok THEN [i \in DOMAIN p.txs |-> p.txs[i].tx] ELSE <<>>, FALSE, version)
-----------------------------------------------------------------------------
(* Batch posting reports: the gas of a batch comes with the message or     *)
(* from the batch fetcher, whose answer is checked against the hash.       *)

\* The optional last field: absent it is zero, cut short it is an error, otherwise a number
\* (here of two bits).
ExtraGas(r) ==
  CASE r.rest = <<>> -> [ok |-> TRUE, gas |-> 0]
    [] Len(r.rest) = 1 -> BpRefused
    [] OTHER -> [ok |-> TRUE, gas |-> 2 * r.rest[1] + r.rest[2]]

\* ParseBatchPostingReportMessageFields: time, poster, hash, number of the batch, L1 base fee.
ReportReadable(r) == HasWords(r, 5) /\ ExtraGas(r).ok /\ r.words[4] < BpWide

\* The batch fetcher fails, or finds data of another hash, or the data.
FetchedGas(r) == IF r.fetch = "data" THEN [ok |-> TRUE, gas |-> r.gas] ELSE BpRefused

SaturatingUAdd(a, b) == IF a + b >= BpWide THEN BpWide - 1 ELSE a + b

\* parseBatchPostingReportMessage and the fetcher of ProduceBlock. An error of the fetcher stops
\* the block; a report that cannot be read gives an empty one.
ParseReport(r, cached) ==
  LET gas == IF cached # {} THEN [ok |-> TRUE, gas |-> CHOOSE g \in cached : TRUE] ELSE FetchedGas(r)
  IN  IF ~ReportReadable(r) THEN [block |-> "empty"]
      ELSE IF ~gas.ok THEN [block |-> "none"]
      ELSE [block |-> "report", gas |-> SaturatingUAdd(gas.gas, ExtraGas(r).gas)]
-----------------------------------------------------------------------------
BpSeqs == UNION {[1 .. n -> BpTxs] : n \in 1 .. BpMaxTxs}

BpInit ==
  \/ \E txs \in BpSeqs, v \in BpVersions : bp = [step |-> "submitted", txs |-> txs, version |-> v]
  \/ \E m \in BpTrees : bp = [step |-> "delayed", m |-> m]
  \/ \E r \in BpReports : bp = [step |-> "report", r |-> r, cached |-> {}]

\* sequenceTransactionsWithBlockMutex: nothing is written when every transaction failed.
SequenceTransactions ==
  LET b == ProduceBlockAdvanced(bp.txs, TRUE, bp.version)
  IN  /\ bp.step = "submitted"
      /\ bp' = IF \A i \in DOMAIN b.errors : b.errors[i] THEN [step |-> "nothing", b |-> b]
               ELSE [step |-> "written", b |-> b, m |-> MessageFromTxes(bp.txs, b.errors), version |-> bp.version]

\* Another node, or a restart, builds the block from the message.
BuildFromMessage ==
  /\ bp.step = "written"
  /\ bp' = [step |-> "built", b |-> bp.b, again |-> ProduceBlock(bp.m, <<>>, bp.version)]

ParseDelayed ==
  /\ bp.step = "delayed"
  /\ bp' = [step |-> "parsed", m |-> bp.m, p |-> ParseL2Transactions(bp.m, <<9>>)]

\* FillInBatchGasCost, where a message is read from a feed, the inbox or a database: the gas is
\* put into the message, or the message is not read.
FillInBatchGasCost ==
  /\ bp.step = "report" /\ bp.cached = {}
  /\ bp' = IF ReportReadable(bp.r) /\ FetchedGas(bp.r).ok THEN [bp EXCEPT !.cached = {FetchedGas(bp.r).gas}]
           ELSE [step |-> "unread", r |-> bp.r]

ApplyReport ==
  /\ bp.step = "report"
  /\ bp' = [step |-> "reported", r |-> bp.r, got |-> ParseReport(bp.r, bp.cached)]

BpNext == SequenceTransactions \/ BuildFromMessage \/ ParseDelayed \/ FillInBatchGasCost \/ ApplyReport
-----------------------------------------------------------------------------
\* A block built from the message is the block the sequencer made: the same transactions and
\* redeems in the same order, the same nonces, the same gas left, whatever the sequencer's
\* filters dropped (ProduceBlockAdvanced with and without hooks, messageFromTxes, ParseL2Transactions).
ReplaySame == bp.step = "built" => bp.again.block = bp.b.block /\ bp.again.nonce = bp.b.nonce /\ bp.again.gasLeft = bp.b.gasLeft

\* A block computes no more than its limit, or no more than its first transaction beside the
\* internal one, when the gas of a redeem is counted once (blockGasLeft of ProduceBlockAdvanced).
BlockGasBounded ==
  bp.step \in {"nothing", "written"} /\ bp.b.version >= 11 => bp.b.computed + BpTxGas <= Max({BpLimit, bp.b.first + BpTxGas})

RECURSIVE TreeDepth(_)
TreeDepth(m) == IF m.k # "batch" THEN 0 ELSE 1 + Max({0} \cup {TreeDepth(l) : l \in Range(ReadSegments(m.subs))})
RECURSIVE TreeLeaves(_)
TreeLeaves(m) == IF m.k # "batch" THEN <<m>> ELSE FlattenSeq([i \in DOMAIN ReadSegments(m.subs) |-> TreeLeaves(m.subs[i])])

\* The words that hold a number of 64 bits, by kind.
NumberWords(k) == CASE k = "unsigned" -> <<1, 3>> [] k = "contract" -> <<1>> [] k = "submitRetryable" -> <<7>> [] OTHER -> <<>>

\* A batch is refused only for its size, its depth or a message in it that is refused by itself
\* (ParseL2Transactions, parseL2Message).
RefusedForAReason ==
  bp.step = "parsed" /\ ~bp.p.ok /\ bp.m.k = "batch" =>
    TreeSize(bp.m) > BpMaxSize \/ TreeDepth(bp.m) > BpMaxDepth \/ \E l \in Range(TreeLeaves(bp.m)) : ~ParseL2Message(l, <<9>>, 0).ok

\* A message of the delayed inbox gives all of its transactions in order or none; a segment of a
\* batch that cannot be read ends the batch, and what is before it counts.  The
\* numbers of a transaction are those of the message, never cut to 64 bits; the data of a
\* ticket has the length the message declares (parseL2Message, parseUnsignedTx,
\* parseSubmitRetryableMessage).
ParsedWhole ==
  bp.step = "parsed" /\ bp.p.ok /\ bp.m.k # "funded" =>
    LET leaves == SelectSeq(TreeLeaves(bp.m), LAMBDA l : l.k \notin {BpHeartbeat, "endOfBlock", "rollupEvent"})
    IN  /\ TreeDepth(bp.m) <= BpMaxDepth
        /\ Len(bp.p.txs) = Len(leaves)
        /\ \A i \in DOMAIN leaves :
             LET t == bp.p.txs[i]
                 w == NumberWords(leaves[i].k)
             IN  /\ t.k \in {leaves[i].k, "deposit", "retryable"}
                 /\ \A j \in DOMAIN w : t.numbers[j] = leaves[i].words[w[j]]
                 /\ t.k = "retryable" => Len(t.numbers) = 1 + leaves[i].words[9]

\* The transactions of a message that carry an id of their own, which is what makes their
\* hashes unique, have different ids (parseL2Message, L1MessageType_L2FundedByL1).
RequestsDistinct ==
  bp.step = "parsed" /\ bp.p.ok =>
    \A i, j \in DOMAIN bp.p.txs : i # j /\ bp.p.txs[i].id # <<>> => bp.p.txs[i].id # bp.p.txs[j].id

\* A report is applied with the gas of the batch it names and the extra gas, up to the largest
\* number, or not at all, whoever fetched the batch: a batch that cannot be fetched, or has
\* another hash, stops the block (ProduceBlock, FillInBatchGasCost).
ReportNeverGuessed ==
  bp.step = "reported" /\ bp.got.block = "report" =>
    /\ bp.r.fetch = "data"
    /\ bp.got.gas = Min({BpWide - 1, bp.r.gas + ExtraGas(bp.r).gas})

\* A block depends on its message alone: it is the same when built again, within its gas limit,
\* from all transactions that can be read of the message, with the reported gas of a batch (ProduceBlockAdvanced,
\* ParseL2Transactions, ProduceBlock).
BlocksReplay ==
  ReplaySame /\ BlockGasBounded /\ ParsedWhole /\ RefusedForAReason /\ RequestsDistinct /\ ReportNeverGuessed
=============================================================================
