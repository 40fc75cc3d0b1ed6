--------------------------- MODULE DataPosterFees ---------------------------
(***************************************************************************)
(* What the data poster bids (feeAndTipCaps and replaceTx of               *)
(* arbnode/dataposter/data_poster.go): the share of the balance that a     *)
(* transaction may spend, the caps on its base fee, tip and blob fee, and  *)
(* the replacement of a transaction by one with higher caps.  No           *)
(* transaction is mined meanwhile, so the soft confirmed nonce is that of  *)
(* the first one and the pending balance stays; the prices of the parent   *)
(* chain may move once.                                                    *)
(***************************************************************************)
EXTENDS Integers, Sequences, FiniteSetsExt

CONSTANTS
  FeeBalance,        \* p.balance
  MaxMempoolWeight,  \* min of config.MaxMempoolWeight and config.MaxMempoolTransactions
  BlobCounts,        \* the numbers of blobs of a transaction; 0 is a calldata transaction
  GasLimit,          \* the gas of a transaction
  BlobGas,           \* params.BlobTxBlobGasPerBlob
  BlobNormalGas,     \* the gas that the data of one blob would cost as calldata
  BaseFees, BlobFees, Tips, Targets,   \* the prices of the parent chain and what the formula yields
  MaxFeeBidBips,     \* config.MaxFeeBidMultipleBips
  MaxReplace         \* bound on the replacements

VARIABLES
  market,    \* the prices of the parent chain, and what the fee cap formula yields
  moved,     \* whether they have moved
  txs,       \* the transactions in the mempool, in the order of their nonces
  replaced,  \* how many replacements there were
  lastRbf    \* the last replacement: the transaction before and after it

feeVars == <<market, moved, txs, replaced, lastRbf>>

NoCaps == [blobs |-> 0, feeCap |-> -1, tipCap |-> -1, blobCap |-> -1]
NoRbf == <<>>

Markets == [base : BaseFees, blob : BlobFees, tip : Tips, target : Targets]

FeesInit == market \in Markets /\ moved = FALSE /\ txs = <<>> /\ replaced = 0 /\ lastRbf = NoRbf

Min2(a, b) == IF a < b THEN a ELSE b
Max2(a, b) == IF a > b THEN a ELSE b
OneInBips == 10000
MulBips(v, bips) == (v * bips) \div OneInBips
MinRbf(blobs) == IF blobs > 0 THEN 2 * OneInBips ELSE (OneInBips * 11) \div 10

\* The share of the balance: half for the first transaction, and the rest split by weight,
\* doubled for the first half of the mempool.
BalanceForTx(offset, blobs) ==
  LET weight == Max2(1, blobs)
      first == offset = 0 \/ MaxMempoolWeight = 1
      half == FeeBalance \div 2
      early == offset > 0 /\ offset < 1 + (MaxMempoolWeight - 1) \div 2
      perWeight == ((half * (IF early THEN 4 ELSE 2)) \div 3) \div (MaxMempoolWeight - 1)
  IN (IF first THEN half ELSE 0) + (IF first /\ weight = 1 THEN 0 ELSE perWeight * weight)

\* A variant in which the tip of a replacement is not raised.
RaisedTipNot(tip, last, blobs) == tip
RaisedTip(tip, last, blobs) ==
  IF last = NoCaps THEN tip ELSE Max2(tip, MulBips(last.tipCap, MinRbf(blobs)))

\* feeAndTipCaps for the transaction at this offset from the soft confirmed nonce; last is the
\* transaction that it replaces, or NoCaps.  NoCaps is the error of a new transaction.
FeeAndTipCaps(offset, blobs, last, m) ==
  LET rbf == MinRbf(blobs)
      repl == last # NoCaps
      target == Min2(m.target * (GasLimit + blobs * BlobNormalGas), BalanceForTx(offset, blobs))
      tip0 == RaisedTip(m.tip, last, blobs)
      nonBlobFee == m.base + tip0
      blobGasUsed == BlobGas * blobs
      blob1 == (target * m.blob) \div (m.blob * blobGasUsed + nonBlobFee * GasLimit)
      blob2 == IF repl /\ blobs > 0 THEN Max2(blob1, MulBips(last.blobCap, rbf)) ELSE blob1
      targetBlob == blob2 * blobGasUsed
      targetBase == target - targetBlob
      base1 == targetBase \div GasLimit
      low == repl /\ blobs > 0 /\ (base1 < 0 \/ (base1 * OneInBips) \div last.feeCap < rbf)
      base2 == IF low THEN MulBips(last.feeCap, rbf) ELSE base1
      blob3 == IF low THEN (targetBlob - (base2 * GasLimit - targetBase)) \div blobGasUsed ELSE blob2
      capBase == Max2(MulBips(nonBlobFee, MaxFeeBidBips), IF repl THEN MulBips(last.feeCap, rbf) ELSE 0)
      capBlob == Max2(MulBips(m.blob, MaxFeeBidBips),
                      IF repl /\ blobs > 0 THEN MulBips(last.blobCap, rbf) ELSE 0)
      base == Min2(base2, capBase)
      blob == Min2(blob3, capBlob)
      tip == Min2(tip0, base)
      new == [blobs |-> blobs, feeCap |-> base, tipCap |-> tip, blobCap |-> blob]
  IN IF base < 0 \/ tip < 0 \/ blob < 0 THEN last
     ELSE IF repl /\ (base < nonBlobFee \/ (blobs > 0 /\ blob < m.blob)) THEN last
     ELSE new

Weight(tx) == Max2(1, tx.blobs)
TotalWeight(s) == FoldFunction(+, 0, [i \in DOMAIN s |-> Weight(s[i])])

\* PostTransaction: canPostWithNonce keeps the weight of the mempool within the limit.
PostTx ==
  /\ \E blobs \in BlobCounts :
       LET new == FeeAndTipCaps(Len(txs), blobs, NoCaps, market) IN
       /\ TotalWeight(txs) + Max2(1, blobs) <= MaxMempoolWeight
       /\ new # NoCaps
       /\ txs' = Append(txs, new)
  /\ UNCHANGED <<market, moved, replaced, lastRbf>>

\* replaceTx: the transaction is replaced when every cap rises by the minimum.
ReplaceTx ==
  /\ replaced < MaxReplace
  /\ \E i \in 1..Len(txs) :
       LET last == txs[i]
           new == FeeAndTipCaps(i - 1, last.blobs, last, market)
       IN /\ last.feeCap > 0 /\ (last.blobs > 0 => last.blobCap > 0)
          /\ (new.feeCap * OneInBips) \div last.feeCap >= MinRbf(last.blobs)
          /\ last.blobs > 0 => (new.blobCap * OneInBips) \div last.blobCap >= MinRbf(last.blobs)
          /\ txs' = [txs EXCEPT ![i] = new]
          /\ lastRbf' = <<last, new>>
  /\ replaced' = replaced + 1
  /\ UNCHANGED <<market, moved>>

MarketMoves ==
  /\ ~moved /\ moved' = TRUE
  /\ market' \in Markets \ {market}
  /\ UNCHANGED <<txs, replaced, lastRbf>>

FeesNext == PostTx \/ ReplaceTx \/ MarketMoves

-----------------------------------------------------------------------------
\* The most that a transaction can spend.
MaxCost(tx) == tx.feeCap * GasLimit + tx.blobCap * BlobGas * tx.blobs
TotalCost == FoldFunction(+, 0, [i \in DOMAIN txs |-> MaxCost(txs[i])])

\* The transactions in the mempool can together not spend more than the balance
\* (config.AllocateMempoolBalance) as long as none of them carries blobs and none was replaced.
CalldataWithinBalance ==
  replaced = 0 /\ (\A i \in 1..Len(txs) : txs[i].blobs = 0) => TotalCost <= FeeBalance

\* The same for every mix of calldata and blob transactions.
MempoolWithinBalance == replaced = 0 => TotalCost <= FeeBalance

\* A replacement raises the base fee cap, the tip cap and the blob fee cap by the minimum that
\* the parent chain's mempool asks for, and no transaction has a tip above its fee cap,
\* however the caps were limited by the balance and by the bid multiple.
ReplacementsAccepted ==
  /\ \A i \in 1..Len(txs) : txs[i].tipCap <= txs[i].feeCap
  /\ lastRbf # NoRbf =>
       LET old == lastRbf[1]
           new == lastRbf[2]
           Up(a, b) == b >= MulBips(a, MinRbf(old.blobs))
       IN Up(old.feeCap, new.feeCap) /\ Up(old.tipCap, new.tipCap)
          /\ (old.blobs > 0 => Up(old.blobCap, new.blobCap))

\* The fees that are bid are accepted by the parent chain's mempool and covered by the balance
\* (feeAndTipCaps).
FeesSound == CalldataWithinBalance /\ ReplacementsAccepted
=============================================================================
