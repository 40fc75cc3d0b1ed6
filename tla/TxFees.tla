------------------------------- MODULE TxFees --------------------------------
(***************************************************************************)
(* Who pays for a transaction (arbos/tx_processor.go): a deposit, the      *)
(* submission of a retryable with its automatic redeem, and an ordinary    *)
(* transaction.  A transaction is a few steps of the processor around the  *)
(* EVM; tf holds the balances it touches.  Gas is bought from and given    *)
(* back to the sender by geth, before the gas charging hook and before the *)
(* end hook.                                                               *)
(***************************************************************************)
EXTENDS Integers, FiniteSetsExt

CONSTANTS TfRetryables,   \* submissions: version, infra, base, minBase, balance, deposit, maxSub, fee, value, cap, gas
          TfOrdinary,     \* ordinary transactions: version, infra, base, minBase, gas, posterCost, limit
          TfTxGas,        \* the gas every transaction costs
          TfFeeFunds,     \* what the fee accounts hold at the start
          TfMinBases,     \* the minimum base fees a redeem may set
          TfMaxGas        \* bound on the gas that the EVM uses, leaves and gives back

VARIABLE tf

\* Amounts of gas and of wei.  The fee accounts hold what the gas of a redeem costs.
ASSUME TfAssumption ==
  /\ TfRetryables \subseteq [version : Nat, infra : BOOLEAN, base : Nat, minBase : Nat, balance : Nat, deposit : Nat,
                            maxSub : Nat, fee : Nat, value : Nat, cap : Nat, gas : Nat]
  /\ TfOrdinary \subseteq [version : Nat, infra : BOOLEAN, base : Nat \ {0}, minBase : Nat, gas : Nat, posterCost : Nat, limit : Nat]
  /\ TfTxGas \in Nat \ {0} /\ TfFeeFunds \in Nat /\ TfMinBases \subseteq Nat /\ TfMaxGas \in Nat
  /\ \A s \in TfRetryables : s.base * s.gas <= TfFeeFunds

TfAccounts == {"from", "refund", "network", "infra", "escrow", "to", "pool", "coinbase"}
TfTotal(b) == b["from"] + b["refund"] + b["network"] + b["infra"] + b["escrow"] + b["to"] + b["pool"] + b["coinbase"]

TfBalances(n) ==
  [a \in TfAccounts |-> IF a = "from" THEN n ELSE IF a \in {"network", "infra"} THEN TfFeeFunds ELSE 0]

\* takeFunds: what a pool can give of an amount.
TakeFunds(pool, take) == IF pool < take THEN pool ELSE take

\* util.TransferBalance: nothing moves when the balance does not suffice.
TransferBalance(b, x, y, n) == IF b[x] < n THEN b ELSE [[b EXCEPT ![x] = @ - n] EXCEPT ![y] = @ + n]
MintBalance(b, x, n) == [b EXCEPT ![x] = @ + n]

\* The part of a gas price that goes to the infrastructure account.
InfraFee(s, since) ==
  IF s.version >= since /\ s.infra THEN (IF s.minBase < s.base THEN s.minBase ELSE s.base) ELSE 0

TfInit ==
  \/ \E s \in TfRetryables :
       tf = [kind |-> "retryable", step |-> "submit", s |-> s, bal |-> TfBalances(s.balance), start |-> s.balance,
             maxRefund |-> 0, used |-> 0, drained |-> FALSE, success |-> FALSE, early |-> 0, compute |-> 0]
  \/ \E s \in TfOrdinary :
       tf = [kind |-> "ordinary", step |-> "charge", s |-> s, bal |-> TfBalances(s.gas * s.base), start |-> s.gas * s.base,
             maxRefund |-> 0, used |-> 0, drained |-> FALSE, success |-> FALSE, early |-> 0, compute |-> 0]
  \/ \E s \in TfRetryables :
       tf = [kind |-> "deposit", step |-> "deposit", s |-> s, bal |-> TfBalances(s.balance), start |-> s.balance,
             maxRefund |-> 0, used |-> 0, drained |-> FALSE, success |-> FALSE, early |-> 0, compute |-> 0]
-----------------------------------------------------------------------------
\* StartTxHook for an ArbitrumDepositTx: minted to the sender and passed on.
DepositTx ==
  /\ tf.step = "deposit"
  /\ tf' = [tf EXCEPT !.step = "done", !.bal = TransferBalance(MintBalance(tf.bal, "from", tf.s.deposit), "from", "to", tf.s.deposit)]

\* The excess submission fee that is refunded: only the deposit is refunded.
FeeRefund(avail, s) == TakeFunds(avail, s.maxSub - s.fee)

\* The gas cost that is withheld from the deposit before the gas price is refunded. takeFunds
\* took the infrastructure's part out of networkCost, which is the same number as gascost.
WithheldCost(s) == s.base * s.gas - InfraFee(s, 11) * s.gas

\* The gas of the automatic redeem is paid for in advance.
PayForGas(b, s) ==
  TransferBalance(TransferBalance(b, "from", "infra", InfraFee(s, 11) * s.gas),
                  "from", "network", s.base * s.gas - InfraFee(s, 11) * s.gas)

\* StartTxHook for an ArbitrumSubmitRetryableTx.
SubmitRetryableTx ==
  LET s == tf.s
      b1 == MintBalance(tf.bal, "from", s.deposit)
      avail0 == s.deposit - TakeFunds(s.deposit, s.value)
      withheldFee == TakeFunds(avail0, s.fee)
      avail1 == avail0 - withheldFee
      feeRefund == FeeRefund(avail1, s)
      avail2 == avail1 - TakeFunds(avail1, feeRefund)
      b2 == TransferBalance(TransferBalance(b1, "from", "network", s.fee), "from", "refund", feeRefund)
      b3 == TransferBalance(b2, "from", "escrow", s.value)
      costRefund == TakeFunds(avail2, s.cap * s.gas)
      withheldGas == TakeFunds(avail2, WithheldCost(s))
      priceRefund == TakeFunds(avail2 - withheldGas, (s.cap - s.base) * s.gas)
      Ends(b) == tf' = [tf EXCEPT !.step = "done", !.bal = b]
  IN  /\ tf.step = "submit"
      /\ IF b1["from"] < s.maxSub \/ s.maxSub < s.fee THEN Ends(b1)
         ELSE IF b2["from"] < s.value
         THEN \* the callvalue cannot be paid: the submission fee is given back
              Ends(TransferBalance(TransferBalance(b2, "network", "from", s.fee), "from", "refund", withheldFee))
         ELSE IF b3["from"] < s.cap * s.gas \/ s.gas < TfTxGas \/ s.cap < s.base
         THEN \* no automatic redeem
              tf' = [tf EXCEPT !.step = "created", !.bal = TransferBalance(b3, "from", "refund", costRefund)]
         ELSE tf' = [tf EXCEPT !.step = "redeem", !.maxRefund = avail2 - priceRefund + withheldFee,
                               !.early = priceRefund - TakeFunds(avail2 - TakeFunds(avail2, s.base * s.gas), (s.cap - s.base) * s.gas),
                               !.bal = TransferBalance(PayForGas(b3, s), "from", "refund", priceRefund)]

\* A refund goes to the refund address as far as the deposit goes, and to the sender beyond.
Refund(r, account, amount) ==
  LET t == TakeFunds(r.max, amount)
  IN  [bal |-> TransferBalance(TransferBalance(r.bal, account, "refund", t), account, "from", amount - t), max |-> r.max - t]

\* The submission fee is refunded on success; it is taken from the deposit in either case.
FeeSettled(r, s, success) ==
  IF success THEN Refund(r, "network", s.fee) ELSE [r EXCEPT !.max = @ - TakeFunds(@, s.fee)]

\* EndTxHook for an ArbitrumRetryTx.
EndRetryTx(b, s, gasLeft, success) ==
  LET gasRefund == s.base * gasLeft
      infraRefund == InfraFee(s, 11) * gasLeft
      r0 == [bal |-> [b EXCEPT !["from"] = @ - gasRefund], max |-> tf.maxRefund]
      r1 == FeeSettled(r0, s, success)
      r2 == [r1 EXCEPT !.max = @ - TakeFunds(@, s.base * (s.gas - gasLeft))]
      r3 == Refund(Refund(r2, "infra", infraRefund), "network", gasRefund - infraRefund)
  IN  IF success THEN r3.bal ELSE TransferBalance(r3.bal, "from", "escrow", s.value)

\* The redeem: the callvalue leaves the escrow and the prepaid gas is minted (StartTxHook), geth
\* takes the gas and gives back what is left, and the fees are settled (EndTxHook). The redeem
\* may empty the network account, or change the minimum base fee.
RedeemTx(gasLeft, success, drains, minBase) ==
  LET s == [tf.s EXCEPT !.minBase = minBase]
      b1 == MintBalance(TransferBalance(tf.bal, "escrow", "from", s.value), "from", s.base * s.gas)
      b2 == [b1 EXCEPT !["from"] = @ - s.base * s.gas]
      b3 == IF success THEN TransferBalance(b2, "from", "to", s.value) ELSE b2
      b4 == IF drains THEN TransferBalance(b3, "network", "to", b3["network"]) ELSE b3
      b5 == MintBalance(b4, "from", s.base * gasLeft)
  IN  /\ tf.step = "redeem" /\ gasLeft <= s.gas - TfTxGas /\ (drains => success)
      /\ tf' = [tf EXCEPT !.step = "redeemed", !.used = s.gas - gasLeft, !.drained = drains, !.success = success,
                          !.bal = EndRetryTx(b5, s, gasLeft, success)]
-----------------------------------------------------------------------------
\* GasChargingHook for an ordinary transaction: the poster's cost as gas, rounded down.
PosterGas(s) == s.posterCost \div s.base

\* What is held back so that no transaction computes more than a block may.
ComputeHold(s) == Max({0, s.gas - TfTxGas - PosterGas(s) - s.limit})

GasChargingTx ==
  LET s == tf.s
  IN  /\ tf.step = "charge"
      /\ IF s.gas < TfTxGas + PosterGas(s)
         THEN tf' = [tf EXCEPT !.step = "rejected"]      \* ErrIntrinsicGas: the state is reverted
         ELSE tf' = [tf EXCEPT !.step = "run", !.bal = [tf.bal EXCEPT !["from"] = @ - s.gas * s.base]]

\* A variant that leaves the infrastructure's part in the network's.
CollectFeesTwice(b, s, gasUsed) ==
  LET posterFee == s.base * PosterGas(s)
  IN  MintBalance(MintBalance(MintBalance(b, "infra", InfraFee(s, 5) * Max({0, gasUsed - PosterGas(s)})),
                              "network", Max({0, s.base * gasUsed - posterFee})), "pool", posterFee)
\* EndTxHook: the cost is split between the infrastructure, the network and the poster.
CollectFees(b, s, gasUsed) ==
  LET posterFee == s.base * PosterGas(s)
      short == s.base * gasUsed < posterFee
      computeCost == IF short THEN s.base * gasUsed ELSE s.base * gasUsed - posterFee
      infraCost == InfraFee(s, 5) * Max({0, gasUsed - PosterGas(s)})
  IN  MintBalance(MintBalance(MintBalance(b, "infra", infraCost), "network", Max({0, computeCost - infraCost})),
                  IF s.version < 2 THEN "coinbase" ELSE "pool", IF short THEN 0 ELSE posterFee)

\* The EVM runs with what the hook left; refunds for freed storage never touch the poster's gas.
ExecuteTx(ran, freed) ==
  LET s == tf.s
      available == s.gas - TfTxGas - PosterGas(s) - ComputeHold(s)
      gasUsed == TfTxGas + PosterGas(s) + ran - freed
  IN  /\ tf.step = "run" /\ ran <= available /\ freed <= (TfTxGas + ran) \div 5
      /\ tf' = [tf EXCEPT !.step = "done", !.used = gasUsed, !.success = TRUE,
                          !.compute = IF gasUsed > PosterGas(s) THEN gasUsed - PosterGas(s) ELSE gasUsed,
                          !.bal = CollectFees(MintBalance(tf.bal, "from", s.base * (s.gas - gasUsed)), s, gasUsed)]

TfNext ==
  \/ DepositTx \/ SubmitRetryableTx \/ GasChargingTx
  \/ \E left \in 0 .. TfMaxGas, success, drains \in BOOLEAN, m \in TfMinBases : RedeemTx(left, success, drains, m)
  \/ \E ran \in 0 .. TfMaxGas, freed \in 0 .. TfMaxGas : ExecuteTx(ran, freed)

TfSpec == TfInit /\ [][TfNext]_tf
-----------------------------------------------------------------------------
TfEnded == tf.step \in {"done", "created", "redeemed", "rejected"}
TfDeposit == IF tf.kind = "ordinary" \/ tf.step \in {"submit", "deposit"} THEN 0 ELSE tf.s.deposit

\* A transaction moves money and makes none: the balances add up to what was there and the
\* deposit, whatever fails and even when the redeem empties the network account
\* (StartTxHook, EndTxHook; the gas geth takes is minted to the fee accounts).
MoneyConserved ==
  TfEnded \/ tf.step = "redeem" =>
    TfTotal(tf.bal) = tf.start + 2 * TfFeeFunds + TfDeposit /\ \A a \in TfAccounts : tf.bal[a] >= 0

\* The refund address never receives more than the deposit ("Refund funds to the fee refund
\* address without overdrafting the L1 deposit", EndTxHook; availableRefund in StartTxHook).
DepositBound == tf.bal["refund"] <= TfDeposit

\* The sender and the refund address together pay for the gas used, and for the submission
\* when the retryable is created and not redeemed; the callvalue is in the escrow or spent.
\* This holds even when the redeem changes the minimum base fee, as long as the fee accounts
\* hold enough (the TODO in EndTxHook).
FeesExact ==
  TfEnded /\ ~tf.drained =>
    LET users == tf.bal["from"] + tf.bal["refund"]
        had == tf.start + TfDeposit
    IN  /\ tf.kind = "ordinary" => users = had - tf.s.base * tf.used
        /\ tf.kind = "deposit" => users = tf.start /\ tf.bal["to"] = tf.s.deposit
        /\ tf.kind = "retryable" /\ tf.step = "done" => users = had
        /\ tf.step = "created" => users = had - tf.s.fee - tf.s.value /\ tf.bal["escrow"] = tf.s.value
        /\ tf.step = "redeemed" /\ tf.success => users = had - tf.s.value - tf.s.base * tf.used
        /\ tf.step = "redeemed" /\ ~tf.success =>
             users = had - tf.s.value - tf.s.fee - tf.s.base * tf.used /\ tf.bal["escrow"] = tf.s.value

\* No transaction is charged to the gas pool with more than a block may compute beside the
\* gas every transaction costs, and the poster's part is not charged to it
\* (GasChargingHook, ForceRefundGas, EndTxHook).
GasPoolCharged == tf.kind = "ordinary" /\ tf.step = "done" => tf.compute <= tf.s.limit + TfTxGas /\ tf.compute >= TfTxGas - TfTxGas \div 5

\* A transaction makes no money and takes what its gas costs, from whom it should and no more
\* (StartTxHook, GasChargingHook, EndTxHook).
MoneySound == MoneyConserved /\ DepositBound /\ FeesExact /\ GasPoolCharged

TfTypeOK ==
  /\ tf \in [kind : {"retryable", "ordinary", "deposit"},
             step : {"submit", "charge", "deposit", "done", "created", "redeem", "redeemed", "run", "rejected"},
             s : TfRetryables \cup TfOrdinary, bal : [TfAccounts -> Nat], start : Nat, maxRefund : Nat, used : Nat,
             drained : BOOLEAN, success : BOOLEAN, early : Int, compute : Nat]
  /\ tf.kind = "ordinary" => tf.s \in TfOrdinary /\ tf.step \in {"charge", "run", "done", "rejected"}
  /\ tf.kind = "deposit" => tf.s \in TfRetryables /\ tf.step \in {"deposit", "done"}
  /\ tf.kind = "retryable" => tf.s \in TfRetryables /\ tf.step \in {"submit", "done", "created", "redeem", "redeemed"}

\* What the steps leave for the next one: before its first step a transaction has moved
\* nothing; in the EVM it has paid for its gas; and a redeem that is to come has been paid for,
\* from the sender's balance, and may give back to the refund address what the deposit has left.
TfInv ==
  /\ TfTypeOK /\ MoneySound
  /\ tf.step \in {"submit", "charge", "deposit"} => tf.bal = TfBalances(tf.start) /\ tf.used = 0 /\ ~tf.drained
  /\ tf.step \in {"charge", "run"} => tf.start = tf.s.gas * tf.s.base
  /\ tf.step = "run" => /\ tf.bal = [TfBalances(tf.start) EXCEPT !["from"] = 0]
                        /\ tf.s.gas >= TfTxGas + PosterGas(tf.s)
  /\ tf.step = "redeem" =>
       /\ tf.bal["refund"] + tf.maxRefund <= tf.s.deposit /\ tf.bal["escrow"] = tf.s.value
       /\ tf.bal["from"] + tf.bal["refund"] + tf.s.fee + tf.s.value + tf.s.base * tf.s.gas = tf.start + tf.s.deposit
       /\ tf.bal["network"] >= TfFeeFunds + tf.s.fee /\ tf.bal["infra"] >= TfFeeFunds

\* The cost of the gas is charged to the deposit before the gas price is refunded from it
\* (StartTxHook: "gascost is conceptually charged before the gas price refund").
GasChargedFirst == tf.early <= 0
=============================================================================
