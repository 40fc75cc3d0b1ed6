---------------------------- MODULE MoneyProofs ----------------------------
(***************************************************************************)
(* Where money moves.  Who pays for a transaction, for every amount, price *)
(* and gas limit; and what the validator's wallet spends, for every set of *)
(* batches and every number of failures.                                   *)
(***************************************************************************)
EXTENDS TxFees, ValidatorWallet, TLAPS

(* The fees of a transaction.                                              *)

\* What a transfer does: the amount leaves the one account and reaches the other when the
\* balance suffices, and the sum stays.
Transferred(b, c, x, y, n) ==
  /\ c \in [TfAccounts -> Nat] /\ TfTotal(c) = TfTotal(b)
  /\ b[x] >= n => c[x] = b[x] - n /\ c[y] = b[y] + n
  /\ b[x] < n => c[x] = b[x] /\ c[y] = b[y]
  /\ \A a \in TfAccounts \ {x, y} : c[a] = b[a]

\* What minting does: one balance rises, and so does the sum.
Minted(b, c, x, n) ==
  /\ c \in [TfAccounts -> Nat] /\ TfTotal(c) = TfTotal(b) + n /\ c[x] = b[x] + n
  /\ \A a \in TfAccounts \ {x} : c[a] = b[a]

\* What taking gas does: one balance falls, and so does the sum.
Burned(b, c, x, n) ==
  /\ c \in [TfAccounts -> Nat] /\ TfTotal(c) = TfTotal(b) - n /\ c[x] = b[x] - n
  /\ \A a \in TfAccounts \ {x} : c[a] = b[a]

\* What a refund from an account does: it stays within what may still be refunded, and all of it
\* reaches the sender or the refund address when the account holds it.
Refunded(bal, max, q, account, amount) ==
  /\ q = [bal |-> q.bal, max |-> q.max] /\ q.bal \in [TfAccounts -> Nat] /\ q.max \in Nat
  /\ TfTotal(q.bal) = TfTotal(bal)
  /\ q.bal["refund"] + q.max <= bal["refund"] + max /\ q.bal["from"] >= bal["from"]
  /\ bal[account] >= amount =>
       /\ q.bal["from"] + q.bal["refund"] = bal["from"] + bal["refund"] + amount
       /\ q.bal[account] = bal[account] - amount
  /\ \A a \in TfAccounts \ {"from", "refund", account} : q.bal[a] = bal[a]

\* util.TransferBalance is a transfer, and moves nothing when the balance does not suffice.
LEMMA TransferFacts ==
  ASSUME NEW b \in [TfAccounts -> Nat], NEW x \in TfAccounts, NEW y \in TfAccounts, x # y, NEW n \in Nat
  PROVE  Transferred(b, TransferBalance(b, x, y, n), x, y, n)
<1> DEFINE c == TransferBalance(b, x, y, n)
<1>1. CASE b[x] < n
  BY <1>1, SMTT(60) DEF TransferBalance, Transferred
<1>2. CASE b[x] >= n
  <2>1. ~(b[x] < n) /\ b[x] - n \in Nat /\ b[y] + n \in Nat
    BY <1>2, SMTT(60)
  <2>2. c = [[b EXCEPT ![x] = @ - n] EXCEPT ![y] = @ + n]
    BY <2>1, SMTT(60) DEF TransferBalance
  <2>3. c \in [TfAccounts -> Nat] /\ c[x] = b[x] - n /\ c[y] = b[y] + n /\ \A a \in TfAccounts \ {x, y} : c[a] = b[a]
    BY <2>1, <2>2
  <2>4. TfTotal(c) = TfTotal(b)
    <3> HIDE DEF c
    <3> QED BY <2>3, <1>2, SMTT(60) DEF TfTotal, TfAccounts
  <2> QED
    BY <1>2, <2>3, <2>4 DEF Transferred
<1>3. b[x] \in Nat
  OBVIOUS
<1> QED
  BY <1>1, <1>2, <1>3, SMTT(60) DEF Transferred

\* Minting (util.MintBalance) raises one balance and the sum.
LEMMA MintFacts ==
  ASSUME NEW b \in [TfAccounts -> Nat], NEW x \in TfAccounts, NEW n \in Nat
  PROVE  Minted(b, MintBalance(b, x, n), x, n)
<1> DEFINE c == MintBalance(b, x, n)
<1>1. c \in [TfAccounts -> Nat] /\ c[x] = b[x] + n /\ \A a \in TfAccounts \ {x} : c[a] = b[a]
  BY DEF MintBalance
<1> HIDE DEF c
<1>2. TfTotal(c) = TfTotal(b) + n
  BY <1>1 DEF TfTotal, TfAccounts
<1> QED
  BY <1>1, <1>2 DEF c, Minted

\* The gas that geth takes (buyGas) lowers one balance and the sum.
LEMMA BurnFacts ==
  ASSUME NEW b \in [TfAccounts -> Nat], NEW x \in TfAccounts, NEW n \in Nat, n <= b[x]
  PROVE  Burned(b, [b EXCEPT ![x] = @ - n], x, n)
<1> DEFINE c == [b EXCEPT ![x] = @ - n]
<1>1. c \in [TfAccounts -> Nat] /\ c[x] = b[x] - n /\ \A a \in TfAccounts \ {x} : c[a] = b[a]
  OBVIOUS
<1> HIDE DEF c
<1>2. TfTotal(c) = TfTotal(b) - n
  BY <1>1 DEF TfTotal, TfAccounts
<1> QED
  BY <1>1, <1>2, Zenon DEF c, Burned

\* takeFunds takes no more than there is and no more than is asked for.
LEMMA TakeFacts ==
  ASSUME NEW p \in Nat, NEW n \in Nat
  PROVE  TakeFunds(p, n) \in Nat /\ TakeFunds(p, n) <= p /\ TakeFunds(p, n) <= n
BY DEF TakeFunds

\* A record with another limit.
LEMMA OtherMax ==
  ASSUME NEW r, NEW x, NEW y, NEW z, r = [bal |-> x, max |-> y]
  PROVE  [r EXCEPT !.max = z] = [bal |-> x, max |-> z]
OBVIOUS

\* The larger of zero and a number.
LEMMA MaxZero ==
  ASSUME NEW n \in Int
  PROVE  Max({0, n}) = IF n > 0 THEN n ELSE 0
<1> DEFINE m == IF n > 0 THEN n ELSE 0
<1>1. m \in {0, n} /\ \A y \in {0, n} : m >= y
  OBVIOUS
<1>2. \A x \in {0, n} : (\A y \in {0, n} : x >= y) => x = m
  OBVIOUS
<1> HIDE DEF m
<1>3. Max({0, n}) = m
  BY <1>1, <1>2, Zenon DEF Max
<1> QED
  BY <1>3 DEF m

\* A product of a smaller number is smaller.
LEMMA ProductOrder ==
  ASSUME NEW a \in Nat, NEW b \in Nat, NEW g \in Nat, a <= b
  PROVE  a * g \in Nat /\ b * g \in Nat /\ a * g <= b * g /\ (b - a) * g = b * g - a * g /\ g * a = a * g
OBVIOUS

\* The balances at the start add up to what the sender has and the funds of the fee accounts.
LEMMA BalancesFacts ==
  ASSUME NEW n \in Nat
  PROVE  LET b == TfBalances(n)
         IN  /\ b \in [TfAccounts -> Nat] /\ TfTotal(b) = n + 2 * TfFeeFunds
             /\ b["from"] = n /\ b["network"] = TfFeeFunds /\ b["infra"] = TfFeeFunds
             /\ b["refund"] = 0 /\ b["escrow"] = 0 /\ b["to"] = 0
<1> DEFINE b == TfBalances(n)
<1> USE TfAssumption
<1>1. b \in [TfAccounts -> Nat] /\ \A a \in TfAccounts : b[a] = IF a = "from" THEN n ELSE IF a \in {"network", "infra"} THEN TfFeeFunds ELSE 0
  BY DEF TfBalances
<1> HIDE DEF b
<1>2. /\ b["from"] = n /\ b["network"] = TfFeeFunds /\ b["infra"] = TfFeeFunds
      /\ b["refund"] = 0 /\ b["escrow"] = 0 /\ b["to"] = 0 /\ b["pool"] = 0 /\ b["coinbase"] = 0
  BY <1>1 DEF TfAccounts
<1>3. TfTotal(b) = n + 2 * TfFeeFunds
  BY <1>2 DEF TfTotal
<1> QED
  BY <1>1, <1>2, <1>3 DEF b

\* The refund function of EndTxHook refunds.
LEMMA RefundFacts ==
  ASSUME NEW bal \in [TfAccounts -> Nat], NEW max \in Nat, NEW account \in {"network", "infra"}, NEW amount \in Nat
  PROVE  Refunded(bal, max, Refund([bal |-> bal, max |-> max], account, amount), account, amount)
<1> DEFINE q == Refund([bal |-> bal, max |-> max], account, amount)
           t == TakeFunds(max, amount)
           b1 == TransferBalance(bal, account, "refund", t)
           b2 == TransferBalance(b1, account, "from", amount - t)
<1>1. t \in Nat /\ t <= max /\ t <= amount
  BY TakeFacts
<1>2. q = [bal |-> b2, max |-> max - t] /\ q.bal = b2 /\ q.max = max - t
  BY Zenon DEF Refund
<1> HIDE DEF t, q
<1>3. amount - t \in Nat /\ max - t \in Nat
  BY <1>1
<1>4. /\ {"from", "refund", "network", "infra"} \subseteq TfAccounts /\ account \in TfAccounts
      /\ "from" \in TfAccounts /\ "refund" \in TfAccounts /\ account # "refund" /\ account # "from"
  BY DEF TfAccounts
<1>12. Transferred(bal, b1, account, "refund", t)
  BY <1>1, <1>4, TransferFacts, Zenon
<1> HIDE DEF b1
<1>5. /\ b1 \in [TfAccounts -> Nat] /\ TfTotal(b1) = TfTotal(bal)
      /\ bal[account] >= t => b1[account] = bal[account] - t /\ b1["refund"] = bal["refund"] + t
      /\ bal[account] < t => b1[account] = bal[account] /\ b1["refund"] = bal["refund"]
      /\ \A a \in TfAccounts \ {account, "refund"} : b1[a] = bal[a]
  BY <1>12, Zenon DEF Transferred
<1>13. Transferred(b1, b2, account, "from", amount - t)
  BY <1>3, <1>4, <1>5, TransferFacts, Zenon
<1> HIDE DEF b2
<1>6. /\ b2 \in [TfAccounts -> Nat] /\ TfTotal(b2) = TfTotal(b1)
      /\ b1[account] >= amount - t => b2[account] = b1[account] - (amount - t) /\ b2["from"] = b1["from"] + (amount - t)
      /\ b1[account] < amount - t => b2[account] = b1[account] /\ b2["from"] = b1["from"]
      /\ \A a \in TfAccounts \ {account, "from"} : b2[a] = b1[a]
  BY <1>13, Zenon DEF Transferred
<1>7. \A a \in TfAccounts \ {"from", "refund", account} : b2[a] = bal[a]
  BY <1>5, <1>6, SMTT(60)
<1>8. b1["from"] = bal["from"] /\ b2["refund"] = b1["refund"]
  BY <1>4, <1>5, <1>6, SMTT(60)
<1>9. /\ bal["from"] \in Nat /\ bal["refund"] \in Nat /\ bal[account] \in Nat
      /\ b1["from"] \in Nat /\ b1["refund"] \in Nat /\ b1[account] \in Nat
      /\ b2["from"] \in Nat /\ b2["refund"] \in Nat /\ b2[account] \in Nat
  BY <1>4, <1>5, <1>6, SMTT(60)
<1>10. b2["refund"] + (max - t) <= bal["refund"] + max /\ b2["from"] >= bal["from"]
  BY <1>1, <1>3, <1>5, <1>6, <1>8, <1>9, SMTT(60)
<1>11. bal[account] >= amount => b2["from"] + b2["refund"] = bal["from"] + bal["refund"] + amount /\ b2[account] = bal[account] - amount
  BY <1>1, <1>3, <1>5, <1>6, <1>8, <1>9
<1> QED
  BY <1>2, <1>3, <1>5, <1>6, <1>7, <1>10, <1>11, Zenon DEF q, Refunded

\* The infrastructure's part of a price is no more than the price.
LEMMA InfraFacts ==
  ASSUME NEW s, NEW since \in Nat, s.base \in Nat, s.minBase \in Nat
  PROVE  InfraFee(s, since) \in Nat /\ InfraFee(s, since) <= s.base
BY DEF InfraFee

\* What the end of a redeem does to the balances b: nothing is lost but the gas given back, the
\* refund address gets no more than the limit, and if the fee accounts hold it, the fees are
\* refunded and the callvalue of a redeem that failed is back in the escrow.
Settled(b, c, s, left, success, max) ==
  /\ c \in [TfAccounts -> Nat] /\ TfTotal(c) + s.base * left = TfTotal(b)
  /\ c["refund"] <= b["refund"] + max
  /\ success /\ b["network"] >= s.base * s.gas + s.fee /\ b["infra"] >= s.base * s.gas =>
       c["from"] + c["refund"] = b["from"] + b["refund"] + s.fee
  /\ ~success /\ b["network"] >= s.base * s.gas /\ b["infra"] >= s.base * s.gas /\ b["from"] >= s.base * left + s.value =>
       c["from"] + c["refund"] + s.value = b["from"] + b["refund"] /\ c["escrow"] = b["escrow"] + s.value

\* The end hook of a redeem settles it (EndTxHook).
LEMMA EndRetryFacts ==
  ASSUME NEW s, s.base \in Nat, s.gas \in Nat, s.fee \in Nat, s.value \in Nat, s.minBase \in Nat, tf.maxRefund \in Nat,
         NEW b \in [TfAccounts -> Nat], NEW left \in Nat, left <= s.gas, NEW success \in BOOLEAN, s.base * left <= b["from"]
  PROVE  Settled(b, EndRetryTx(b, s, left, success), s, left, success, tf.maxRefund)
<1> DEFINE gr == s.base * left
           ir == InfraFee(s, 11) * left
           full == s.base * s.gas
           f0 == [b EXCEPT !["from"] = @ - gr]
           r1 == FeeSettled([bal |-> f0, max |-> tf.maxRefund], s, success)
           m2 == r1.max - TakeFunds(r1.max, s.base * (s.gas - left))
           q1 == Refund([bal |-> r1.bal, max |-> m2], "infra", ir)
           q2 == Refund(q1, "network", gr - ir)
           c == IF success THEN q2.bal ELSE TransferBalance(q2.bal, "from", "escrow", s.value)
<1>1. gr \in Nat /\ ir \in Nat /\ full \in Nat /\ ir <= gr /\ gr <= full /\ s.base * (s.gas - left) \in Nat
  <2>1. InfraFee(s, 11) \in Nat /\ InfraFee(s, 11) <= s.base
    BY InfraFacts
  <2> HIDE DEF gr, ir, full
  <2>2. ir \in Nat /\ gr \in Nat /\ ir <= gr
    BY <2>1, ProductOrder DEF ir, gr
  <2>3. full \in Nat /\ gr <= full /\ s.base * (s.gas - left) \in Nat
    BY ProductOrder DEF gr, full
  <2> QED
    BY <2>2, <2>3
<1>2. /\ {"from", "refund", "network", "infra", "escrow"} \subseteq TfAccounts
      /\ "from" \in TfAccounts /\ "escrow" \in TfAccounts /\ "network" \in TfAccounts /\ "infra" \in TfAccounts
  BY DEF TfAccounts
<1>3. /\ f0 \in [TfAccounts -> Nat] /\ TfTotal(f0) = TfTotal(b) - gr /\ f0["from"] = b["from"] - gr
      /\ \A a \in TfAccounts \ {"from"} : f0[a] = b[a]
  <2> HIDE DEF gr
  <2>1. gr <= b["from"]
    BY DEF gr
  <2>2. Burned(b, f0, "from", gr)
    BY <1>1, <1>2, <2>1, BurnFacts, ZenonT(60)
  <2> HIDE DEF f0
  <2> QED
    BY <2>2, Zenon DEF Burned
<1> HIDE DEF gr, ir, full, f0
<1>4. /\ r1 = [bal |-> r1.bal, max |-> r1.max] /\ r1.bal \in [TfAccounts -> Nat] /\ r1.max \in Nat
      /\ TfTotal(r1.bal) = TfTotal(f0)
      /\ r1.bal["refund"] + r1.max <= f0["refund"] + tf.maxRefund /\ r1.bal["from"] >= f0["from"]
      /\ success /\ f0["network"] >= s.fee =>
           /\ r1.bal["from"] + r1.bal["refund"] = f0["from"] + f0["refund"] + s.fee
           /\ r1.bal["network"] = f0["network"] - s.fee
      /\ ~success => r1.bal = f0
      /\ \A a \in TfAccounts \ {"from", "refund", "network"} : r1.bal[a] = f0[a]
  <2>1. CASE success
    <3>1. r1 = Refund([bal |-> f0, max |-> tf.maxRefund], "network", s.fee)
      BY <2>1, Zenon DEF FeeSettled
    <3>2. Refunded(f0, tf.maxRefund, r1, "network", s.fee)
      BY <1>3, <3>1, RefundFacts, ZenonT(60)
    <3> HIDE DEF r1
    <3> QED
      BY <2>1, <3>2, Zenon DEF Refunded
  <2>2. CASE ~success
    <3> DEFINE m == tf.maxRefund - TakeFunds(tf.maxRefund, s.fee)
    <3>6. [bal |-> f0, max |-> tf.maxRefund].max = tf.maxRefund
      OBVIOUS
    <3>7. r1 = [[bal |-> f0, max |-> tf.maxRefund] EXCEPT !.max = m]
      BY <2>2, <3>6, Zenon DEF FeeSettled
    <3> HIDE DEF r1, m
    <3>1. r1 = [bal |-> f0, max |-> m]
      BY <3>7
    <3>2. r1.bal = f0 /\ r1.max = m
      BY <3>1
    <3>3. m \in Nat /\ m <= tf.maxRefund
      <4>1. TakeFunds(tf.maxRefund, s.fee) \in Nat /\ TakeFunds(tf.maxRefund, s.fee) <= tf.maxRefund
        BY TakeFacts, Zenon
      <4> QED
        BY <4>1 DEF m
    <3>4. f0["refund"] \in Nat /\ f0["from"] \in Nat
      BY <1>2, <1>3
    <3>5. f0["refund"] + m <= f0["refund"] + tf.maxRefund /\ f0["from"] >= f0["from"]
      BY <3>3, <3>4, SMTT(60)
    <3> QED
      BY <1>3, <2>2, <3>1, <3>2, <3>3, <3>5, Zenon
  <2> QED
    BY <2>1, <2>2
<1> HIDE DEF r1
<1>5. m2 \in Nat /\ m2 <= r1.max
  BY <1>1, <1>4, TakeFacts
<1>6. /\ q1 = [bal |-> q1.bal, max |-> q1.max] /\ q1.bal \in [TfAccounts -> Nat] /\ q1.max \in Nat
      /\ TfTotal(q1.bal) = TfTotal(r1.bal)
      /\ q1.bal["refund"] + q1.max <= r1.bal["refund"] + m2 /\ q1.bal["from"] >= r1.bal["from"]
      /\ r1.bal["infra"] >= ir => q1.bal["from"] + q1.bal["refund"] = r1.bal["from"] + r1.bal["refund"] + ir
      /\ \A a \in TfAccounts \ {"from", "refund", "infra"} : q1.bal[a] = r1.bal[a]
  <2> HIDE DEF m2
  <2>1. Refunded(r1.bal, m2, q1, "infra", ir)
    BY <1>1, <1>4, <1>5, RefundFacts, Zenon
  <2> HIDE DEF q1
  <2> QED
    BY <2>1, Zenon DEF Refunded
<1> HIDE DEF m2, q1
<1>7. /\ q2.bal \in [TfAccounts -> Nat] /\ q2.max \in Nat
      /\ TfTotal(q2.bal) = TfTotal(q1.bal)
      /\ q2.bal["refund"] + q2.max <= q1.bal["refund"] + q1.max /\ q2.bal["from"] >= q1.bal["from"]
      /\ q1.bal["network"] >= gr - ir => q2.bal["from"] + q2.bal["refund"] = q1.bal["from"] + q1.bal["refund"] + (gr - ir)
      /\ \A a \in TfAccounts \ {"from", "refund", "network"} : q2.bal[a] = q1.bal[a]
  <2>1. gr - ir \in Nat
    BY <1>1
  <2>2. q2 = Refund([bal |-> q1.bal, max |-> q1.max], "network", gr - ir)
    BY <1>6, Zenon
  <2> HIDE DEF q2
  <2>3. Refunded(q1.bal, q1.max, q2, "network", gr - ir)
    BY <1>6, <2>1, <2>2, RefundFacts, Zenon
  <2> QED
    BY <2>3, Zenon DEF Refunded
<1>8. EndRetryTx(b, s, left, success) = c
  <2>1. [r1 EXCEPT !.max = @ - TakeFunds(@, s.base * (s.gas - left))] = [bal |-> r1.bal, max |-> m2]
    <3>1. r1 = [bal |-> r1.bal, max |-> r1.max]
      BY <1>4
    <3>2. [r1 EXCEPT !.max = m2] = [bal |-> r1.bal, max |-> m2]
      BY <3>1, OtherMax
    <3> QED
      BY <3>2, Zenon DEF m2
  <2> DEFINE r2 == [r1 EXCEPT !.max = @ - TakeFunds(@, s.base * (s.gas - left))]
             r3 == Refund(Refund(r2, "infra", ir), "network", gr - ir)
  <2>2. EndRetryTx(b, s, left, success) = IF success THEN r3.bal ELSE TransferBalance(r3.bal, "from", "escrow", s.value)
    BY Zenon DEF EndRetryTx, gr, ir, f0, r1
  <2> HIDE DEF r2
  <2>3. r3 = q2
    BY <2>1, ZenonT(60) DEF q1, r2
  <2> HIDE DEF r3, q2
  <2> QED
    BY <2>2, <2>3, Zenon
<1> HIDE DEF q2
<1>9. /\ c \in [TfAccounts -> Nat] /\ TfTotal(c) = TfTotal(q2.bal)
      /\ c["refund"] = q2.bal["refund"]
      /\ success => c["from"] = q2.bal["from"]
      /\ ~success /\ q2.bal["from"] >= s.value => c["from"] = q2.bal["from"] - s.value /\ c["escrow"] = q2.bal["escrow"] + s.value
  <2>1. CASE success
    <3>1. c = q2.bal
      BY <2>1
    <3> HIDE DEF c
    <3> QED
      BY <1>7, <2>1, <3>1, Zenon
  <2>2. CASE ~success
    <3>1. c = TransferBalance(q2.bal, "from", "escrow", s.value)
      BY <2>2
    <3> HIDE DEF c
    <3>2. Transferred(q2.bal, c, "from", "escrow", s.value)
      BY <1>2, <1>7, <3>1, TransferFacts, Zenon
    <3>3. c["refund"] = q2.bal["refund"]
      BY <1>2, <3>2, Zenon DEF Transferred
    <3> QED
      BY <2>2, <3>2, <3>3, Zenon DEF Transferred
  <2> QED
    BY <2>1, <2>2
<1> HIDE DEF c
<1> DEFINE N(x) == x["from"] \in Nat /\ x["refund"] \in Nat /\ x["network"] \in Nat /\ x["infra"] \in Nat /\ x["escrow"] \in Nat /\ TfTotal(x) \in Int
<1>10. \A x \in [TfAccounts -> Nat] : N(x)
  BY DEF TfAccounts, TfTotal
<1>11. N(b) /\ N(f0) /\ N(r1.bal) /\ N(q1.bal) /\ N(q2.bal) /\ N(c)
  <2> HIDE DEF N
  <2> QED
    BY <1>3, <1>4, <1>6, <1>7, <1>9, <1>10, ZenonT(60)
<1>12. /\ f0["refund"] = b["refund"] /\ f0["network"] = b["network"] /\ f0["infra"] = b["infra"] /\ f0["escrow"] = b["escrow"]
       /\ r1.bal["infra"] = f0["infra"] /\ r1.bal["escrow"] = f0["escrow"]
       /\ q1.bal["network"] = r1.bal["network"] /\ q1.bal["escrow"] = r1.bal["escrow"]
       /\ q2.bal["escrow"] = q1.bal["escrow"]
  BY <1>2, <1>3, <1>4, <1>6, <1>7, SMTT(60)
<1>13. TfTotal(c) + gr = TfTotal(b)
  BY <1>1, <1>3, <1>4, <1>6, <1>7, <1>9, <1>11, SMTT(60)
<1>14. c["refund"] <= b["refund"] + tf.maxRefund
  BY <1>4, <1>5, <1>6, <1>7, <1>9, <1>11, <1>12, SMTT(60)
<1>15. ASSUME success, b["network"] >= full + s.fee, b["infra"] >= full
       PROVE  c["from"] + c["refund"] = b["from"] + b["refund"] + s.fee
  BY <1>1, <1>3, <1>4, <1>6, <1>7, <1>9, <1>11, <1>12, <1>15, SMTT(60)
<1>16. ASSUME ~success, b["network"] >= full, b["infra"] >= full, b["from"] >= gr + s.value
       PROVE  c["from"] + c["refund"] + s.value = b["from"] + b["refund"] /\ c["escrow"] = b["escrow"] + s.value
  <2>1. q2.bal["from"] >= s.value
    BY <1>1, <1>3, <1>4, <1>6, <1>7, <1>11, <1>12, <1>16, SMTT(60)
  <2>2. r1.bal["network"] = b["network"] /\ r1.bal["from"] = f0["from"] /\ r1.bal["refund"] = f0["refund"]
    BY <1>4, <1>12, <1>16, SMTT(60)
  <2>3. q2.bal["from"] + q2.bal["refund"] = b["from"] + b["refund"]
    BY <1>1, <1>3, <1>6, <1>7, <1>11, <1>12, <1>16, <2>2, SMTT(60)
  <2> QED
    BY <1>9, <1>11, <1>12, <1>16, <2>1, <2>3, SMTT(60)
<1> QED
  BY <1>8, <1>9, <1>13, <1>14, <1>15, <1>16, Zenon DEF Settled, gr, full

\* The fields of a submission are amounts, and the fee accounts hold what its gas costs.
LEMMA RetryableFields ==
  ASSUME NEW s \in TfRetryables
  PROVE  /\ s.version \in Nat /\ s.infra \in BOOLEAN /\ s.base \in Nat /\ s.minBase \in Nat /\ s.balance \in Nat /\ s.deposit \in Nat
         /\ s.maxSub \in Nat /\ s.fee \in Nat /\ s.value \in Nat /\ s.cap \in Nat /\ s.gas \in Nat
         /\ s.base * s.gas <= TfFeeFunds
BY TfAssumption

\* The fields of an ordinary transaction are amounts.
LEMMA OrdinaryFields ==
  ASSUME NEW s \in TfOrdinary
  PROVE  /\ s.version \in Nat /\ s.infra \in BOOLEAN /\ s.base \in Nat \ {0} /\ s.minBase \in Nat
         /\ s.gas \in Nat /\ s.posterCost \in Nat /\ s.limit \in Nat
BY TfAssumption

\* The accounts, by name.
LEMMA AccountsNamed ==
  /\ "from" \in TfAccounts /\ "refund" \in TfAccounts /\ "network" \in TfAccounts /\ "infra" \in TfAccounts
  /\ "escrow" \in TfAccounts /\ "to" \in TfAccounts /\ "pool" \in TfAccounts /\ "coinbase" \in TfAccounts
BY DEF TfAccounts

\* Every balance is an amount, and so is the sum.
LEMMA BalanceNat ==
  ASSUME NEW b \in [TfAccounts -> Nat]
  PROVE  /\ b["from"] \in Nat /\ b["refund"] \in Nat /\ b["network"] \in Nat /\ b["infra"] \in Nat /\ b["escrow"] \in Nat
         /\ b["to"] \in Nat /\ TfTotal(b) \in Nat /\ \A a \in TfAccounts : b[a] \in Nat /\ b[a] >= 0
BY DEF TfAccounts, TfTotal

\* The balances that the end hook of a redeem finds, as RedeemTx computes them.
AtEnd(b, value, cost, back, success, drains) ==
  LET b1 == MintBalance(TransferBalance(b, "escrow", "from", value), "from", cost)
      b2 == [b1 EXCEPT !["from"] = @ - cost]
      b3 == IF success THEN TransferBalance(b2, "from", "to", value) ELSE b2
      b4 == IF drains THEN TransferBalance(b3, "network", "to", b3["network"]) ELSE b3
  IN  MintBalance(b4, "from", back)

\* The callvalue is with the sender or spent, and the gas that is left has been given back.
Redeeming(b, c, value, back, success, drains) ==
  /\ c \in [TfAccounts -> Nat] /\ TfTotal(c) = TfTotal(b) + back /\ c["refund"] = b["refund"] /\ c["escrow"] = 0
  /\ c["infra"] = b["infra"] /\ (~drains => c["network"] = b["network"])
  /\ c["from"] = b["from"] + back + (IF success THEN 0 ELSE value)

\* What a redeem leaves on the accounts before the end hook (StartTxHook, geth and the EVM).
LEMMA BeforeEnd ==
  ASSUME NEW b \in [TfAccounts -> Nat], NEW value \in Nat, NEW cost \in Nat, NEW back \in Nat,
         NEW success \in BOOLEAN, NEW drains \in BOOLEAN, b["escrow"] = value, drains => success
  PROVE  Redeeming(b, AtEnd(b, value, cost, back, success, drains), value, back, success, drains)
<1> DEFINE b0 == TransferBalance(b, "escrow", "from", value)
           b1 == MintBalance(b0, "from", cost)
           b2 == [b1 EXCEPT !["from"] = @ - cost]
           b3 == IF success THEN TransferBalance(b2, "from", "to", value) ELSE b2
           b4 == IF drains THEN TransferBalance(b3, "network", "to", b3["network"]) ELSE b3
           c == MintBalance(b4, "from", back)
<1>a. /\ "from" \in TfAccounts /\ "refund" \in TfAccounts /\ "network" \in TfAccounts /\ "infra" \in TfAccounts
      /\ "escrow" \in TfAccounts /\ "to" \in TfAccounts
  BY AccountsNamed, Zenon
<1>0. Transferred(b, b0, "escrow", "from", value)
  BY <1>a, TransferFacts, Zenon
<1> HIDE DEF b0
<1>1. /\ b0 \in [TfAccounts -> Nat] /\ TfTotal(b0) = TfTotal(b) /\ b0["escrow"] = 0 /\ b0["from"] = b["from"] + value
      /\ b0["refund"] = b["refund"] /\ b0["infra"] = b["infra"] /\ b0["network"] = b["network"] /\ b0["to"] = b["to"]
  BY <1>0, <1>a DEF Transferred
<1>2. Minted(b0, b1, "from", cost)
  BY <1>a, <1>1, MintFacts, Zenon
<1> HIDE DEF b1
<1>3. b1 \in [TfAccounts -> Nat] /\ cost <= b1["from"]
  BY <1>1, <1>2, <1>a, SMTT(60) DEF Minted
<1>4. Burned(b1, b2, "from", cost)
  BY <1>a, <1>3, BurnFacts, Zenon
<1> HIDE DEF b2
<1>5. /\ b2 \in [TfAccounts -> Nat] /\ TfTotal(b2) = TfTotal(b) /\ b2["escrow"] = 0 /\ b2["from"] = b["from"] + value
      /\ b2["refund"] = b["refund"] /\ b2["infra"] = b["infra"] /\ b2["network"] = b["network"] /\ b2["to"] = b["to"]
  <2>1. TfTotal(b0) \in Nat /\ b0["from"] \in Nat
    BY <1>1, BalanceNat, SMTT(60)
  <2> QED
    BY <1>1, <1>2, <1>4, <1>a, <2>1, SMTT(60) DEF Minted, Burned
<1>6. /\ b3 \in [TfAccounts -> Nat] /\ TfTotal(b3) = TfTotal(b) /\ b3["escrow"] = 0
      /\ b3["from"] = b["from"] + (IF success THEN 0 ELSE value)
      /\ b3["refund"] = b["refund"] /\ b3["infra"] = b["infra"] /\ b3["network"] = b["network"]
  <2>1. CASE success
    <3>1. b3 = TransferBalance(b2, "from", "to", value)
      BY <2>1
    <3> HIDE DEF b3
    <3>2. Transferred(b2, b3, "from", "to", value)
      BY <1>a, <1>5, <3>1, TransferFacts, Zenon
    <3>3. b["from"] \in Nat
      BY <1>a
    <3> QED
      BY <1>a, <1>5, <2>1, <3>2, <3>3, SMTT(60) DEF Transferred
  <2>2. CASE ~success
    BY <1>5, <2>2, SMTT(60)
  <2> QED
    BY <2>1, <2>2, SMTT(60)
<1> HIDE DEF b3
<1>7. /\ b4 \in [TfAccounts -> Nat] /\ TfTotal(b4) = TfTotal(b) /\ b4["escrow"] = 0
      /\ b4["from"] = b["from"] + (IF success THEN 0 ELSE value)
      /\ b4["refund"] = b["refund"] /\ b4["infra"] = b["infra"] /\ (~drains => b4["network"] = b["network"])
  <2>1. CASE drains
    <3>1. b4 = TransferBalance(b3, "network", "to", b3["network"])
      BY <2>1
    <3> HIDE DEF b4
    <3>2. b3["network"] \in Nat
      BY <1>a, <1>6
    <3>3. Transferred(b3, b4, "network", "to", b3["network"])
      BY <1>a, <1>6, <3>1, <3>2, TransferFacts, Zenon
    <3> QED
      BY <1>a, <1>6, <2>1, <3>2, <3>3, SMTT(60) DEF Transferred
  <2>2. CASE ~drains
    BY <1>6, <2>2
  <2> QED
    BY <2>1, <2>2, SMTT(60)
<1> HIDE DEF b4
<1>8. Minted(b4, c, "from", back)
  BY <1>a, <1>7, MintFacts, Zenon
<1>9. /\ c \in [TfAccounts -> Nat] /\ TfTotal(c) = TfTotal(b) + back /\ c["refund"] = b["refund"] /\ c["escrow"] = 0
      /\ c["infra"] = b["infra"] /\ (~drains => c["network"] = b["network"])
      /\ c["from"] = b["from"] + back + (IF success THEN 0 ELSE value)
  <2> HIDE DEF c
  <2>1. b["from"] \in Nat
    BY <1>a
  <2> QED
    BY <1>a, <1>7, <1>8, <2>1 DEF Minted
<1> QED
  BY <1>9, Zenon DEF c, b4, b3, b2, b1, b0, AtEnd, Redeeming

\* The fields of the state, with their types.
LEMMA TfFields ==
  ASSUME TfTypeOK
  PROVE  /\ tf.bal \in [TfAccounts -> Nat] /\ tf.start \in Nat /\ tf.maxRefund \in Nat /\ tf.used \in Nat
         /\ tf.drained \in BOOLEAN /\ tf.success \in BOOLEAN /\ tf.early \in Int /\ tf.compute \in Nat
         /\ tf.kind \in {"retryable", "ordinary", "deposit"}
         /\ tf.step \in {"submit", "charge", "deposit", "done", "created", "redeem", "redeemed", "run", "rejected"}
         /\ tf.s \in TfRetryables \cup TfOrdinary
BY Zenon DEF TfTypeOK

\* The kind of transaction at each step.
LEMMA TfKinds ==
  ASSUME TfTypeOK
  PROVE  /\ tf.step \in {"submit", "redeem"} => tf.kind = "retryable" /\ tf.s \in TfRetryables
         /\ tf.step = "deposit" => tf.kind = "deposit" /\ tf.s \in TfRetryables
         /\ tf.step \in {"charge", "run"} => tf.kind = "ordinary" /\ tf.s \in TfOrdinary
<1>1. tf.kind \in {"retryable", "ordinary", "deposit"}
  BY TfFields, Zenon
<1> QED
  BY <1>1 DEF TfTypeOK

\* A redeem keeps the invariant, whether it succeeds, and whether it empties the network account
\* or changes the minimum base fee (StartTxHook and EndTxHook for a redeem).
LEMMA RedeemInv ==
  ASSUME TfInv, NEW left \in Nat, NEW success \in BOOLEAN, NEW drains \in BOOLEAN, NEW m \in TfMinBases,
         RedeemTx(left, success, drains, m)
  PROVE  TfInv'
<1> DEFINE s == [tf.s EXCEPT !.minBase = m]
           full == s.base * s.gas
           back == s.base * left
           b5 == AtEnd(tf.bal, s.value, full, back, success, drains)
           c == EndRetryTx(b5, s, left, success)
<1>1. /\ tf.step = "redeem" /\ left <= s.gas - TfTxGas /\ (drains => success)
      /\ tf' = [tf EXCEPT !.step = "redeemed", !.used = s.gas - left, !.drained = drains, !.success = success, !.bal = c]
  BY Zenon DEF RedeemTx, AtEnd
<1>2. TfTypeOK /\ tf.kind = "retryable" /\ tf.s \in TfRetryables
  BY <1>1, TfKinds DEF TfInv
<1>3. /\ tf.bal \in [TfAccounts -> Nat] /\ tf.start \in Nat /\ tf.maxRefund \in Nat /\ tf.early \in Int /\ tf.compute \in Nat
  BY <1>2, TfFields, Zenon
<1>4. /\ tf.s.base \in Nat /\ tf.s.deposit \in Nat /\ tf.s.fee \in Nat /\ tf.s.value \in Nat /\ tf.s.gas \in Nat
      /\ tf.s.base * tf.s.gas <= TfFeeFunds
  BY <1>2, RetryableFields, Zenon
<1>5. s.base = tf.s.base /\ s.gas = tf.s.gas /\ s.fee = tf.s.fee /\ s.value = tf.s.value /\ s.minBase = m
  <2>1. tf.s \in [version : Nat, infra : BOOLEAN, base : Nat, minBase : Nat, balance : Nat, deposit : Nat,
                  maxSub : Nat, fee : Nat, value : Nat, cap : Nat, gas : Nat]
    BY <1>2, TfAssumption
  <2> QED
    BY <2>1
<1>6. m \in Nat /\ TfFeeFunds \in Nat /\ TfTxGas \in Nat
  BY TfAssumption
<1> HIDE DEF s
<1>7. /\ tf.bal["refund"] + tf.maxRefund <= tf.s.deposit /\ tf.bal["escrow"] = s.value
      /\ tf.bal["from"] + tf.bal["refund"] + s.fee + s.value + s.base * s.gas = tf.start + tf.s.deposit
      /\ tf.bal["network"] >= TfFeeFunds + s.fee /\ tf.bal["infra"] >= TfFeeFunds
      /\ TfTotal(tf.bal) = tf.start + 2 * TfFeeFunds + tf.s.deposit
  <2>1. TfDeposit = tf.s.deposit
    BY <1>1, <1>2, SMTT(60) DEF TfDeposit
  <2> QED
    BY <1>1, <1>5, <2>1, Zenon DEF TfInv, MoneySound, MoneyConserved
<1>8. left <= s.gas /\ s.gas - left \in Nat
  BY <1>1, <1>4, <1>5, <1>6, SMTT(60)
<1> DEFINE spent == s.base * (s.gas - left)
<1>9. full \in Nat /\ back \in Nat /\ spent = full - back /\ full <= TfFeeFunds
  BY <1>4, <1>5, <1>8, SMTT(60)
<1>10. Redeeming(tf.bal, b5, s.value, back, success, drains)
  <2>1. drains => success
    BY <1>1, Zenon
  <2>2. tf.bal \in [TfAccounts -> Nat] /\ s.value \in Nat /\ full \in Nat /\ back \in Nat /\ tf.bal["escrow"] = s.value
    BY <1>3, <1>4, <1>5, <1>7, <1>9, Zenon
  <2> HIDE DEF full, back
  <2> QED
    BY <2>1, <2>2, BeforeEnd, SMTT(60)
<1>11. tf.bal["from"] \in Nat /\ tf.bal["refund"] \in Nat /\ tf.bal["network"] \in Nat /\ tf.bal["infra"] \in Nat /\ TfTotal(tf.bal) \in Nat
  BY <1>3, BalanceNat, Zenon
<1> HIDE DEF b5
<1>12. b5 \in [TfAccounts -> Nat] /\ s.base * left <= b5["from"]
  <2> HIDE DEF back
  <2>1. back <= b5["from"]
    BY <1>4, <1>5, <1>9, <1>10, <1>11, SMTT(60) DEF Redeeming
  <2> QED
    BY <1>10, <2>1, ZenonT(60) DEF Redeeming, back
<1>13. Settled(b5, c, s, left, success, tf.maxRefund)
  BY <1>3, <1>4, <1>5, <1>6, <1>8, <1>12, EndRetryFacts, Zenon
<1> HIDE DEF c
<1>14. /\ c \in [TfAccounts -> Nat] /\ TfTotal(c) + back = TfTotal(b5) /\ c["refund"] <= b5["refund"] + tf.maxRefund
       /\ success /\ b5["network"] >= full + s.fee /\ b5["infra"] >= full => c["from"] + c["refund"] = b5["from"] + b5["refund"] + s.fee
       /\ ~success /\ b5["network"] >= full /\ b5["infra"] >= full /\ b5["from"] >= back + s.value =>
            c["from"] + c["refund"] + s.value = b5["from"] + b5["refund"] /\ c["escrow"] = b5["escrow"] + s.value
  BY <1>13, Zenon DEF Settled
<1>15. c["from"] \in Nat /\ c["refund"] \in Nat /\ c["escrow"] \in Nat /\ TfTotal(c) \in Nat /\ \A a \in TfAccounts : c[a] >= 0
  BY <1>14, BalanceNat, ZenonT(60)
<1>17. tf.bal["from"] + tf.bal["refund"] + s.fee + s.value + full = tf.start + tf.s.deposit
  BY <1>7
<1>18. /\ TfTotal(b5) = TfTotal(tf.bal) + back /\ b5["refund"] = tf.bal["refund"] /\ b5["escrow"] = 0
       /\ b5["infra"] = tf.bal["infra"] /\ (~drains => b5["network"] = tf.bal["network"])
       /\ b5["from"] = tf.bal["from"] + back + (IF success THEN 0 ELSE s.value)
  BY <1>10, Zenon DEF Redeeming
<1> HIDE DEF full, back, spent
<1>16. TfTotal(c) = tf.start + 2 * TfFeeFunds + tf.s.deposit /\ c["refund"] <= tf.s.deposit
  <2>1. TfTotal(tf.bal) = tf.start + 2 * TfFeeFunds + tf.s.deposit /\ tf.bal["refund"] + tf.maxRefund <= tf.s.deposit
    BY <1>7, ZenonT(60)
  <2>2. TfTotal(c) = TfTotal(tf.bal)
    BY <1>9, <1>11, <1>14, <1>15, <1>18, SMTT(60)
  <2>3. c["refund"] <= tf.bal["refund"] + tf.maxRefund
    BY <1>14, <1>18, SMTT(60)
  <2>4. tf.bal["refund"] + tf.maxRefund \in Nat /\ tf.s.deposit \in Nat /\ c["refund"] \in Nat
    BY <1>3, <1>4, <1>11, <1>15, SMTT(60)
  <2> HIDE DEF s
  <2>5. c["refund"] <= tf.s.deposit
    BY <2>1, <2>3, <2>4, SMTT(60)
  <2> QED
    BY <2>1, <2>2, <2>5, Zenon
<1>19. /\ tf.start \in Nat /\ tf.s.deposit \in Nat /\ s.value \in Nat /\ s.fee \in Nat /\ full \in Nat /\ back \in Nat /\ spent = full - back
       /\ c["from"] \in Nat /\ c["refund"] \in Nat /\ b5["refund"] = tf.bal["refund"] /\ b5["escrow"] = 0
       /\ tf.bal["from"] \in Nat /\ tf.bal["refund"] \in Nat
  BY <1>3, <1>4, <1>5, <1>9, <1>11, <1>15, <1>18, ZenonT(60)
<1>20. ASSUME ~drains, success
       PROVE  c["from"] + c["refund"] = (tf.start + tf.s.deposit) - s.value - spent
  <2>1. b5["network"] >= full + s.fee /\ b5["infra"] >= full
    BY <1>4, <1>5, <1>6, <1>7, <1>9, <1>11, <1>18, <1>20, SMTT(60)
  <2>2. c["from"] + c["refund"] = b5["from"] + b5["refund"] + s.fee
    BY <1>14, <1>20, <2>1, SMTT(60)
  <2>3. b5["from"] = tf.bal["from"] + back
    BY <1>9, <1>11, <1>18, <1>20, SMTT(60)
  <2> DEFINE bf == tf.bal["from"]
             br == tf.bal["refund"]
             cf == c["from"]
             cr == c["refund"]
             st == tf.start
             dp == tf.s.deposit
             v == s.fee
             w == s.value
  <2>4. /\ bf \in Nat /\ br \in Nat /\ cf \in Nat /\ cr \in Nat /\ st \in Nat /\ dp \in Nat /\ v \in Nat /\ w \in Nat
        /\ full \in Nat /\ back \in Nat /\ spent = full - back
        /\ bf + br + v + w + full = st + dp /\ cf + cr = bf + back + br + v
    BY <1>17, <1>19, <2>2, <2>3, Zenon
  <2>5. cf + cr = (st + dp) - w - spent
    <3> HIDE DEF bf, br, cf, cr, st, dp, v, w
    <3> QED
      BY <2>4
  <2> QED
    BY <2>5, ZenonT(60)
<1>21. ASSUME ~drains, ~success
       PROVE  /\ c["from"] + c["refund"] = (tf.start + tf.s.deposit) - s.value - s.fee - spent
              /\ c["escrow"] = s.value
  <2>1. b5["network"] >= full /\ b5["infra"] >= full /\ b5["from"] >= back + s.value
    BY <1>4, <1>5, <1>6, <1>7, <1>9, <1>11, <1>18, <1>21, SMTT(60)
  <2>2. c["from"] + c["refund"] + s.value = b5["from"] + b5["refund"] /\ c["escrow"] = b5["escrow"] + s.value
    BY <1>14, <1>21, <2>1, SMTT(60)
  <2>3. b5["from"] = tf.bal["from"] + back + s.value
    BY <1>18, <1>21
  <2> DEFINE bf == tf.bal["from"]
             br == tf.bal["refund"]
             cf == c["from"]
             cr == c["refund"]
             st == tf.start
             dp == tf.s.deposit
             v == s.fee
             w == s.value
  <2>4. /\ bf \in Nat /\ br \in Nat /\ cf \in Nat /\ cr \in Nat /\ st \in Nat /\ dp \in Nat /\ v \in Nat /\ w \in Nat
        /\ full \in Nat /\ back \in Nat /\ spent = full - back
        /\ bf + br + v + w + full = st + dp /\ cf + cr + w = bf + back + w + br
    BY <1>17, <1>19, <2>2, <2>3, ZenonT(60)
  <2>5. cf + cr = (st + dp) - w - v - spent
    <3> HIDE DEF bf, br, cf, cr, st, dp, v, w
    <3> QED
      BY <2>4, SMTT(60)
  <2>6. c["escrow"] = s.value
    BY <1>19, <2>2, SMTT(60)
  <2> QED
    BY <2>5, <2>6, ZenonT(60)
<1>22. /\ tf'.kind = "retryable" /\ tf'.step = "redeemed" /\ tf'.s = tf.s /\ tf'.bal = c /\ tf'.start = tf.start
       /\ tf'.used = s.gas - left /\ (tf'.drained <=> drains) /\ (tf'.success <=> success)
  BY <1>1, <1>2, Zenon DEF TfTypeOK
<1>23. TfTypeOK'
  <2>1. tf' \in [kind : {"retryable", "ordinary", "deposit"},
             step : {"submit", "charge", "deposit", "done", "created", "redeem", "redeemed", "run", "rejected"},
             s : TfRetryables \cup TfOrdinary, bal : [TfAccounts -> Nat], start : Nat, maxRefund : Nat, used : Nat,
             drained : BOOLEAN, success : BOOLEAN, early : Int, compute : Nat]
    BY <1>1, <1>2, <1>8, <1>14, ZenonT(60) DEF TfTypeOK
  <2> QED
    BY <1>2, <1>22, <2>1, Zenon DEF TfTypeOK
<1>24. TfDeposit' = tf.s.deposit
  BY <1>22, Zenon DEF TfDeposit
<1>25. MoneyConserved' /\ DepositBound' /\ GasPoolCharged'
  BY <1>15, <1>16, <1>22, <1>24, Zenon DEF MoneyConserved, DepositBound, GasPoolCharged
<1>26. FeesExact'
  <2>1. tf'.s.base * tf'.used = spent /\ tf'.s.value = s.value /\ tf'.s.fee = s.fee
    BY <1>5, <1>22, Zenon DEF spent
  <2>2. CASE tf'.drained
    BY <2>2, Zenon DEF FeesExact
  <2>3. CASE ~tf'.drained /\ tf'.success
    <3>1. tf'.bal["from"] + tf'.bal["refund"] = (tf'.start + TfDeposit') - tf'.s.value - tf'.s.base * tf'.used
      BY <1>20, <1>22, <1>24, <2>1, <2>3, ZenonT(60)
    <3> QED
      BY <1>22, <2>3, <3>1, Zenon DEF FeesExact
  <2>4. CASE ~tf'.drained /\ ~tf'.success
    <3>1. tf'.bal["from"] + tf'.bal["refund"] = (tf'.start + TfDeposit') - tf'.s.value - tf'.s.fee - tf'.s.base * tf'.used /\ tf'.bal["escrow"] = tf'.s.value
      BY <1>21, <1>22, <1>24, <2>1, <2>4, Zenon
    <3> QED
      BY <1>22, <2>4, <3>1, Zenon DEF FeesExact
  <2> QED
    BY <2>2, <2>3, <2>4, Zenon
<1> QED
  BY <1>22, <1>23, <1>25, <1>26, Zenon DEF TfInv, MoneySound

\* The records of the state.
TfStates ==
  [kind : {"retryable", "ordinary", "deposit"},
   step : {"submit", "charge", "deposit", "done", "created", "redeem", "redeemed", "run", "rejected"},
   s : TfRetryables \cup TfOrdinary, bal : [TfAccounts -> Nat], start : Nat, maxRefund : Nat, used : Nat,
   drained : BOOLEAN, success : BOOLEAN, early : Int, compute : Nat]

\* A transaction starts with nothing moved.
LEMMA TfInitInv == TfInit => TfInv
<1> SUFFICES ASSUME TfInit PROVE TfInv
  OBVIOUS
<1>0. /\ tf.step \in {"submit", "charge", "deposit"} /\ tf.bal = TfBalances(tf.start) /\ tf.used = 0 /\ ~tf.drained /\ tf.start \in Nat
      /\ tf.step = "charge" => tf.kind = "ordinary" /\ tf.start = tf.s.gas * tf.s.base
      /\ TfTypeOK
  <2>1. ASSUME NEW s \in TfRetryables, NEW k \in {"retryable", "deposit"}, NEW p \in {"submit", "deposit"},
               (k = "retryable" /\ p = "submit") \/ (k = "deposit" /\ p = "deposit"),
               tf = [kind |-> k, step |-> p, s |-> s, bal |-> TfBalances(s.balance), start |-> s.balance,
                     maxRefund |-> 0, used |-> 0, drained |-> FALSE, success |-> FALSE, early |-> 0, compute |-> 0]
        PROVE  <1>0
    <3>1. s.balance \in Nat
      BY <2>1, RetryableFields, SMTT(60)
    <3>2. TfBalances(s.balance) \in [TfAccounts -> Nat] /\ 0 \in Nat /\ 0 \in Int
      BY <3>1, BalancesFacts
    <3>3. /\ tf.step = p /\ tf.bal = TfBalances(tf.start) /\ tf.used = 0 /\ ~tf.drained /\ tf.start = s.balance
          /\ tf.kind = k /\ tf.s = s
      BY <2>1, Zenon
    <3>4. TfTypeOK
      BY <2>1, <3>1, <3>2, Zenon DEF TfTypeOK
    <3> QED
      BY <2>1, <3>1, <3>3, <3>4, Zenon
  <2>2. ASSUME NEW s \in TfOrdinary,
               tf = [kind |-> "ordinary", step |-> "charge", s |-> s, bal |-> TfBalances(s.gas * s.base), start |-> s.gas * s.base,
                     maxRefund |-> 0, used |-> 0, drained |-> FALSE, success |-> FALSE, early |-> 0, compute |-> 0]
        PROVE  <1>0
    <3>1. s.gas * s.base \in Nat
      BY <2>2, OrdinaryFields
    <3>2. TfBalances(s.gas * s.base) \in [TfAccounts -> Nat] /\ 0 \in Nat /\ 0 \in Int
      BY <3>1, BalancesFacts
    <3>3. /\ tf.step = "charge" /\ tf.bal = TfBalances(tf.start) /\ tf.used = 0 /\ ~tf.drained /\ tf.start = s.gas * s.base
          /\ tf.kind = "ordinary" /\ tf.s = s
      BY <2>2, Zenon
    <3>4. TfTypeOK
      BY <2>2, <3>1, <3>2, Zenon DEF TfTypeOK
    <3> QED
      BY <2>2, <3>1, <3>3, <3>4, ZenonT(60)
  <2> QED
    BY <2>1, <2>2, ZenonT(60) DEF TfInit
<1>1. tf.bal["refund"] = 0
  BY <1>0, BalancesFacts
<1>2. TfDeposit = 0
  BY <1>0, Zenon DEF TfDeposit
<1>3. ~TfEnded /\ tf.step # "redeem" /\ tf.step # "run" /\ tf.step # "done"
  BY <1>0 DEF TfEnded
<1>4. DepositBound
  BY <1>1, <1>2 DEF DepositBound
<1>5. MoneySound
  BY <1>3, <1>4, Zenon DEF MoneySound, MoneyConserved, FeesExact, GasPoolCharged
<1> QED
  BY <1>0, <1>3, <1>5, Zenon DEF TfInv

\* A deposit reaches its receiver (StartTxHook).
LEMMA DepositInv == TfInv /\ DepositTx => TfInv'
<1> SUFFICES ASSUME TfInv, DepositTx PROVE TfInv'
  OBVIOUS
<1> DEFINE b1 == MintBalance(tf.bal, "from", tf.s.deposit)
           c == TransferBalance(b1, "from", "to", tf.s.deposit)
<1>1. tf.step = "deposit" /\ tf' = [tf EXCEPT !.step = "done", !.bal = c]
  BY Zenon DEF DepositTx
<1>2. TfTypeOK /\ tf.kind = "deposit" /\ tf.s \in TfRetryables /\ tf.bal = TfBalances(tf.start) /\ tf.used = 0 /\ ~tf.drained
  BY <1>1, TfKinds DEF TfInv
<1>3. tf.s.deposit \in Nat /\ tf.start \in Nat /\ tf.bal \in [TfAccounts -> Nat] /\ TfFeeFunds \in Nat
  BY <1>2, RetryableFields, TfFields, TfAssumption, Zenon
<1>4. TfTotal(tf.bal) = tf.start + 2 * TfFeeFunds /\ tf.bal["from"] = tf.start /\ tf.bal["refund"] = 0 /\ tf.bal["to"] = 0
  BY <1>2, <1>3, BalancesFacts, SMTT(60)
<1>5. "from" \in TfAccounts /\ "to" \in TfAccounts /\ "refund" \in TfAccounts
  BY AccountsNamed
<1>6. Minted(tf.bal, b1, "from", tf.s.deposit)
  BY <1>3, <1>5, MintFacts, Zenon
<1> HIDE DEF b1
<1>7. b1 \in [TfAccounts -> Nat]
  BY <1>6, Zenon DEF Minted
<1>8. Transferred(b1, c, "from", "to", tf.s.deposit)
  BY <1>3, <1>5, <1>7, TransferFacts, ZenonT(60)
<1> HIDE DEF c
<1>9. /\ c \in [TfAccounts -> Nat] /\ TfTotal(c) = tf.start + 2 * TfFeeFunds + tf.s.deposit
      /\ c["refund"] = 0 /\ c["from"] = tf.start /\ c["to"] = tf.s.deposit
  BY <1>3, <1>4, <1>5, <1>6, <1>8, SMTT(60) DEF Minted, Transferred
<1>10. tf'.step = "done" /\ tf'.kind = "deposit" /\ tf'.bal = c /\ tf'.s = tf.s /\ tf'.start = tf.start
  BY <1>1, <1>2, Zenon DEF TfTypeOK
<1>11. tf' \in TfStates
  BY <1>1, <1>2, <1>9, Zenon DEF TfTypeOK, TfStates
<1>12. TfTypeOK'
  BY <1>2, <1>10, <1>11, Zenon DEF TfTypeOK, TfStates
<1>13. TfDeposit' = tf.s.deposit
  BY <1>10, Zenon DEF TfDeposit
<1>14. (\A a \in TfAccounts : c[a] >= 0) /\ c["refund"] <= tf.s.deposit /\ c["from"] + c["refund"] = tf.start
  BY <1>3, <1>9, BalanceNat
<1>15. MoneySound'
  BY <1>9, <1>10, <1>13, <1>14, Zenon DEF MoneySound, MoneyConserved, DepositBound, FeesExact, GasPoolCharged
<1> QED
  BY <1>10, <1>12, <1>15, Zenon DEF TfInv

\* The gas charging hook refuses a transaction, or lets it run with its gas paid for (GasChargingHook).
LEMMA GasChargingInv == TfInv /\ GasChargingTx => TfInv'
<1> SUFFICES ASSUME TfInv, GasChargingTx PROVE TfInv'
  OBVIOUS
<1> DEFINE cost == tf.s.gas * tf.s.base
           c == [tf.bal EXCEPT !["from"] = @ - cost]
<1>1. /\ tf.step = "charge"
      /\ \/ tf' = [tf EXCEPT !.step = "rejected"]
         \/ tf' = [tf EXCEPT !.step = "run", !.bal = c] /\ ~(tf.s.gas < TfTxGas + PosterGas(tf.s))
  BY Zenon DEF GasChargingTx
<1>2. /\ TfTypeOK /\ tf.kind = "ordinary" /\ tf.s \in TfOrdinary /\ tf.bal = TfBalances(tf.start) /\ tf.used = 0 /\ ~tf.drained
      /\ tf.start = cost
  BY <1>1, TfKinds, SMTT(60) DEF TfInv
<1>3. /\ tf.start \in Nat /\ tf.bal \in [TfAccounts -> Nat] /\ TfFeeFunds \in Nat /\ TfTxGas \in Nat
      /\ tf.s.gas \in Nat /\ tf.s.base \in Nat \ {0} /\ tf.s.posterCost \in Nat
  BY <1>2, OrdinaryFields, TfFields, TfAssumption, SMTT(60)
<1>4. TfTotal(tf.bal) = tf.start + 2 * TfFeeFunds /\ tf.bal["from"] = tf.start /\ tf.bal["refund"] = 0
  BY <1>2, <1>3, BalancesFacts, SMTT(60)
<1>5. PosterGas(tf.s) \in Nat
  BY <1>3 DEF PosterGas
<1>6. CASE tf' = [tf EXCEPT !.step = "rejected"]
  <2>1. tf'.step = "rejected" /\ tf'.kind = "ordinary" /\ tf'.bal = tf.bal /\ tf'.s = tf.s /\ tf'.start = tf.start /\ tf'.used = 0
    BY <1>2, <1>6, Zenon DEF TfTypeOK
  <2>2. tf' \in TfStates
    BY <1>2, <1>6, Zenon DEF TfTypeOK, TfStates
  <2>3. TfTypeOK'
    BY <1>2, <2>1, <2>2, Zenon DEF TfTypeOK, TfStates
  <2>4. TfDeposit' = 0
    BY <2>1, Zenon DEF TfDeposit
  <2>5. tf.s.base * 0 = 0
    BY <1>3, SMTT(60)
  <2>6. /\ TfTotal(tf.bal) = tf.start + 2 * TfFeeFunds + 0 /\ (\A a \in TfAccounts : tf.bal[a] >= 0) /\ tf.bal["refund"] <= 0
        /\ tf.bal["from"] + tf.bal["refund"] = (tf.start + 0) - 0
    BY <1>3, <1>4, BalanceNat
  <2>7. MoneySound'
    BY <2>1, <2>4, <2>5, <2>6, Zenon DEF MoneySound, MoneyConserved, DepositBound, FeesExact, GasPoolCharged
  <2> QED
    BY <2>1, <2>3, <2>7, Zenon DEF TfInv
<1>7. CASE tf' = [tf EXCEPT !.step = "run", !.bal = c] /\ ~(tf.s.gas < TfTxGas + PosterGas(tf.s))
  <2>1. c \in [TfAccounts -> Nat] /\ c = [TfBalances(tf.start) EXCEPT !["from"] = 0] /\ c["refund"] = 0
    <3> HIDE DEF cost
    <3>1. tf.bal["from"] - cost = 0
      BY <1>2, <1>3, <1>4
    <3>2. "from" \in TfAccounts /\ "refund" \in TfAccounts
      BY AccountsNamed
    <3> QED
      BY <1>2, <1>3, <1>4, <3>1, <3>2, Zenon
  <2> HIDE DEF c
  <2>2. tf'.step = "run" /\ tf'.kind = "ordinary" /\ tf'.bal = c /\ tf'.s = tf.s /\ tf'.start = tf.start
    BY <1>2, <1>7, Zenon DEF TfTypeOK
  <2>3. tf' \in TfStates
    BY <1>2, <1>7, <2>1, ZenonT(60) DEF TfTypeOK, TfStates
  <2>4. TfTypeOK'
    BY <1>2, <2>2, <2>3, Zenon DEF TfTypeOK, TfStates
  <2>5. TfDeposit' = 0 /\ ~TfEnded'
    BY <2>2, Zenon DEF TfDeposit, TfEnded
  <2>6. c["refund"] <= 0
    BY <2>1
  <2>7. MoneySound'
    BY <2>2, <2>5, <2>6, Zenon DEF MoneySound, MoneyConserved, DepositBound, FeesExact, GasPoolCharged
  <2>8. tf.s.gas >= TfTxGas + PosterGas(tf.s)
    BY <1>3, <1>5, <1>7, SMTT(60)
  <2>9. PosterGas(tf'.s) = PosterGas(tf.s)
    BY <2>2
  <2> QED
    BY <1>2, <2>1, <2>2, <2>4, <2>7, <2>8, <2>9, ZenonT(60) DEF TfInv
<1> QED
  BY <1>1, <1>6, <1>7, Zenon

\* What an ordinary transaction's gas costs is split between the accounts and all of it arrives
\* (EndTxHook): the infrastructure's part is taken out of the network's.
LEMMA CollectFacts ==
  ASSUME NEW s \in TfOrdinary, NEW b \in [TfAccounts -> Nat], NEW used \in Nat, used >= PosterGas(s)
  PROVE  LET c == CollectFees(b, s, used)
         IN  /\ c \in [TfAccounts -> Nat] /\ TfTotal(c) = TfTotal(b) + s.base * used
             /\ c["from"] = b["from"] /\ c["refund"] = b["refund"]
<1> DEFINE pg == PosterGas(s)
           fee == s.base * pg
           all == s.base * used
           inf == InfraFee(s, 5)
           infra == inf * (used - pg)
           acc == IF s.version < 2 THEN "coinbase" ELSE "pool"
           b1 == MintBalance(b, "infra", infra)
           b2 == MintBalance(b1, "network", all - fee - infra)
           c == MintBalance(b2, acc, fee)
<1>1. s.base \in Nat \ {0} /\ s.minBase \in Nat /\ s.posterCost \in Nat
  BY OrdinaryFields
<1>2. pg \in Nat /\ used - pg \in Nat
  BY <1>1 DEF PosterGas
<1>3. inf \in Nat /\ inf <= s.base
  BY <1>1, InfraFacts
<1> HIDE DEF pg, inf
<1>4. fee \in Nat /\ all \in Nat /\ infra \in Nat /\ all - fee \in Nat /\ infra <= all - fee
  <2>1. s.base * (used - pg) = s.base * used - s.base * pg
    BY <1>1, <1>2
  <2>2. inf * (used - pg) \in Nat /\ s.base * (used - pg) \in Nat /\ inf * (used - pg) <= s.base * (used - pg)
    BY <1>1, <1>2, <1>3, ProductOrder, SMTT(60)
  <2>3. s.base * used \in Nat /\ s.base * pg \in Nat
    BY <1>1, <1>2, SMTT(60)
  <2> QED
    BY <2>1, <2>2, <2>3, SMTT(60)
<1> HIDE DEF fee, all, infra
<1>5. Max({0, used - pg}) = used - pg /\ Max({0, (all - fee) - infra}) = (all - fee) - infra
  <2>1. used - pg \in Int /\ (all - fee) - infra \in Int /\ used - pg >= 0 /\ (all - fee) - infra >= 0
    BY <1>2, <1>4
  <2> QED
    BY <2>1, MaxZero
<1>6. CollectFees(b, s, used) = MintBalance(MintBalance(b1, "network", (all - fee) - infra), acc, fee)
  <2>1. ~(all < fee)
    BY <1>4
  <2> QED
    BY <1>5, <2>1, Zenon DEF CollectFees, pg, fee, all, inf, infra
<1>7. (all - fee) - infra \in Nat
  BY <1>4
<1>8. "infra" \in TfAccounts /\ "network" \in TfAccounts /\ acc \in TfAccounts /\ acc \notin {"from", "refund"} /\ "from" \in TfAccounts /\ "refund" \in TfAccounts
  BY AccountsNamed
<1> HIDE DEF acc
<1>9. Minted(b, b1, "infra", infra)
  BY <1>4, <1>8, MintFacts, Zenon
<1> HIDE DEF b1
<1> DEFINE b3 == MintBalance(b1, "network", (all - fee) - infra)
<1>10. b1 \in [TfAccounts -> Nat]
  BY <1>9, Zenon DEF Minted
<1>11. Minted(b1, b3, "network", (all - fee) - infra)
  BY <1>7, <1>8, <1>10, MintFacts, Zenon
<1> HIDE DEF b3
<1> DEFINE d == MintBalance(b3, acc, fee)
<1>12. b3 \in [TfAccounts -> Nat]
  BY <1>11, Zenon DEF Minted
<1>13. Minted(b3, d, acc, fee)
  BY <1>4, <1>8, <1>12, MintFacts, Zenon
<1>14. CollectFees(b, s, used) = d
  BY <1>6, Zenon DEF b3
<1> HIDE DEF d
<1>15. TfTotal(b) \in Nat
  BY BalanceNat, SMTT(60)
<1>16. d \in [TfAccounts -> Nat] /\ d["from"] = b["from"] /\ d["refund"] = b["refund"]
  BY <1>8, <1>9, <1>11, <1>13, SMTT(60) DEF Minted
<1>17. TfTotal(d) = TfTotal(b) + all
  BY <1>4, <1>7, <1>9, <1>11, <1>13, <1>15, SMTT(60) DEF Minted
<1> QED
  BY <1>14, <1>16, <1>17, Zenon DEF all

\* An ordinary transaction pays for the gas it used, and the gas pool is charged with what it
\* computed (GasChargingHook, EndTxHook).
LEMMA ExecuteInv ==
  ASSUME TfInv, NEW ran \in Nat, NEW freed \in Nat, ExecuteTx(ran, freed)
  PROVE  TfInv'
<1> DEFINE s == tf.s
           pg == PosterGas(s)
           hold == ComputeHold(s)
           used == TfTxGas + pg + ran - freed
           comp == IF used > pg THEN used - pg ELSE used
           b == MintBalance(tf.bal, "from", s.base * (s.gas - used))
           c == CollectFees(b, s, used)
<1>1. /\ tf.step = "run" /\ ran <= s.gas - TfTxGas - pg - hold /\ freed <= (TfTxGas + ran) \div 5
      /\ tf' = [tf EXCEPT !.step = "done", !.used = used, !.success = TRUE, !.compute = comp, !.bal = c]
  BY Zenon DEF ExecuteTx
<1>2. /\ TfTypeOK /\ tf.kind = "ordinary" /\ s \in TfOrdinary /\ tf.start = s.gas * s.base
      /\ tf.bal = [TfBalances(tf.start) EXCEPT !["from"] = 0] /\ s.gas >= TfTxGas + pg
  BY <1>1, TfKinds, SMTT(60) DEF TfInv
<1>3. /\ tf.start \in Nat /\ tf.bal \in [TfAccounts -> Nat] /\ TfFeeFunds \in Nat /\ TfTxGas \in Nat \ {0}
      /\ s.gas \in Nat /\ s.base \in Nat \ {0} /\ s.posterCost \in Nat /\ s.limit \in Nat
  BY <1>2, OrdinaryFields, TfFields, TfAssumption, SMTT(60)
<1> HIDE DEF s
<1>4. pg \in Nat
  BY <1>3 DEF PosterGas
<1>5. hold \in Nat /\ hold >= s.gas - TfTxGas - pg - s.limit
  <2> DEFINE n == s.gas - TfTxGas - PosterGas(s) - s.limit
  <2>1. n \in Int
    BY <1>3, <1>4, SMTT(60)
  <2>2. hold = IF n > 0 THEN n ELSE 0
    <3> HIDE DEF n
    <3> QED
      BY <2>1, MaxZero, SMTT(60) DEF ComputeHold, n
  <2> QED
    BY <2>1, <2>2
<1> HIDE DEF pg, hold
<1>6. /\ used \in Nat /\ used > pg /\ used <= s.gas /\ used - pg <= s.limit + TfTxGas
      /\ used - pg >= TfTxGas - TfTxGas \div 5 /\ s.gas - used \in Nat
  <2>1. ran <= s.gas - TfTxGas - pg /\ ran <= s.limit
    BY <1>1, <1>3, <1>4, <1>5
  <2>2. freed < TfTxGas + ran /\ TfTxGas + ran - freed >= TfTxGas - TfTxGas \div 5
    <3> DEFINE n == TfTxGas + ran
               q == n \div 5
               q0 == TfTxGas \div 5
    <3>1. q \in Nat /\ q0 \in Nat /\ 5 * q <= n /\ TfTxGas <= 5 * q0 + 4 /\ n \in Nat /\ freed <= q
      BY <1>1, <1>3
    <3> HIDE DEF q, q0
    <3>2. freed < n /\ n - freed >= TfTxGas - q0
      <4>1. TfTxGas \in Nat \ {0} /\ n = TfTxGas + ran
        BY <1>3, SMTT(60)
      <4> HIDE DEF n
      <4> QED
        BY <3>1, <4>1, SMTT(60)
    <3>3. TfTxGas + ran - freed >= TfTxGas - q0
      BY <1>3, <3>1, <3>2, SMTT(60)
    <3> QED
      BY <3>2, <3>3, Zenon DEF q0
  <2> QED
    BY <1>3, <1>4, <2>1, <2>2
<1> HIDE DEF used
<1>7. comp = used - pg /\ comp \in Nat
  BY <1>4, <1>6, SMTT(60)
<1> HIDE DEF comp
<1> DEFINE back == s.base * (s.gas - used)
           cost == s.base * used
<1>8. back \in Nat /\ cost \in Nat /\ tf.start = back + cost
  <2>1. s.gas * s.base = s.base * s.gas /\ s.base * (s.gas - used) = s.base * s.gas - s.base * used
    BY <1>3, <1>6, SMTT(60)
  <2>2. s.base * (s.gas - used) \in Nat /\ s.base * used \in Nat /\ s.base * s.gas \in Nat
    BY <1>3, <1>6, SMTT(60)
  <2> QED
    BY <1>2, <2>1, <2>2, SMTT(60)
<1> HIDE DEF back, cost
<1>9. tf.bal["from"] = 0 /\ tf.bal["refund"] = 0 /\ TfTotal(tf.bal) = 2 * TfFeeFunds
  <2> DEFINE b0 == TfBalances(tf.start)
  <2>1. b0 \in [TfAccounts -> Nat] /\ TfTotal(b0) = tf.start + 2 * TfFeeFunds /\ b0["from"] = tf.start /\ b0["refund"] = 0
    BY <1>3, BalancesFacts, SMTT(60)
  <2> HIDE DEF b0
  <2>2. tf.bal = [b0 EXCEPT !["from"] = 0]
    BY <1>2 DEF b0
  <2>3. tf.bal = [b0 EXCEPT !["from"] = @ - tf.start]
    <3>1. b0["from"] - tf.start = 0
      BY <1>3, <2>1, SMTT(60)
    <3> QED
      BY <2>2, <3>1, Zenon
  <2>4. "from" \in TfAccounts /\ "refund" \in TfAccounts /\ tf.start <= b0["from"]
    BY <1>3, <2>1, AccountsNamed
  <2>5. Burned(b0, tf.bal, "from", tf.start)
    <3>1. Burned(b0, [b0 EXCEPT !["from"] = @ - tf.start], "from", tf.start)
      BY <1>3, <2>1, <2>4, BurnFacts, Zenon
    <3> QED
      BY <2>3, <3>1, Zenon
  <2> QED
    BY <1>3, <2>1, <2>4, <2>5, SMTT(60) DEF Burned
<1>10. "from" \in TfAccounts /\ "refund" \in TfAccounts
  BY AccountsNamed
<1>11. Minted(tf.bal, b, "from", back)
  BY <1>3, <1>8, <1>10, MintFacts, ZenonT(60) DEF back
<1> HIDE DEF b
<1>12. b \in [TfAccounts -> Nat] /\ b["from"] = back /\ b["refund"] = 0 /\ TfTotal(b) = 2 * TfFeeFunds + back
  BY <1>3, <1>8, <1>9, <1>10, <1>11, SMTT(60) DEF Minted
<1>13. c \in [TfAccounts -> Nat] /\ TfTotal(c) = TfTotal(b) + cost /\ c["from"] = b["from"] /\ c["refund"] = b["refund"]
  <2>1. used >= PosterGas(s)
    BY <1>4, <1>6, SMTT(60) DEF pg
  <2> QED
    BY <1>2, <1>6, <1>12, <2>1, CollectFacts, SMTT(60) DEF cost, s
<1> HIDE DEF c
<1>14. /\ TfTotal(c) = tf.start + 2 * TfFeeFunds + 0 /\ c["refund"] <= 0 /\ c["from"] + c["refund"] = (tf.start + 0) - cost
       /\ \A a \in TfAccounts : c[a] >= 0
  BY <1>3, <1>8, <1>12, <1>13, BalanceNat
<1>15. /\ tf'.step = "done" /\ tf'.kind = "ordinary" /\ tf'.bal = c /\ tf'.s = s /\ tf'.start = tf.start
       /\ tf'.used = used /\ tf'.compute = comp
  BY <1>1, <1>2, Zenon DEF TfTypeOK, s
<1>16. tf' \in TfStates
  BY <1>1, <1>2, <1>6, <1>7, <1>13, Zenon DEF TfTypeOK, TfStates
<1>17. TfTypeOK'
  BY <1>2, <1>15, <1>16, Zenon DEF TfTypeOK, TfStates
<1>18. TfDeposit' = 0
  BY <1>15, Zenon DEF TfDeposit
<1>19. MoneyConserved' /\ DepositBound'
  BY <1>14, <1>15, <1>18, Zenon DEF MoneyConserved, DepositBound
<1>20. FeesExact'
  BY <1>14, <1>15, <1>18, Zenon DEF FeesExact, cost
<1>21. GasPoolCharged'
  <2>1. comp <= s.limit + TfTxGas /\ comp >= TfTxGas - TfTxGas \div 5
    BY <1>6, <1>7
  <2> QED
    BY <1>15, <2>1, Zenon DEF GasPoolCharged
<1> QED
  BY <1>15, <1>17, <1>19, <1>20, <1>21, ZenonT(60) DEF TfInv, MoneySound

\* A submission that ends here, with balances that add up, keeps the invariant.
LEMMA SubmitEnds ==
  ASSUME TfInv, tf.step = "submit", NEW c \in [TfAccounts -> Nat], NEW p \in {"done", "created"},
         tf' = [tf EXCEPT !.step = p, !.bal = c],
         TfTotal(c) = tf.start + 2 * TfFeeFunds + tf.s.deposit, c["refund"] <= tf.s.deposit,
         p = "done" => c["from"] + c["refund"] = tf.start + tf.s.deposit,
         p = "created" => c["from"] + c["refund"] = (tf.start + tf.s.deposit) - tf.s.fee - tf.s.value /\ c["escrow"] = tf.s.value
  PROVE  TfInv'
<1>1. TfTypeOK /\ tf.kind = "retryable" /\ tf.s \in TfRetryables
  BY TfKinds DEF TfInv
<1>2. tf'.step = p /\ tf'.kind = "retryable" /\ tf'.bal = c /\ tf'.s = tf.s /\ tf'.start = tf.start
  BY <1>1, Zenon DEF TfTypeOK
<1>3. tf' \in TfStates
  BY <1>1, Zenon DEF TfTypeOK, TfStates
<1>4. TfTypeOK'
  BY <1>1, <1>2, <1>3, Zenon DEF TfTypeOK, TfStates
<1>5. TfDeposit' = tf.s.deposit
  BY <1>2, Zenon DEF TfDeposit
<1>6. \A a \in TfAccounts : c[a] >= 0
  BY BalanceNat
<1>7. MoneyConserved' /\ DepositBound' /\ GasPoolCharged'
  BY <1>2, <1>5, <1>6, Zenon DEF MoneyConserved, DepositBound, GasPoolCharged
<1>8. FeesExact'
  BY <1>2, <1>5, Zenon DEF FeesExact
<1> QED
  BY <1>2, <1>4, <1>7, <1>8, ZenonT(60) DEF TfInv, MoneySound

\* The gas of a redeem is paid for in advance, to the infrastructure and to the network.
LEMMA PayFacts ==
  ASSUME NEW s \in TfRetryables, NEW b \in [TfAccounts -> Nat], b["from"] >= s.base * s.gas
  PROVE  LET c == PayForGas(b, s)
         IN  /\ c \in [TfAccounts -> Nat] /\ TfTotal(c) = TfTotal(b) /\ c["from"] = b["from"] - s.base * s.gas
             /\ c["refund"] = b["refund"] /\ c["escrow"] = b["escrow"] /\ c["network"] >= b["network"] /\ c["infra"] >= b["infra"]
<1> DEFINE full == s.base * s.gas
           infra == InfraFee(s, 11) * s.gas
           b1 == TransferBalance(b, "from", "infra", infra)
           c == TransferBalance(b1, "from", "network", full - infra)
<1>1. s.base \in Nat /\ s.minBase \in Nat /\ s.gas \in Nat
  BY RetryableFields
<1>2. full \in Nat /\ infra \in Nat /\ infra <= full /\ full - infra \in Nat
  <2>1. InfraFee(s, 11) \in Nat /\ InfraFee(s, 11) <= s.base
    BY <1>1, InfraFacts, SMTT(60)
  <2>2. infra \in Nat /\ full \in Nat /\ infra <= full
    BY <1>1, <2>1, ProductOrder, SMTT(60)
  <2> HIDE DEF full, infra
  <2> QED
    BY <2>2
<1>3. b["from"] >= full
  OBVIOUS
<1>4. PayForGas(b, s) = c
  BY Zenon DEF PayForGas
<1> HIDE DEF full, infra
<1>5. /\ "from" \in TfAccounts /\ "refund" \in TfAccounts /\ "network" \in TfAccounts /\ "infra" \in TfAccounts /\ "escrow" \in TfAccounts
  BY AccountsNamed, Zenon
<1>6. Transferred(b, b1, "from", "infra", infra)
  BY <1>2, <1>5, TransferFacts, Zenon
<1> HIDE DEF b1
<1>7. b1 \in [TfAccounts -> Nat]
  BY <1>6, Zenon DEF Transferred
<1>8. Transferred(b1, c, "from", "network", full - infra)
  BY <1>2, <1>5, <1>7, TransferFacts, ZenonT(60)
<1> HIDE DEF c
<1>9. /\ b["from"] \in Nat /\ b["network"] \in Nat /\ b["infra"] \in Nat
  BY <1>5, SMTT(60)
<1>10. /\ b1["from"] = b["from"] - infra /\ b1["infra"] = b["infra"] + infra /\ b1["network"] = b["network"]
       /\ b1["refund"] = b["refund"] /\ b1["escrow"] = b["escrow"] /\ TfTotal(b1) = TfTotal(b)
  BY <1>2, <1>3, <1>5, <1>6, <1>9, SMTT(60) DEF Transferred
<1>11. b1["from"] >= full - infra
  BY <1>2, <1>3, <1>9, <1>10, SMTT(60)
<1>12. /\ c["from"] = b1["from"] - (full - infra) /\ c["network"] = b1["network"] + (full - infra) /\ c["infra"] = b1["infra"]
       /\ c["refund"] = b1["refund"] /\ c["escrow"] = b1["escrow"] /\ TfTotal(c) = TfTotal(b1) /\ c \in [TfAccounts -> Nat]
  BY <1>5, <1>8, <1>11, SMTT(60) DEF Transferred
<1>13. c["from"] = b["from"] - full /\ c["network"] >= b["network"] /\ c["infra"] >= b["infra"]
  BY <1>2, <1>9, <1>10, <1>12, SMTT(60)
<1> QED
  BY <1>4, <1>10, <1>12, <1>13, Zenon DEF full

\* A submission keeps the invariant, however it ends (StartTxHook for a retryable): what is
\* refunded comes out of the deposit, and a redeem that is to come is paid for.
LEMMA SubmitInv == TfInv /\ SubmitRetryableTx => TfInv'
<1> SUFFICES ASSUME TfInv, SubmitRetryableTx PROVE TfInv'
  OBVIOUS
<1> DEFINE s == tf.s
           b1 == MintBalance(tf.bal, "from", s.deposit)
           avail0 == s.deposit - TakeFunds(s.deposit, s.value)
           withheldFee == TakeFunds(avail0, s.fee)
           avail1 == avail0 - withheldFee
           feeRefund == FeeRefund(avail1, s)
           avail2 == avail1 - TakeFunds(avail1, feeRefund)
           b12 == TransferBalance(b1, "from", "network", s.fee)
           b2 == TransferBalance(b12, "from", "refund", feeRefund)
           b3 == TransferBalance(b2, "from", "escrow", s.value)
           costRefund == TakeFunds(avail2, s.cap * s.gas)
           withheldGas == TakeFunds(avail2, WithheldCost(s))
           priceRefund == TakeFunds(avail2 - withheldGas, (s.cap - s.base) * s.gas)
           early == priceRefund - TakeFunds(avail2 - TakeFunds(avail2, s.base * s.gas), (s.cap - s.base) * s.gas)
           maxRefund == avail2 - priceRefund + withheldFee
           back == TransferBalance(TransferBalance(b2, "network", "from", s.fee), "from", "refund", withheldFee)
           made == TransferBalance(b3, "from", "refund", costRefund)
           paid == TransferBalance(PayForGas(b3, s), "from", "refund", priceRefund)
           short == b1["from"] < s.maxSub \/ s.maxSub < s.fee
           noRedeem == b3["from"] < s.cap * s.gas \/ s.gas < TfTxGas \/ s.cap < s.base
<1>1. /\ tf.step = "submit"
      /\ \/ short /\ tf' = [tf EXCEPT !.step = "done", !.bal = b1]
         \/ ~short /\ b2["from"] < s.value /\ tf' = [tf EXCEPT !.step = "done", !.bal = back]
         \/ ~short /\ ~(b2["from"] < s.value) /\ noRedeem /\ tf' = [tf EXCEPT !.step = "created", !.bal = made]
         \/ /\ ~short /\ ~(b2["from"] < s.value) /\ ~noRedeem
            /\ tf' = [tf EXCEPT !.step = "redeem", !.maxRefund = maxRefund, !.early = early, !.bal = paid]
  BY ZenonT(30) DEF SubmitRetryableTx
<1>2. /\ TfTypeOK /\ tf.kind = "retryable" /\ s \in TfRetryables /\ tf.bal = TfBalances(tf.start)
  <2>1. tf.step = "submit"
    BY <1>1, Zenon
  <2>2. TfTypeOK /\ tf.bal = TfBalances(tf.start)
    BY <2>1, ZenonT(60) DEF TfInv
  <2>3. tf.kind = "retryable" /\ tf.s \in TfRetryables
    BY <2>1, <2>2, TfKinds, ZenonT(60)
  <2> QED
    BY <2>2, <2>3, Zenon
<1>3. /\ tf.start \in Nat /\ tf.bal \in [TfAccounts -> Nat] /\ TfFeeFunds \in Nat /\ TfTxGas \in Nat
  BY <1>2, TfFields, TfAssumption, SMTT(60)
<1>4. /\ s.base \in Nat /\ s.minBase \in Nat /\ s.deposit \in Nat /\ s.maxSub \in Nat /\ s.fee \in Nat /\ s.value \in Nat
      /\ s.cap \in Nat /\ s.gas \in Nat
  BY <1>2, RetryableFields, Zenon
<1> HIDE DEF s
<1>5. /\ "from" \in TfAccounts /\ "refund" \in TfAccounts /\ "network" \in TfAccounts /\ "infra" \in TfAccounts /\ "escrow" \in TfAccounts
  BY AccountsNamed, Zenon
<1>6. /\ b1 \in [TfAccounts -> Nat] /\ b1["from"] = tf.start + s.deposit /\ TfTotal(b1) = tf.start + 2 * TfFeeFunds + s.deposit
      /\ b1["refund"] = 0 /\ b1["network"] = TfFeeFunds /\ b1["infra"] = TfFeeFunds /\ b1["escrow"] = 0
  <2>1. Minted(tf.bal, b1, "from", s.deposit)
    BY <1>3, <1>4, <1>5, MintFacts, Zenon
  <2>2. /\ TfTotal(tf.bal) = tf.start + 2 * TfFeeFunds /\ tf.bal["from"] = tf.start /\ tf.bal["refund"] = 0 /\ tf.bal["escrow"] = 0
        /\ tf.bal["network"] = TfFeeFunds /\ tf.bal["infra"] = TfFeeFunds
    <3> DEFINE b0 == TfBalances(tf.start)
    <3>1. /\ TfTotal(b0) = tf.start + 2 * TfFeeFunds /\ b0["from"] = tf.start /\ b0["refund"] = 0 /\ b0["escrow"] = 0
          /\ b0["network"] = TfFeeFunds /\ b0["infra"] = TfFeeFunds
      BY <1>3, BalancesFacts, SMTT(60)
    <3>2. tf.bal = b0
      BY <1>2
    <3> HIDE DEF b0
    <3> QED
      BY <3>1, <3>2, Zenon
  <2> HIDE DEF b1
  <2> QED
    BY <1>3, <1>4, <1>5, <2>1, <2>2, SMTT(60) DEF Minted
<1>7. CASE tf' = [tf EXCEPT !.step = "done", !.bal = b1]
  <2> HIDE DEF b1
  <2>1. b1["refund"] <= tf.s.deposit /\ b1["from"] + b1["refund"] = tf.start + tf.s.deposit /\ TfTotal(b1) = tf.start + 2 * TfFeeFunds + tf.s.deposit
    BY <1>3, <1>4, <1>6 DEF s
  <2> QED
    BY <1>1, <1>6, <1>7, <2>1, SubmitEnds, ZenonT(60)
<1>8. avail0 \in Nat /\ avail0 <= s.deposit /\ withheldFee \in Nat /\ avail1 \in Nat /\ withheldFee + avail1 = avail0
  <2>1. avail0 \in Nat /\ avail0 <= s.deposit
    <3>1. TakeFunds(s.deposit, s.value) \in Nat /\ TakeFunds(s.deposit, s.value) <= s.deposit
      BY <1>4, TakeFacts, Zenon
    <3> QED
      BY <1>4, <3>1
  <2> HIDE DEF avail0
  <2>2. withheldFee \in Nat /\ withheldFee <= avail0
    BY <1>4, <2>1, TakeFacts, Zenon
  <2> HIDE DEF withheldFee
  <2> QED
    BY <2>1, <2>2, SMTT(60)
<1> HIDE DEF avail0, withheldFee, avail1, b1
<1> SUFFICES ASSUME ~short PROVE TfInv'
  BY <1>1, <1>7, Zenon
<1>9. b1["from"] >= s.maxSub /\ s.maxSub >= s.fee /\ s.maxSub - s.fee \in Nat
  BY <1>3, <1>4, <1>6
<1>10. feeRefund \in Nat /\ feeRefund <= avail1 /\ feeRefund <= s.maxSub - s.fee
  BY <1>8, <1>9, TakeFacts, Zenon DEF FeeRefund
<1> HIDE DEF feeRefund
<1>11. avail2 \in Nat /\ avail2 + feeRefund = avail1
  BY <1>8, <1>10, SMTT(60) DEF TakeFunds
<1> HIDE DEF avail2
<1>12. /\ b2 \in [TfAccounts -> Nat] /\ TfTotal(b2) = TfTotal(b1) /\ b2["from"] = b1["from"] - s.fee - feeRefund
       /\ b2["refund"] = feeRefund /\ b2["network"] = TfFeeFunds + s.fee /\ b2["infra"] = TfFeeFunds /\ b2["escrow"] = 0
  <2>1. Transferred(b1, b12, "from", "network", s.fee)
    BY <1>4, <1>5, <1>6, TransferFacts, ZenonT(60)
  <2> HIDE DEF b12
  <2>2. /\ b12 \in [TfAccounts -> Nat] /\ b12["from"] = b1["from"] - s.fee /\ b12["network"] = b1["network"] + s.fee
        /\ b12["refund"] = b1["refund"] /\ b12["infra"] = b1["infra"] /\ b12["escrow"] = b1["escrow"] /\ TfTotal(b12) = TfTotal(b1)
    <3>1. b1["from"] >= s.fee
      BY <1>3, <1>4, <1>6, <1>9, SMTT(60)
    <3> QED
      BY <1>5, <2>1, <3>1, SMTT(60) DEF Transferred
  <2>3. Transferred(b12, b2, "from", "refund", feeRefund)
    BY <1>5, <1>10, <2>2, TransferFacts, ZenonT(60)
  <2> HIDE DEF b2
  <2>4. b12["from"] >= feeRefund
    BY <1>3, <1>4, <1>6, <1>9, <1>10, <2>2, SMTT(60)
  <2>5. /\ b2 \in [TfAccounts -> Nat] /\ b2["from"] = b12["from"] - feeRefund /\ b2["refund"] = b12["refund"] + feeRefund
        /\ b2["network"] = b12["network"] /\ b2["infra"] = b12["infra"] /\ b2["escrow"] = b12["escrow"] /\ TfTotal(b2) = TfTotal(b12)
    BY <1>5, <2>3, <2>4, SMTT(60) DEF Transferred
  <2> QED
    BY <1>6, <1>10, <2>2, <2>5, SMTT(60)
<1> HIDE DEF b2
<1>13. b2["from"] \in Nat
  BY <1>12, BalanceNat, Zenon
<1>14. CASE b2["from"] < s.value /\ tf' = [tf EXCEPT !.step = "done", !.bal = back]
  <2> DEFINE c1 == TransferBalance(b2, "network", "from", s.fee)
  <2>1. Transferred(b2, c1, "network", "from", s.fee)
    BY <1>4, <1>5, <1>12, TransferFacts, ZenonT(60)
  <2> HIDE DEF c1
  <2>2. c1 \in [TfAccounts -> Nat] /\ c1["from"] = b2["from"] + s.fee /\ c1["refund"] = feeRefund /\ TfTotal(c1) = TfTotal(b2)
    <3>1. b2["network"] >= s.fee
      BY <1>3, <1>4, <1>12
    <3> QED
      BY <1>5, <1>12, <2>1, <3>1, SMTT(60) DEF Transferred
  <2>3. Transferred(c1, back, "from", "refund", withheldFee)
    BY <1>5, <1>8, <2>2, TransferFacts, ZenonT(60) DEF c1
  <2> HIDE DEF back
  <2>4. /\ back \in [TfAccounts -> Nat] /\ TfTotal(back) = TfTotal(c1) /\ back["from"] \in Nat /\ back["refund"] \in Nat
        /\ back["from"] + back["refund"] = c1["from"] + c1["refund"] /\ back["refund"] <= feeRefund + withheldFee
    <3>1. c1["from"] \in Nat /\ c1["refund"] \in Nat
      BY <2>2, <1>5, SMTT(60)
    <3>2. back \in [TfAccounts -> Nat] /\ back["from"] \in Nat /\ back["refund"] \in Nat /\ TfTotal(back) = TfTotal(c1)
      BY <1>5, <2>3, SMTT(60) DEF Transferred
    <3>3. \/ back["from"] = c1["from"] - withheldFee /\ back["refund"] = c1["refund"] + withheldFee
          \/ back["from"] = c1["from"] /\ back["refund"] = c1["refund"]
      BY <1>8, <2>3, <3>1, SMTT(60) DEF Transferred
    <3> QED
      BY <1>8, <1>10, <2>2, <3>1, <3>2, <3>3, SMTT(60)
  <2>5. back["from"] + back["refund"] = tf.start + s.deposit
    BY <1>3, <1>4, <1>6, <1>10, <1>12, <2>2, <2>4, SMTT(60)
  <2>6. back["refund"] <= s.deposit
    BY <1>4, <1>8, <1>10, <2>4, SMTT(60)
  <2>7. TfTotal(back) = tf.start + 2 * TfFeeFunds + s.deposit
    BY <1>6, <1>12, <2>2, <2>4, Zenon
  <2> QED
    BY <1>1, <1>14, <2>4, <2>5, <2>6, <2>7, SubmitEnds, Zenon DEF s
<1> SUFFICES ASSUME ~(b2["from"] < s.value) PROVE TfInv'
  BY <1>1, <1>14, Zenon
<1>15. /\ b3 \in [TfAccounts -> Nat] /\ TfTotal(b3) = TfTotal(b1) /\ b3["from"] = b2["from"] - s.value /\ b3["escrow"] = s.value
       /\ b3["refund"] = feeRefund /\ b3["network"] = TfFeeFunds + s.fee /\ b3["infra"] = TfFeeFunds
  <2>1. Transferred(b2, b3, "from", "escrow", s.value)
    BY <1>4, <1>5, <1>12, TransferFacts, Zenon
  <2> HIDE DEF b3
  <2>2. b2["from"] >= s.value
    BY <1>4, <1>13, SMTT(60)
  <2>3. /\ b3 \in [TfAccounts -> Nat] /\ TfTotal(b3) = TfTotal(b2) /\ b3["from"] = b2["from"] - s.value /\ b3["escrow"] = b2["escrow"] + s.value
        /\ b3["refund"] = b2["refund"] /\ b3["network"] = b2["network"] /\ b3["infra"] = b2["infra"]
    BY <1>5, <2>1, <2>2, SMTT(60) DEF Transferred
  <2> QED
    BY <1>4, <1>12, <2>3
<1> HIDE DEF b3
<1>16. b3["from"] \in Nat /\ b3["from"] + feeRefund + s.fee + s.value = tf.start + s.deposit
  <2>1. b3["from"] \in Nat
    BY <1>15, BalanceNat, Zenon
  <2> QED
    BY <1>3, <1>4, <1>6, <1>10, <1>12, <1>13, <1>15, <2>1, SMTT(60)
<1>17. CASE tf' = [tf EXCEPT !.step = "created", !.bal = made]
  <2>1. costRefund \in Nat /\ costRefund <= avail2
    <3>1. s.cap * s.gas \in Nat
      BY <1>4
    <3> QED
      BY <1>11, <3>1, TakeFacts, SMTT(60)
  <2> HIDE DEF costRefund
  <2>2. Transferred(b3, made, "from", "refund", costRefund)
    BY <1>5, <1>15, <2>1, TransferFacts, ZenonT(60)
  <2> HIDE DEF made
  <2>3. made \in [TfAccounts -> Nat] /\ TfTotal(made) = TfTotal(b3) /\ made["escrow"] = s.value
    BY <1>5, <1>15, <2>2, SMTT(60) DEF Transferred
  <2>4. made["from"] \in Nat /\ made["refund"] \in Nat
    BY <1>5, <2>3, SMTT(60)
  <2>5. \/ made["from"] = b3["from"] - costRefund /\ made["refund"] = b3["refund"] + costRefund
        \/ made["from"] = b3["from"] /\ made["refund"] = b3["refund"]
    BY <1>16, <2>1, <2>2, SMTT(60) DEF Transferred
  <2>6. made["from"] + made["refund"] = b3["from"] + feeRefund /\ made["refund"] <= feeRefund + costRefund
    BY <1>10, <1>15, <1>16, <2>1, <2>4, <2>5, SMTT(60)
  <2>7. made["refund"] <= s.deposit
    BY <1>4, <1>8, <1>10, <1>11, <2>1, <2>4, <2>6, SMTT(60)
  <2>8. made["from"] + made["refund"] = (tf.start + s.deposit) - s.fee - s.value
    BY <1>3, <1>4, <1>10, <1>16, <2>4, <2>6, SMTT(60)
  <2>9. TfTotal(made) = tf.start + 2 * TfFeeFunds + s.deposit
    BY <1>6, <1>15, <2>3, Zenon
  <2> QED
    BY <1>1, <1>17, <2>3, <2>7, <2>8, <2>9, SubmitEnds, ZenonT(60) DEF s
<1>18. CASE ~noRedeem /\ tf' = [tf EXCEPT !.step = "redeem", !.maxRefund = maxRefund, !.early = early, !.bal = paid]
  <2> DEFINE full == s.base * s.gas
             price == (s.cap - s.base) * s.gas
  <2>1. full \in Nat /\ price \in Nat /\ b3["from"] >= full + price
    <3>1. s.cap >= s.base
      BY <1>4, <1>18, SMTT(60)
    <3>2. full \in Nat /\ s.cap * s.gas \in Nat /\ price = s.cap * s.gas - full /\ full <= s.cap * s.gas
      BY <1>4, <3>1, ProductOrder, SMTT(60)
    <3> DEFINE all == s.cap * s.gas
    <3>3. b3["from"] >= all
      BY <1>4, <1>16, <1>18, <3>2, SMTT(60)
    <3> HIDE DEF full, price, all
    <3> QED
      BY <1>16, <3>2, <3>3, SMTT(60) DEF all
  <2>2. withheldGas \in Nat /\ withheldGas <= avail2
    <3>1. InfraFee(s, 11) \in Nat /\ InfraFee(s, 11) <= s.base
      BY <1>4, InfraFacts, SMTT(60)
    <3>2. InfraFee(s, 11) * s.gas \in Nat /\ InfraFee(s, 11) * s.gas <= full
      BY <1>4, <3>1, ProductOrder, SMTT(60)
    <3>3. WithheldCost(s) \in Nat
      BY <2>1, <3>2, SMTT(60) DEF WithheldCost
    <3> QED
      BY <1>11, <3>3, TakeFacts, SMTT(60)
  <2> HIDE DEF withheldGas
  <2>3. priceRefund \in Nat /\ priceRefund <= avail2 /\ priceRefund <= price
    <3> HIDE DEF price
    <3>1. avail2 - withheldGas \in Nat
      BY <1>11, <2>2, SMTT(60)
    <3>2. priceRefund \in Nat /\ priceRefund <= avail2 - withheldGas /\ priceRefund <= price
      BY <2>1, <3>1, TakeFacts, SMTT(60) DEF price
    <3> HIDE DEF priceRefund
    <3> QED
      BY <1>11, <2>2, <3>2, SMTT(60)
  <2>4. early \in Int
    <3> DEFINE t == TakeFunds(avail2, full)
    <3>1. t \in Nat /\ t <= avail2
      BY <1>11, <2>1, TakeFacts, SMTT(60)
    <3> HIDE DEF t
    <3>2. avail2 - t \in Nat
      BY <1>11, <3>1, SMTT(60)
    <3>3. TakeFunds(avail2 - t, price) \in Nat
      BY <2>1, <3>2, TakeFacts, SMTT(60)
    <3> HIDE DEF priceRefund, price
    <3> QED
      BY <2>3, <3>3, SMTT(60) DEF t, price
  <2> HIDE DEF priceRefund, early
  <2>5. maxRefund \in Nat /\ feeRefund + priceRefund + maxRefund <= s.deposit
    BY <1>4, <1>8, <1>10, <1>11, <2>3, SMTT(60)
  <2> HIDE DEF maxRefund
  <2> DEFINE g == PayForGas(b3, s)
  <2>6. /\ g \in [TfAccounts -> Nat] /\ TfTotal(g) = TfTotal(b3) /\ g["from"] = b3["from"] - full
        /\ g["refund"] = b3["refund"] /\ g["escrow"] = b3["escrow"] /\ g["network"] >= b3["network"] /\ g["infra"] >= b3["infra"]
    <3>1. b3["from"] >= full
      <4> HIDE DEF full, price
      <4> QED
        BY <1>16, <2>1, SMTT(60)
    <3> QED
      BY <1>2, <1>15, <3>1, PayFacts, SMTT(60)
  <2> HIDE DEF g
  <2>7. Transferred(g, paid, "from", "refund", priceRefund)
    BY <1>5, <2>3, <2>6, TransferFacts, ZenonT(60) DEF g
  <2> HIDE DEF paid, full, price
  <2>8. g["from"] >= priceRefund
    BY <1>16, <2>1, <2>3, <2>6, SMTT(60)
  <2>9. /\ paid \in [TfAccounts -> Nat] /\ TfTotal(paid) = TfTotal(g) /\ paid["from"] = g["from"] - priceRefund
        /\ paid["refund"] = g["refund"] + priceRefund /\ paid["escrow"] = g["escrow"] /\ paid["network"] = g["network"]
        /\ paid["infra"] = g["infra"]
    BY <1>5, <2>7, <2>8, SMTT(60) DEF Transferred
  <2>10. /\ paid["from"] \in Nat /\ paid["refund"] \in Nat /\ paid["refund"] = feeRefund + priceRefund
         /\ paid["from"] + priceRefund + full = b3["from"] /\ paid["escrow"] = s.value
    <3>1. paid["from"] \in Nat /\ paid["refund"] \in Nat
      BY <1>5, <2>9, SMTT(60)
    <3> QED
      BY <1>10, <1>15, <1>16, <2>1, <2>3, <2>6, <2>9, <3>1, SMTT(60)
  <2>11. paid["network"] >= TfFeeFunds + s.fee /\ paid["infra"] >= TfFeeFunds
    BY <1>15, <2>6, <2>9, Zenon
  <2>12. TfTotal(paid) = tf.start + 2 * TfFeeFunds + s.deposit
    BY <1>6, <1>15, <2>6, <2>9, ZenonT(60)
  <2>13. paid["from"] + paid["refund"] + s.fee + s.value + full = tf.start + s.deposit
    BY <1>3, <1>4, <1>10, <1>16, <2>1, <2>3, <2>10, SMTT(60)
  <2>14. paid["refund"] + maxRefund <= s.deposit /\ paid["refund"] <= s.deposit
    BY <1>4, <1>10, <2>3, <2>5, <2>10, SMTT(60)
  <2>15. /\ tf'.step = "redeem" /\ tf'.kind = "retryable" /\ tf'.bal = paid /\ tf'.s = s /\ tf'.start = tf.start
         /\ tf'.maxRefund = maxRefund
    BY <1>2, <1>18, Zenon DEF TfTypeOK, s
  <2>16. tf' \in TfStates
    BY <1>2, <1>18, <2>4, <2>5, <2>9, ZenonT(60) DEF TfTypeOK, TfStates
  <2>17. TfTypeOK'
    BY <1>2, <2>15, <2>16, Zenon DEF TfTypeOK, TfStates
  <2>18. TfDeposit' = s.deposit /\ ~TfEnded'
    BY <2>15, Zenon DEF TfDeposit, TfEnded
  <2>19. \A a \in TfAccounts : paid[a] >= 0
    BY <2>9, BalanceNat
  <2>20. MoneySound'
    BY <2>12, <2>14, <2>15, <2>18, <2>19, Zenon DEF MoneySound, MoneyConserved, DepositBound, FeesExact, GasPoolCharged
  <2> QED
    BY <2>10, <2>11, <2>13, <2>14, <2>15, <2>17, <2>20, ZenonT(60) DEF TfInv, full
<1> QED
  BY <1>1, <1>17, <1>18, ZenonT(60)

\* No step of a transaction makes or loses money, and the sender pays for the gas that was used
\* and for nothing else, for every amount, price and gas limit (tx_processor.go).
THEOREM MoneyIsSound == TfSpec => []MoneySound
<1>1. TfInv /\ [TfNext]_tf => TfInv'
  <2> SUFFICES ASSUME TfInv, [TfNext]_tf PROVE TfInv'
    BY SMTT(60)
  <2>1. CASE UNCHANGED tf
    BY <2>1, ZenonT(60) DEF TfInv, TfTypeOK, MoneySound, MoneyConserved, DepositBound, FeesExact, GasPoolCharged, TfDeposit, TfEnded
  <2>2. ASSUME NEW left \in 0 .. TfMaxGas, NEW success \in BOOLEAN, NEW drains \in BOOLEAN, NEW m \in TfMinBases,
               RedeemTx(left, success, drains, m)
        PROVE  TfInv'
    <3>1. left \in Nat
      BY TfAssumption
    <3> QED
      BY <2>2, <3>1, RedeemInv
  <2>3. ASSUME NEW ran \in 0 .. TfMaxGas, NEW freed \in 0 .. TfMaxGas, ExecuteTx(ran, freed) PROVE TfInv'
    <3>1. ran \in Nat /\ freed \in Nat
      BY TfAssumption, SMTT(60)
    <3> QED
      BY <2>3, <3>1, ExecuteInv
  <2> QED
    BY <2>1, <2>2, <2>3, DepositInv, SubmitInv, GasChargingInv, Zenon DEF TfNext
<1>2. TfInv => MoneySound
  BY SMTT(60) DEF TfInv
<1> QED
  BY <1>1, <1>2, TfInitInv, PTL DEF TfSpec
-----------------------------------------------------------------------------
(* The validator's wallet.                                                 *)

\* The sum of what the builder holds, empty or not.
LEMMA BuilderTotal ==
  ASSUME NEW b \in VwBatches \cup {<<>>}
  PROVE  Total(b) \in Nat /\ b \in Seq(Nat) /\ (Len(b) = 1 => Total(b) = b[1] /\ b[1] \in Nat) /\ (b # <<>> => b[1] \in Nat)
<1>1. CASE b = <<>>
  BY <1>1, VwAssumption, SMTT(60)
<1>2. CASE b \in VwBatches /\ b # <<>>
  <2>1. b \in Seq(Nat) /\ b # <<>>
    BY <1>2, VwAssumption
  <2>2. b[1] \in Nat
    BY <2>1, SMTT(60)
  <2> QED
    BY <1>2, <2>1, <2>2, VwAssumption, SMTT(60)
<1> QED
  BY <1>1, <1>2, SMTT(60)

\* A wallet is not known yet when the staker starts.
LEMMA VwInitInv == VwInit => VwInv
<1> SUFFICES ASSUME VwInit PROVE VwInv
  BY SMTT(60)
<1>1. VwTypeOK
  BY VwAssumption, SMTT(60) DEF VwInit, VwTypeOK, VwIdle, VwChain, NoTx
<1> QED
  BY <1>1 DEF VwInit, VwInv, VwIdle, VwChain, NoTx, WalletSound, OneWallet, BatchPaidFor

\* VwInv without the types, as the steps use it.
VwFacts ==
  /\ vw.pc = "balance" \/ (vw.create /\ vw.pc \in {"nonce", "logs"}) \/ vw.pc \in {"create", "wait"} => vw.builder # <<>>
  /\ vw.pc \in {"create", "wait"} => vw.create
  /\ vl.pending.kind = "create" => vl.wallets = 0
  /\ vw.pc \in {"logs", "create"} => vw.nonce <= vl.nonce
  /\ vw.pc = "create" /\ vw.nonce = vl.nonce => vl.wallets = 0
  /\ vw.pc \in {"auth", "post"} /\ vw.kind = "contract" /\ ~vl.fell => vl.balance + vw.value >= Total(vw.builder)
  /\ vl.wallets <= 1
  /\ vl.pending.kind = "batch" /\ ~vl.pending.fell => vl.balance + vl.pending.value >= vl.pending.total

VwTxs == [kind : {"none", "create", "batch", "eoa"}, value : Nat, total : Nat, fell : BOOLEAN]
VwStates ==
  [kind : {"contract", "eoa"}, limit : BOOLEAN,
   pc : {"initialize", "ready", "nonce", "logs", "create", "wait", "execute", "balance", "auth", "post"},
   con : BOOLEAN, builder : VwBatches \cup {<<>>}, nonce : Nat, value : Nat, create : BOOLEAN]
VlStates == [nonce : Nat, wallets : Nat, balance : Nat, fell : BOOLEAN, pending : VwTxs]

\* The invariant is the type invariant and VwFacts.
LEMMA VwInvSplit == VwInv <=> VwTypeOK /\ VwFacts
BY SMTT(60) DEF VwInv, VwFacts, WalletSound, OneWallet, BatchPaidFor

\* The types of the fields, and of the builder's total.
LEMMA VwFields ==
  ASSUME VwTypeOK
  PROVE  /\ vw.kind \in {"contract", "eoa"} /\ vw.limit \in BOOLEAN /\ vw.con \in BOOLEAN /\ vw.builder \in VwBatches \cup {<<>>}
         /\ vw.nonce \in Nat /\ vw.value \in Nat /\ vw.create \in BOOLEAN
         /\ vl.nonce \in Nat /\ vl.wallets \in Nat /\ vl.balance \in Nat /\ vl.fell \in BOOLEAN
         /\ vl.pending \in [kind : {"none", "create", "batch", "eoa"}, value : Nat, total : Nat, fell : BOOLEAN]
         /\ vl.pending.kind \in {"none", "create", "batch", "eoa"} /\ vl.pending.value \in Nat /\ vl.pending.total \in Nat
         /\ vl.pending.fell \in BOOLEAN /\ vq.rounds \in Nat /\ vq.faults \in Nat
         /\ Total(vw.builder) \in Nat
BY BuilderTotal, SMTT(60) DEF VwTypeOK

\* No transaction is a transaction record.
LEMMA NoTxType == NoTx \in VwTxs /\ NoTx.kind = "none"
BY DEF NoTx, VwTxs

\* A failure uses up one of those that may happen.
LEMMA VwMayFailType == VwTypeOK /\ VwMayFail => vq' \in [rounds : Nat, faults : Nat]
<1>1. ASSUME VwTypeOK, VwMayFail PROVE vq' \in [rounds : Nat, faults : Nat]
  <2>1. vq.faults - 1 \in Nat
    BY <1>1, VwFields, SMTT(60) DEF VwMayFail
  <2> QED
    BY <1>1, <2>1, Zenon DEF VwMayFail, VwTypeOK
<1> QED
  BY <1>1

\* A call that returns with an error leaves everything but the place in the code.
LEMMA VwErrorFacts ==
  ASSUME VwTypeOK, VwFacts, vw' = VwError(vw) \/ vw' = [VwError(vw) EXCEPT !.con = TRUE], vl' = vl,
         vq' \in [rounds : Nat, faults : Nat]
  PROVE  VwTypeOK' /\ VwFacts'
<1>1. vw'.pc \in {"initialize", "ready"} /\ vw'.kind = vw.kind /\ vw'.builder = vw.builder /\ vw'.value = vw.value
  BY ZenonT(60) DEF VwTypeOK, VwError
<1>2. VwError(vw) \in VwStates
  BY Zenon DEF VwTypeOK, VwError, VwStates
<1>3. [VwError(vw) EXCEPT !.con = TRUE] \in VwStates
  BY <1>2, Zenon DEF VwStates
<1>4. VwTypeOK'
  BY <1>2, <1>3, ZenonT(60) DEF VwTypeOK, VwStates
<1> QED
  BY <1>1, <1>4 DEF VwFacts

\* A block takes up the account's transaction: its nonce is used up with it.
LEMMA VlMineInv == VwTypeOK /\ VwFacts /\ VlMine => VwTypeOK' /\ VwFacts'
<1> SUFFICES ASSUME VwTypeOK, VwFacts, VlMine PROVE VwTypeOK' /\ VwFacts'
  OBVIOUS
<1> DEFINE t == vl.pending
           paid == vl.balance + t.value - t.total
<1>1. /\ vl'.nonce = vl.nonce + 1 /\ vl'.pending = NoTx
      /\ vl'.wallets = IF t.kind = "create" THEN vl.wallets + 1 ELSE vl.wallets
      /\ vl'.balance = IF t.kind = "batch" /\ paid >= 0 THEN paid ELSE vl.balance
      /\ ~vl'.fell => ~vl.fell /\ ~(t.kind = "batch" /\ paid \in 0 .. vl.balance - 1)
      /\ vw' = vw /\ vq' = vq
  BY Zenon DEF VlMine, VwTypeOK
<1>0. /\ vl.nonce \in Nat /\ vl.wallets \in Nat /\ vl.balance \in Nat /\ t.value \in Nat /\ t.total \in Nat
      /\ vw.nonce \in Nat /\ vw.value \in Nat /\ Total(vw.builder) \in Nat
  BY VwFields, Zenon
<1>2. vl.nonce + 1 \in Nat /\ vl.wallets + 1 \in Nat /\ paid \in Int /\ (paid >= 0 => paid \in Nat)
  <2> HIDE DEF t
  <2> QED
    BY <1>0
<1>3. vl' \in VlStates
  <2> HIDE DEF paid
  <2> QED
    BY <1>2, NoTxType, VwFields, ZenonT(60) DEF VlMine, VwTypeOK, t, paid, VlStates, VwTxs
<1>4. VwTypeOK'
  BY <1>1, <1>3, ZenonT(60) DEF VwTypeOK, VlStates, VwTxs
<1>5. VwFacts'
  <2>1. t.kind = "create" => vl.wallets = 0
    BY DEF VwFacts
  <2>2. NoTx.kind = "none"
    BY NoTxType
  <2>3. vl'.pending.kind = "none" /\ vl'.nonce = vl.nonce + 1 /\ vw' = vw
    BY <1>1, <2>2, ZenonT(60)
  <2>4. vl'.wallets <= 1
    BY <1>0, <1>1, <2>1, SMTT(60) DEF VwFacts
  <2>5. vw.pc \in {"auth", "post"} /\ vw.kind = "contract" /\ ~vl'.fell => vl'.balance + vw.value >= Total(vw.builder)
    <3>1. ~vl'.fell => ~vl.fell /\ (vl'.balance = vl.balance \/ (vl'.balance = paid /\ paid >= 0 /\ paid \notin 0 .. vl.balance - 1))
      BY <1>1, Zenon
    <3>2. vw.pc \in {"auth", "post"} /\ vw.kind = "contract" /\ ~vl.fell => vl.balance + vw.value >= Total(vw.builder)
      BY Zenon DEF VwFacts
    <3> HIDE DEF paid
    <3> QED
      BY <1>0, <1>2, <3>1, <3>2, SMTT(60)
  <2>6. vw.pc \in {"logs", "create"} => vw.nonce <= vl.nonce
    BY Zenon DEF VwFacts
  <2>7. vw.pc \in {"logs", "create"} => vw.nonce <= vl.nonce + 1 /\ vw.nonce # vl.nonce + 1
    BY <1>0, <2>6
  <2> QED
    BY <2>3, <2>4, <2>5, <2>7, ZenonT(60) DEF VwFacts
<1> QED
  BY <1>4, <1>5

\* A transaction is lost, the owner uses the account, or the balance changes.
LEMMA VlOtherInv == VwTypeOK /\ VwFacts /\ VlOther => VwTypeOK' /\ VwFacts'
<1> SUFFICES ASSUME VwTypeOK, VwFacts, VlOther PROVE VwTypeOK' /\ VwFacts'
  OBVIOUS
<1>0. vw' = vw /\ vq' \in [rounds : Nat, faults : Nat]
  BY VwMayFailType DEF VlOther
<1>1. CASE vl' = [vl EXCEPT !.pending = NoTx] \/ vl' = [vl EXCEPT !.nonce = @ + 1, !.pending = NoTx]
  <2>1. /\ vl'.nonce \in {vl.nonce, vl.nonce + 1} /\ vl'.pending = NoTx /\ vl'.wallets = vl.wallets
        /\ vl'.balance = vl.balance /\ vl'.fell = vl.fell
    BY <1>1, ZenonT(60) DEF VwTypeOK
  <2>2. vl.nonce + 1 \in Nat
    BY VwFields, SMTT(60)
  <2>3. vl' \in VlStates
    BY <1>1, <2>2, NoTxType, ZenonT(60) DEF VwTypeOK, VlStates, VwTxs
  <2>4. VwTypeOK'
    BY <1>0, <2>3, ZenonT(60) DEF VwTypeOK, VlStates, VwTxs
  <2>5. vl'.pending.kind = "none"
    BY <2>1, NoTxType, Zenon
  <2>6. vw.pc \in {"logs", "create"} => vw.nonce <= vl.nonce
    BY Zenon DEF VwFacts
  <2>7. vw.nonce \in Nat /\ vl.nonce \in Nat
    BY VwFields, Zenon
  <2>8. /\ vw.pc \in {"logs", "create"} => vw.nonce <= vl'.nonce
        /\ vw.pc = "create" /\ vw.nonce = vl'.nonce => vw.nonce = vl.nonce
    BY <2>1, <2>6, <2>7
  <2> QED
    BY <1>0, <2>1, <2>4, <2>5, <2>8, Zenon DEF VwFacts
<1>2. ASSUME NEW b \in 0 .. 2,
             vl' = [vl EXCEPT !.balance = b, !.fell = @ \/ b < vl.balance, !.pending.fell = @ \/ b < vl.balance]
      PROVE  VwTypeOK' /\ VwFacts'
  <2>1. /\ vl'.nonce = vl.nonce /\ vl'.wallets = vl.wallets /\ vl'.balance = b
        /\ ~vl'.fell => ~vl.fell /\ ~(b < vl.balance)
        /\ vl'.pending.kind = vl.pending.kind /\ vl'.pending.value = vl.pending.value /\ vl'.pending.total = vl.pending.total
        /\ ~vl'.pending.fell => ~vl.pending.fell /\ ~(b < vl.balance)
    BY <1>2, Zenon DEF VwTypeOK
  <2>2. b \in Nat
    OBVIOUS
  <2>3. vl' \in VlStates
    BY <1>2, <2>2, ZenonT(60) DEF VwTypeOK, VlStates, VwTxs
  <2>4. VwTypeOK'
    BY <1>0, <2>3, ZenonT(60) DEF VwTypeOK, VlStates, VwTxs
  <2>5. vw.value \in Nat /\ vl.balance \in Nat /\ Total(vw.builder) \in Nat /\ vl.pending.value \in Nat /\ vl.pending.total \in Nat
    BY VwFields, Zenon
  <2>6. /\ ~(b < vl.balance) /\ vl.balance + vw.value >= Total(vw.builder) => b + vw.value >= Total(vw.builder)
        /\ ~(b < vl.balance) /\ vl.balance + vl.pending.value >= vl.pending.total => b + vl.pending.value >= vl.pending.total
    BY <2>2, <2>5, SMTT(60)
  <2> QED
    BY <1>0, <2>1, <2>4, <2>6, Zenon DEF VwFacts
<1> QED
  BY <1>1, <1>2, Zenon DEF VlOther

\* A restart forgets the wallet and what was read.
LEMMA VwRestartInv == VwTypeOK /\ VwFacts /\ VwRestart => VwTypeOK' /\ VwFacts'
<1> SUFFICES ASSUME VwTypeOK, VwFacts, VwRestart PROVE VwTypeOK' /\ VwFacts'
  BY SMTT(60)
<1>1. vw'.pc = "initialize" /\ vl' = vl /\ vq' \in [rounds : Nat, faults : Nat]
  BY VwMayFailType, SMTT(60) DEF VwRestart, VwIdle
<1>2. VwTypeOK'
  BY <1>1 DEF VwTypeOK, VwRestart, VwIdle
<1> QED
  BY <1>1, <1>2 DEF VwFacts

\* A move within the code changes the place and, when it begins to look for the wallet,
\* whether it may create one.
LEMMA VwMoves ==
  ASSUME VwTypeOK, VwFacts, UNCHANGED <<vl, vq>>,
         \/ vw' = [vw EXCEPT !.pc = "ready"]
         \/ vw' = [vw EXCEPT !.pc = "balance"] /\ vw.builder # <<>>
         \/ \E c \in BOOLEAN : vw' = [vw EXCEPT !.pc = "nonce", !.create = c] /\ (c => vw.builder # <<>>)
  PROVE  VwTypeOK' /\ VwFacts'
<1>1. /\ vw'.pc \in {"ready", "balance", "nonce"} /\ (vw'.pc = "balance" \/ (vw'.pc = "nonce" /\ vw'.create) => vw'.builder # <<>>)
      /\ vl' = vl
  BY ZenonT(60) DEF VwTypeOK
<1>2. [vw EXCEPT !.pc = "ready"] \in VwStates /\ [vw EXCEPT !.pc = "balance"] \in VwStates
  BY Zenon DEF VwTypeOK, VwStates
<1>3. ASSUME NEW c \in BOOLEAN PROVE [vw EXCEPT !.pc = "nonce", !.create = c] \in VwStates
  BY Zenon DEF VwTypeOK, VwStates
<1>4. vw' \in VwStates
  BY <1>2, <1>3, Zenon
<1>5. VwTypeOK'
  BY <1>4, Zenon DEF VwTypeOK, VwStates
<1> QED
  BY <1>1, <1>5, Zenon DEF VwFacts

\* The steps before the account's nonce is read.
LEMMA VwStartInv ==
  VwTypeOK /\ VwFacts /\ (Initialize \/ BuildTransactions \/ TimeoutChallenges \/ WalletExecutes) => VwTypeOK' /\ VwFacts'
<1>1. VwTypeOK /\ VwFacts /\ Initialize => VwTypeOK' /\ VwFacts'
  BY VwMoves, Zenon DEF Initialize, VwSet
<1>2. VwTypeOK /\ VwFacts /\ WalletExecutes => VwTypeOK' /\ VwFacts'
  BY VwMoves, Zenon DEF WalletExecutes, VwSet
<1>3. ASSUME VwTypeOK, VwFacts, BuildTransactions \/ TimeoutChallenges PROVE VwTypeOK' /\ VwFacts'
  <2>0. vq.rounds > 0 /\ vq.rounds \in Nat /\ vl' = vl
    BY <1>3, VwFields, Zenon DEF BuildTransactions, TimeoutChallenges
  <2>1. vq.rounds - 1 \in Nat /\ vl' = vl
    BY <2>0
  <2>2. 0 \in Nat
    OBVIOUS
  <2>3. VwTypeOK'
    <3>1. vq' \in [rounds : Nat, faults : Nat]
      BY <1>3, <2>1, ZenonT(60) DEF VwTypeOK, BuildTransactions, TimeoutChallenges
    <3>2. ASSUME NEW b \in VwBatches PROVE [vw EXCEPT !.builder = b, !.pc = "execute"] \in VwStates
      BY <1>3, Zenon DEF VwTypeOK, VwStates
    <3>3. [vw EXCEPT !.builder = <<>>, !.value = 0, !.pc = "auth"] \in VwStates
      BY <1>3, <2>2, Zenon DEF VwTypeOK, VwStates
    <3>4. vw' \in VwStates
      BY <1>3, <3>2, <3>3, Zenon DEF BuildTransactions, TimeoutChallenges
    <3> QED
      BY <1>3, <2>1, <3>1, <3>4, Zenon DEF VwTypeOK, VwStates
  <2>4. vw'.pc = "execute" \/ (vw'.pc = "auth" /\ vw'.builder = <<>> /\ vw'.value = 0)
    BY <1>3, ZenonT(60) DEF VwTypeOK, BuildTransactions, TimeoutChallenges
  <2>5. vl.balance + 0 >= Total(<<>>)
    BY <1>3, VwAssumption, VwFields
  <2> QED
    BY <1>3, <2>1, <2>3, <2>4, <2>5, Zenon DEF VwFacts
<1> QED
  BY <1>1, <1>2, <1>3

\* The nonce that is read is the account's.
LEMMA GetAuthInv == VwTypeOK /\ VwFacts /\ GetAuth => VwTypeOK' /\ VwFacts'
<1> SUFFICES ASSUME VwTypeOK, VwFacts, GetAuth PROVE VwTypeOK' /\ VwFacts'
  OBVIOUS
<1>1. CASE VwMayFail /\ VwFails
  BY <1>1, VwMayFailType, VwErrorFacts, Zenon DEF GetAuth, VwFails
<1>2. CASE vw' = [vw EXCEPT !.nonce = vl.nonce, !.pc = IF vw.pc = "nonce" THEN "logs" ELSE "post"] /\ UNCHANGED vq
  <2>1. /\ vw'.nonce = vl.nonce /\ vw'.create = vw.create /\ vw'.builder = vw.builder /\ vw'.kind = vw.kind
        /\ vw'.value = vw.value /\ vl' = vl
        /\ (vw.pc = "nonce" /\ vw'.pc = "logs") \/ (vw.pc = "auth" /\ vw'.pc = "post")
    BY <1>2, Zenon DEF GetAuth, VwTypeOK
  <2>2. VwTypeOK'
    BY <1>2, <2>1, ZenonT(60) DEF VwTypeOK
  <2>3. vl.nonce <= vl.nonce
    BY VwFields
  <2> QED
    BY <2>1, <2>2, <2>3, Zenon DEF VwFacts
<1> QED
  BY <1>1, <1>2, Zenon DEF GetAuth

\* The logs are found empty: no wallet was created up to the nonce that was read before.
LEMMA FilterLogsInv == VwTypeOK /\ VwFacts /\ FilterLogs => VwTypeOK' /\ VwFacts'
<1> SUFFICES ASSUME VwTypeOK, VwFacts, FilterLogs PROVE VwTypeOK' /\ VwFacts'
  OBVIOUS
<1>1. CASE VwMayFail /\ VwFails /\ UNCHANGED vl
  BY <1>1, VwMayFailType, VwErrorFacts, Zenon DEF VwFails
<1>2. CASE NotValidated /\ UNCHANGED vl
  BY <1>2, VwMayFailType, VwErrorFacts, Zenon DEF NotValidated
<1>3. CASE VwFails /\ UNCHANGED <<vl, vq>>
  BY <1>3, VwErrorFacts, Zenon DEF VwFails, VwTypeOK
<1>4. CASE /\ UNCHANGED <<vl, vq>>
           /\ \/ vl.wallets = 0 /\ vw' = [vw EXCEPT !.pc = IF vw.create THEN "create" ELSE "ready"]
              \/ vw' = [vw EXCEPT !.con = TRUE, !.pc = IF vw.create THEN "balance" ELSE "ready"]
  <2>0. vw.pc = "logs"
    BY DEF FilterLogs
  <2>1. /\ vw'.nonce = vw.nonce /\ vw'.create = vw.create /\ vw'.builder = vw.builder /\ vl' = vl
        /\ vw'.pc = "ready" \/ (vw.create /\ vw'.pc = "balance") \/ (vw.create /\ vw'.pc = "create" /\ vl.wallets = 0)
    BY <1>4, ZenonT(30) DEF VwTypeOK
  <2>2. VwTypeOK'
    <3> DEFINE T == [kind : {"contract", "eoa"}, limit : BOOLEAN,
                     pc : {"initialize", "ready", "nonce", "logs", "create", "wait", "execute", "balance", "auth", "post"},
                     con : BOOLEAN, builder : VwBatches \cup {<<>>}, nonce : Nat, value : Nat, create : BOOLEAN]
    <3>1. vw \in T
      BY Zenon DEF VwTypeOK
    <3>2. CASE vw' = [vw EXCEPT !.pc = IF vw.create THEN "create" ELSE "ready"]
      <4>1. vw' \in T
        BY <3>1, <3>2, ZenonT(30)
      <4> QED
        BY <1>4, <4>1, Zenon DEF VwTypeOK
    <3>3. CASE vw' = [vw EXCEPT !.con = TRUE, !.pc = IF vw.create THEN "balance" ELSE "ready"]
      <4>1. vw' \in T
        BY <3>1, <3>3, ZenonT(30)
      <4> QED
        BY <1>4, <4>1, Zenon DEF VwTypeOK
    <3> QED
      BY <1>4, <3>2, <3>3, Zenon
  <2> QED
    BY <2>0, <2>1, <2>2, Zenon DEF VwFacts
<1>5. \/ VwMayFail /\ VwFails /\ UNCHANGED vl
      \/ vl.wallets = 1 /\ NotValidated /\ UNCHANGED vl
      \/ /\ UNCHANGED <<vl, vq>>
         /\ CASE vl.wallets = 0 -> vw' = [vw EXCEPT !.pc = IF vw.create THEN "create" ELSE "ready"]
              [] vl.wallets = 1 -> vw' = [vw EXCEPT !.con = TRUE, !.pc = IF vw.create THEN "balance" ELSE "ready"]
              [] OTHER -> VwFails
  BY Zenon DEF FilterLogs
<1> QED
  BY <1>1, <1>2, <1>3, <1>4, <1>5, Zenon

\* A creation is sent only while there is no wallet.
LEMMA CreateWalletInv == VwTypeOK /\ VwFacts /\ CreateWallet => VwTypeOK' /\ VwFacts'
<1> SUFFICES ASSUME VwTypeOK, VwFacts, CreateWallet PROVE VwTypeOK' /\ VwFacts'
  OBVIOUS
<1>1. CASE VwFails /\ UNCHANGED vl
  BY <1>1, VwErrorFacts, ZenonT(60) DEF VwFails, VwTypeOK, CreateWallet
<1>2. CASE /\ Taken(CreateNonce) /\ vl' = [vl EXCEPT !.pending = [NoTx EXCEPT !.kind = "create"]]
           /\ vw' = [vw EXCEPT !.pc = "wait"]
  <2> DEFINE c == [NoTx EXCEPT !.kind = "create"]
  <2>0. c \in VwTxs /\ c.kind = "create" /\ vw.pc = "create" /\ vw.nonce = vl.nonce /\ vq' = vq
    BY <1>2, ZenonT(60) DEF CreateWallet, NoTx, VwTxs, Taken, CreateNonce
  <2> HIDE DEF c
  <2>1. /\ vw'.create = vw.create /\ vw'.builder = vw.builder /\ vw'.pc = "wait" /\ vl'.pending = c /\ vl'.wallets = vl.wallets
    BY <1>2, Zenon DEF VwTypeOK, c
  <2>2. VwTypeOK'
    BY <1>2, <2>0, Zenon DEF VwTypeOK, c, VwTxs
  <2> QED
    BY <2>0, <2>1, <2>2, VwFields, SMTT(60) DEF VwFacts
<1> QED
  BY <1>1, <1>2, Zenon DEF CreateWallet

\* The wait for the creation comes to an end.
LEMMA WaitCreatedInv == VwTypeOK /\ VwFacts /\ WaitCreated => VwTypeOK' /\ VwFacts'
<1> SUFFICES ASSUME VwTypeOK, VwFacts, WaitCreated PROVE VwTypeOK' /\ VwFacts'
  OBVIOUS
<1>1. CASE NotValidated \/ (VwMayFail /\ VwFails)
  BY <1>1, VwMayFailType, VwErrorFacts, Zenon DEF VwFails, NotValidated, WaitCreated
<1>2. CASE VwFails /\ UNCHANGED vq
  BY <1>2, VwErrorFacts, ZenonT(60) DEF VwFails, VwTypeOK, WaitCreated
<1>3. CASE vw' = [vw EXCEPT !.con = TRUE, !.pc = "balance"] /\ UNCHANGED vq
  <2>1. vw'.builder = vw.builder /\ vw'.pc = "balance" /\ vw.pc = "wait" /\ vl' = vl
    BY <1>3, Zenon DEF VwTypeOK, WaitCreated
  <2>2. VwTypeOK'
    BY <1>3, <2>1, ZenonT(60) DEF VwTypeOK
  <2> QED
    BY <2>1, <2>2, VwFields, SMTT(60) DEF VwFacts
<1> QED
  BY <1>1, <1>2, <1>3, Zenon DEF WaitCreated

\* The value makes up for what the balance lacks.
LEMMA ReadBalanceInv == VwTypeOK /\ VwFacts /\ ReadBalance => VwTypeOK' /\ VwFacts'
<1> SUFFICES ASSUME VwTypeOK, VwFacts, ReadBalance PROVE VwTypeOK' /\ VwFacts'
  OBVIOUS
<1>1. vw.builder # <<>> /\ vw.builder \in VwBatches \cup {<<>>} /\ vl.balance \in Nat
  BY VwFields, SMTT(60) DEF VwFacts, ReadBalance
<1>2. CallValue(vw.builder, vl.balance) \in Nat /\ vl.balance + CallValue(vw.builder, vl.balance) >= Total(vw.builder)
      /\ EoaValue(vw.builder) \in Nat
  BY <1>1, BuilderTotal, SMTT(60) DEF CallValue, EoaValue
<1>3. /\ vw'.pc = "auth" /\ vw'.kind = vw.kind /\ vw'.builder = vw.builder /\ vl'.balance = vl.balance /\ vl'.pending = vl.pending
      /\ vw.kind = "contract" => vw'.value = CallValue(vw.builder, vl.balance)
      /\ vl'.wallets = vl.wallets
  BY Zenon DEF VwTypeOK, ReadBalance
<1>4. VwTypeOK'
  BY <1>2, ZenonT(60) DEF VwTypeOK, ReadBalance
<1> QED
  BY <1>2, <1>3, <1>4, VwFields, SMTT(60) DEF VwFacts

\* What is posted is what the value was computed for.
LEMMA PostSimpleInv == VwTypeOK /\ VwFacts /\ PostSimpleTransaction => VwTypeOK' /\ VwFacts'
<1> SUFFICES ASSUME VwTypeOK, VwFacts, PostSimpleTransaction PROVE VwTypeOK' /\ VwFacts'
  OBVIOUS
<1> DEFINE eoa == vw.kind = "eoa"
           total == IF eoa THEN vw.value ELSE Total(vw.builder)
           t == [kind |-> IF eoa THEN "eoa" ELSE "batch", value |-> vw.value, total |-> total, fell |-> vl.fell]
<1>1. CASE VwMayFail /\ VwFails /\ UNCHANGED vl
  BY <1>1, VwMayFailType, VwErrorFacts, Zenon DEF VwFails
<1>2. CASE VwFails /\ UNCHANGED <<vl, vq>>
  BY <1>2, VwErrorFacts, ZenonT(30) DEF VwFails, VwTypeOK
<1>3. CASE vl' = [vl EXCEPT !.pending = t] /\ vw' = [vw EXCEPT !.pc = "ready", !.builder = Cleared] /\ UNCHANGED vq
  <2>1. t \in VwTxs /\ t.kind # "create" /\ vw.pc = "post"
        /\ (t.kind = "batch" => vw.kind = "contract" /\ t.value = vw.value /\ t.total = Total(vw.builder))
        /\ t.fell = vl.fell
    BY VwFields, SMTT(60) DEF VwTxs, PostSimpleTransaction
  <2> HIDE DEF t
  <2>2. /\ vw'.pc = "ready" /\ vl'.pending = t /\ vl'.wallets = vl.wallets /\ vl'.balance = vl.balance
    BY <1>3, Zenon DEF VwTypeOK
  <2>3. VwTypeOK'
    BY <1>3, <2>1, ZenonT(30) DEF VwTypeOK, VwTxs, Cleared
  <2> QED
    BY <2>1, <2>2, <2>3, VwFields, SMTT(60) DEF VwFacts
<1> QED
  BY <1>1, <1>2, <1>3, Zenon DEF PostSimpleTransaction

\* Every step of the wallet and of the parent chain keeps the invariant.
LEMMA VwStepInv == VwInv /\ [VwNext]_vwvars => VwInv'
<1> SUFFICES ASSUME VwTypeOK, VwFacts, [VwNext]_vwvars PROVE VwTypeOK' /\ VwFacts'
  BY VwInvSplit, SMTT(60) DEF VwInv, VwFacts, WalletSound, OneWallet, BatchPaidFor
<1>1. CASE UNCHANGED vwvars
  BY <1>1 DEF vwvars, VwTypeOK, VwFacts
<1> QED
  BY <1>1, VlMineInv, VlOtherInv, VwRestartInv, VwStartInv, GetAuthInv, FilterLogsInv, CreateWalletInv, WaitCreatedInv,
     ReadBalanceInv, PostSimpleInv, Zenon DEF VwNext, VwSteps

\* The account of a staker has one wallet and what the wallet sends is paid for, whatever the
\* batches, however many calls fail and however often the staker is restarted
\* (GetValidatorWalletContract, ExecuteTransactions).
THEOREM WalletIsSound == VwSpec => []WalletSound
<1>1. VwInv => WalletSound
  BY DEF VwInv
<1> QED
  BY <1>1, VwInitInv, VwStepInv, PTL DEF VwSpec

=============================================================================
