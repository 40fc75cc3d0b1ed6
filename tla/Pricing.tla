------------------------------- MODULE Pricing -------------------------------
(***************************************************************************)
(* The two prices of ArbOS.                                                *)
(*                                                                         *)
(* L1 (arbos/l1pricing): users pay for calldata into a pool; a report of a *)
(* batch pays the rewards and the batch poster from it, and moves the      *)
(* price per unit so that the pool neither runs dry nor piles up.  The     *)
(* four versions of the update are modelled, with the upgrades between.    *)
(*                                                                         *)
(* L2 (arbos/l2pricing): gas used above the speed limit is a backlog, and  *)
(* the base fee grows exponentially with the backlog.                      *)
(***************************************************************************)
EXTENDS Integers, Sequences, SequencesExt, FiniteSets, FiniteSetsExt, Folds

CONSTANTS Posters,       \* the batch posters
          EquilUnits, Inertia, PerUnitReward,   \* parameters of the L1 price
          LpScenarios,   \* where a behaviour starts: version, cap, price and how many fees and reports
          LpMaxTime,     \* bound on the time
          GpWidth,       \* bits of the signed gas numbers (64 in the code)
          GpBips,        \* one, in basis points (10000 in the code)
          SpeedLimit, Tolerance, PricingInertia, MinBaseFee,   \* parameters of the L2 price
          GpUses,        \* the gas a block uses
          GpTimes        \* the seconds between two blocks

VARIABLES lp,            \* L1PricingState with the pool's balance and history
          gp             \* L2PricingState

Lesser(a, b) == IF a < b THEN a ELSE b
-----------------------------------------------------------------------------
(* The L1 price.                                                           *)

\* The versions that differ, in order: 2 keeps the surplus, 3 has the cap, 7 keeps the
\* sign of the surplus, 10 counts the fees apart from the pool's balance.
NextVersion(v) == CASE v = 1 -> 2 [] v = 2 -> 6 [] v = 6 -> 7 [] v = 7 -> 10

SumDue(due) == FoldSet(LAMBDA p, n : n + due[p], 0, Posters)

LpInit ==
  \E s \in LpScenarios :
    lp = [version |-> s.version, cap |-> s.cap, price |-> s.price, feesLeft |-> s.fees, reportsLeft |-> s.reports,
          upgrades |-> s.upgrades, donations |-> s.donations,
          units |-> 0, fees |-> 0, pool |-> 0, due |-> [p \in Posters |-> 0], total |-> 0, rewards |-> 0,
          last |-> 0, now |-> 1, surplus |-> 0,
          in |-> 0, paid |-> 0,                             \* history: money into and out of the pool
          known |-> [sound |-> FALSE, surplus |-> 0],       \* history: the surplus at the last update, and whether its sign was kept
          report |-> [done |-> FALSE]]                      \* history: the last update

\* BatchPosterState.SetFundsDue keeps the total.
SetFundsDue(s, p, val) == [s EXCEPT !.due[p] = val, !.total = @ + val - s.due[p]]

\* What an update may pay out: the pool's balance, from version 10 the fees collected.
Available(s) == IF s.version >= 10 THEN s.fees ELSE s.pool

\* A variant that leaves the fees as they are.
TransferUncounted(s, amount) == [s EXCEPT !.pool = @ - amount, !.paid = @ + amount]
\* TransferFromL1FeesAvailable; before version 10 a plain transfer.
Transfer(s, amount) ==
  [s EXCEPT !.pool = @ - amount, !.paid = @ + amount, !.fees = IF s.version >= 10 THEN @ - amount ELSE @]

\* The rewards for the units of this update are paid as far as the funds go.
PayRewards(s, units, available) ==
  LET pay == Lesser(available, PerUnitReward * units)
  IN  Transfer([s EXCEPT !.rewards = @ + PerUnitReward * units - pay], pay)

\* The batch poster is paid as far as the funds go.
PayPoster(s, p, available) ==
  LET pay == Lesser(available, s.due[p])
  IN  IF pay > 0 THEN SetFundsDue(Transfer(s, pay), p, s.due[p] - pay) ELSE s

\* The amortized cost cap.
Capped(s, wei, basefee, units) ==
  IF s.version >= 3 /\ s.cap # 0 THEN Lesser(wei, (basefee * units * s.cap) \div 100) ELSE wei

\* SetLastSurplus: before version 7 the sign is lost.
StoredSurplus(s, surplus) == IF s.version < 7 /\ surplus < 0 THEN 0 - surplus ELSE surplus

\* desiredDerivative: a deficit asks for a higher price.
Desired(surplus) == (0 - surplus) \div EquilUnits

\* UpdateForBatchPosterSpending from version 2 on: the price follows the surplus and its
\* change since the last update.
AdjustPrice(s, units) ==
  LET surplus == Available(s) - (s.total + s.rewards)
      actual == (surplus - s.surplus) \div units
      change == ((Desired(surplus) - actual) * units) \div (EquilUnits \div Inertia + units)
  IN  IF units = 0 THEN s
      ELSE [s EXCEPT !.surplus = StoredSurplus(s, surplus), !.price = Max({0, s.price + change}),
                     !.known = [sound |-> s.version >= 7, surplus |-> surplus]]

\* Before version 2 the surplus before the update is the reference.
AdjustPriceOld(s, units, oldSurplus) ==
  LET surplus == s.pool - (s.total + s.rewards)
      change == (surplus * (EquilUnits - 1) - oldSurplus * EquilUnits) \div (EquilUnits * (EquilUnits \div Inertia + units))
  IN  IF units = 0 THEN s ELSE [s EXCEPT !.price = Max({0, s.price + change})]

\* The time of the last update; there is none before the first update.
LastTime(update) == IF lp.last = 0 /\ update > 0 THEN update - 1 ELSE lp.last
Fraction(update) == IF lp.now = LastTime(update) THEN <<1, 1>> ELSE <<update - LastTime(update), lp.now - LastTime(update)>>
Allocated(update) == (lp.units * Fraction(update)[1]) \div Fraction(update)[2]

\* The units of this update are taken off and the spending becomes due.
Prepared(p, wei, update) ==
  SetFundsDue([lp EXCEPT !.units = @ - Allocated(update)], p, lp.due[p] + wei)

Update(p, wei, basefee, update) ==
  LET units == Allocated(update)
      s1 == Prepared(p, Capped(lp, wei, basefee, units), update)
      s2 == PayRewards(s1, units, Available(s1))
      s3 == PayPoster(s2, p, Available(s2))
      s4 == AdjustPrice([s3 EXCEPT !.last = update], units)
  IN  [s4 EXCEPT !.report = [done |-> TRUE, poster |-> p, units |-> units, was |-> lp.price, known |-> lp.known]]

\* Before version 2 only the fraction of the funds is paid out, to all posters in turn.
UpdateOld(p, wei, update) ==
  LET units == Allocated(update)
      oldSurplus == lp.pool - (lp.total + lp.rewards)
      s1 == Prepared(p, wei, update)
      avail == (s1.pool * Fraction(update)[1]) \div Fraction(update)[2]
      s2 == PayRewards(s1, units, avail)
      left == avail - (s1.pool - s2.pool)
      s3 == FoldLeft(LAMBDA a, q : LET t == PayPoster(a.s, q, a.left) IN [s |-> t, left |-> a.left - (a.s.pool - t.pool)],
                     [s |-> s2, left |-> left], SetToSeq(Posters)).s
  IN  [AdjustPriceOld([s3 EXCEPT !.last = update], units, oldSurplus) EXCEPT !.report = [done |-> FALSE]]

\* InternalTxBatchPostingReport: a report with an invalid time changes nothing.
Report(p, wei, basefee, update) ==
  /\ lp.reportsLeft > 0
  /\ lp' = [(IF lp.version < 2
             THEN IF update >= lp.now \/ update < LastTime(update) \/ (lp.last = 0 /\ update = 0) THEN lp ELSE UpdateOld(p, wei, update)
             ELSE IF update > lp.now \/ update < LastTime(update) THEN lp ELSE Update(p, wei, basefee, update))
            EXCEPT !.reportsLeft = @ - 1]

\* EndTxHook: a transaction adds its units, and its poster fee goes to the pool; before version 2
\* to the coinbase.
CollectFee(units, fee) ==
  LET pooled == IF lp.version < 2 THEN 0 ELSE fee IN
  /\ lp.feesLeft > 0
  /\ lp' = [lp EXCEPT !.feesLeft = @ - 1, !.units = @ + units, !.pool = @ + pooled, !.in = @ + pooled,
                      !.fees = IF lp.version >= 10 THEN @ + fee ELSE @, !.report = [done |-> FALSE]]

\* Anyone may send money to the pool's address.
Donate(amount) ==
  /\ lp.donations > 0
  /\ lp' = [lp EXCEPT !.donations = @ - 1, !.pool = @ + amount, !.in = @ + amount, !.report = [done |-> FALSE]]

Tick == lp.now < LpMaxTime /\ lp' = [lp EXCEPT !.now = @ + 1, !.report = [done |-> FALSE]]

\* UpgradeArbosVersion: version 2 resets the surplus, 10 takes the balance for the fees.
UpgradeVersion ==
  /\ lp.version < 10 /\ lp.upgrades > 0
  /\ lp' = [lp EXCEPT !.version = NextVersion(@), !.upgrades = @ - 1, !.report = [done |-> FALSE],
                      !.surplus = IF lp.version < 2 THEN 0 ELSE @,
                      !.fees = IF NextVersion(lp.version) = 10 THEN lp.pool ELSE @]

LpNext ==
  \/ \E p \in Posters, wei \in {0, 3}, basefee \in {1}, update \in 0 .. lp.now + 1 : Report(p, wei, basefee, update)
  \/ \E units \in {0, 3}, fee \in {0, 5} : CollectFee(units, fee)
  \/ \E amount \in {1, 5} : Donate(amount)
  \/ Tick \/ UpgradeVersion
-----------------------------------------------------------------------------
(* The L2 price.  Gas numbers are signed, of GpWidth bits.                 *)

GpMax == 2 ^ (GpWidth - 1) - 1
\* A result that is too large is -1 and one that is too small 0: ^T(0) of a signed type is -1.
Saturated(n) == IF n > GpMax THEN 0 - 1 ELSE IF n < 0 - GpMax - 1 THEN 0 ELSE n
SaturatingSub(a, b) == Saturated(a - b)
SaturatingMul(a, b) == Saturated(a * b)
SaturatingUMul(a, b) == Lesser(a * b, 2 * GpMax + 1)
Int64(n) == ((n + GpMax + 1) % (2 * GpMax + 2)) - GpMax - 1     \* a conversion wraps around
Quo(a, b) == IF a < 0 THEN 0 - ((0 - a) \div b) ELSE a \div b  \* a division truncates

\* AddToGasPool pays off the backlog, never below zero.
AddToGasPool(backlog, gas) == Max({0, SaturatingSub(backlog, gas)})

\* ApproxExpBasisPoints with degree 4.
ApproxExp(value) ==
  LET x == IF value < 0 THEN 0 - value ELSE value
      res == FoldLeft(LAMBDA r, i : GpBips + SaturatingUMul(r, x) \div ((4 - i) * GpBips), GpBips + x \div 4, <<1, 2, 3>>)
  IN  Lesser(IF value < 0 THEN (GpBips * GpBips) \div res ELSE res, GpMax)

\* The base fee for a backlog.
BaseFee(backlog) ==
  LET excess == backlog - Tolerance * SpeedLimit
      exponent == Quo(SaturatingMul(excess, GpBips), PricingInertia * SpeedLimit)
  IN  IF excess > 0 THEN (MinBaseFee * ApproxExp(exponent)) \div GpBips ELSE MinBaseFee

\* UpdatePricingModel, at the start of a block.
UpdatePricingModel(s, timePassed) ==
  LET backlog == AddToGasPool(s.backlog, Int64(timePassed * SpeedLimit))
  IN  [s EXCEPT !.backlog = backlog, !.baseFee = BaseFee(backlog)]

GpInit == gp = [backlog |-> 0, baseFee |-> MinBaseFee, before |-> 0, calm |-> TRUE, parity |-> 0]

\* A block: the price is updated first, then the transactions use gas.
Block(timePassed, used) ==
  LET s == UpdatePricingModel(gp, timePassed)
  IN  gp' = [s EXCEPT !.before = s.backlog, !.backlog = AddToGasPool(s.backlog, 0 - used),
                      !.calm = used < timePassed * SpeedLimit, !.parity = 1 - @]

GpNext == \E t \in GpTimes, u \in GpUses : Block(t, u)
-----------------------------------------------------------------------------
\* The total of what is due is the sum over the posters, and nothing that is due, no price
\* and no count of units is ever negative (BatchPosterState.SetFundsDue,
\* UpdateForBatchPosterSpending in all its versions).
DebtsAddUp ==
  /\ lp.total = SumDue(lp.due)
  /\ \A p \in Posters : lp.due[p] >= 0
  /\ lp.rewards >= 0 /\ lp.price >= 0 /\ lp.units >= 0

\* What is paid out was paid in, and from version 10 on the fees counted as available are
\* in the pool (TransferFromL1FeesAvailable, AddToL1FeesAvailable).
FeesBacked ==
  /\ lp.in = lp.pool + lp.paid /\ lp.pool >= 0
  /\ lp.version >= 10 => 0 <= lp.fees /\ lp.fees <= lp.pool

\* A report pays the poster as far as the funds go: something stays due only if nothing is
\* left ("settle up payments owed to the batch poster, as much as possible").
SettledAsPossible == lp.report.done => lp.due[lp.report.poster] = 0 \/ Available(lp) = 0

\* When the pool is short and did not recover since the last update the price does not
\* fall; when it has a surplus that did not shrink the price does not rise
\* (UpdateForBatchPosterSpending from version 7 on, SetLastSurplus).
PriceReacts ==
  lp.report.done /\ lp.report.units > 0 /\ lp.report.known.sound =>
    LET surplus == lp.known.surplus
        before == lp.report.known.surplus
    IN  /\ surplus < 0 /\ surplus <= before => lp.price >= lp.report.was
        /\ surplus > 0 /\ surplus >= before => lp.price <= lp.report.was

\* The base fee is at least the minimum, and never lower for a larger backlog as long as the
\* backlog in basis points is a number; where it is not, SaturatingMul gives -1 and the fee is back
\* at the minimum (UpdatePricingModel, ApproxExpBasisPoints).
BaseFeeMonotone ==
  /\ gp.baseFee >= MinBaseFee
  /\ gp.before > 0 /\ (gp.before - Tolerance * SpeedLimit) * GpBips <= GpMax => BaseFee(gp.before - 1) <= gp.baseFee

\* What batch posters are owed adds up, is backed by fees and paid as far as they go, and the
\* two prices react to surplus and backlog in the right direction.
PricingSound == DebtsAddUp /\ FeesBacked /\ SettledAsPossible /\ PriceReacts /\ BaseFeeMonotone

\* Once every block uses less gas than the speed limit allows for its time, the base fee
\* returns to the minimum and stays there (AddToGasPool, UpdatePricingModel).
BaseFeeReturns == <>[]gp.calm => <>[](gp.baseFee = MinBaseFee)
=============================================================================
