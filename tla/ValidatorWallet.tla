-------------------------- MODULE ValidatorWallet --------------------------
(***************************************************************************)
(* validatorwallet: the staker's transactions go through a contract that   *)
(* it creates on first use (Contract), or straight from its account (EOA). *)
(* The account's transactions are given the nonce read at that time; of    *)
(* those with one nonce the parent chain takes one.                        *)
(***************************************************************************)
EXTENDS Integers, Sequences

CONSTANTS VwKinds,         \* "contract" or "eoa", and limit: whether the gas limit is configured
          VwBatches,       \* the values of the transactions that the builder may hold
          VwRounds,        \* bound on calls
          VwFaults         \* bound on failed calls, crashes, lost and foreign transactions

VARIABLES vw,              \* the wallet: kind, con: contract known, pc and what it read; builder
          vl,              \* the parent chain: nonce, wallets created, balance of the contract, pending
          vq               \* what may still happen

vwvars == <<vw, vl, vq>>

\* fell: the balance fell since it was read for the transaction.
NoTx == [kind |-> "none", value |-> 0, total |-> 0, fell |-> FALSE]
VwIdle(kind, limit) == [kind |-> kind, limit |-> limit, pc |-> "initialize", con |-> FALSE, builder |-> <<>>, nonce |-> 0,
                        value |-> 0, create |-> FALSE]
VwChain == [nonce |-> 0, wallets |-> 0, balance |-> 0, pending |-> NoTx, fell |-> FALSE]
VwInit ==
  /\ \E k \in VwKinds : vw = VwIdle(k.kind, k.limit)
  /\ vl = VwChain
  /\ vq = [rounds |-> VwRounds, faults |-> VwFaults]

VwMayFail == vq.faults > 0 /\ vq' = [vq EXCEPT !.faults = @ - 1]
-----------------------------------------------------------------------------
(* The parent chain.                                                       *)

\* The account's pending transaction is taken up; the contract pays from its balance and
\* the value sent, or the transaction reverts.
VlMine ==
  LET t == vl.pending
      paid == vl.balance + t.value - t.total
  IN  /\ t.kind # "none"
      /\ vl' = [vl EXCEPT !.nonce = @ + 1, !.pending = NoTx,
                          !.wallets = IF t.kind = "create" THEN @ + 1 ELSE @,
                          !.balance = IF t.kind = "batch" /\ paid >= 0 THEN paid ELSE @,
                          !.fell = @ \/ (t.kind = "batch" /\ paid \in 0 .. vl.balance - 1)]
      /\ UNCHANGED <<vw, vq>>

\* The pending transaction is lost, or the owner uses the account themselves, or the
\* contract's balance changes.
VlOther ==
  /\ VwMayFail /\ UNCHANGED vw
  /\ \/ vl.pending.kind # "none" /\ vl' = [vl EXCEPT !.pending = NoTx]
     \/ vl' = [vl EXCEPT !.nonce = @ + 1, !.pending = NoTx]
     \/ \E b \in 0 .. 2 : b # vl.balance /\ vl' = [vl EXCEPT !.balance = b, !.fell = @ \/ b < vl.balance,
                                                           !.pending.fell = @ \/ b < vl.balance]

\* A transaction is taken with the account's next nonce if none is pending with it.
Taken(nonce) == nonce = vl.nonce /\ vl.pending.kind = "none"
-----------------------------------------------------------------------------
(* The wallet.                                                             *)

VwSet(pc) == vw' = [vw EXCEPT !.pc = pc] /\ UNCHANGED <<vl, vq>>
\* A call returns with an error; the builder keeps the transactions.  After an error in
\* Initialize the node has to be started again.
VwError(w) == [w EXCEPT !.pc = IF w.pc \in {"nonce", "logs"} /\ ~w.create THEN "initialize" ELSE "ready"]
VwFails == vw' = VwError(vw)
\* validateWallet fails: the wallet is kept, and not looked at again.
NotValidated == VwMayFail /\ vw' = [VwError(vw) EXCEPT !.con = TRUE]

\* The staker starts again: Initialize looks for a wallet but creates none.
VwRestart ==
  /\ vw.pc # "initialize" /\ VwMayFail
  /\ vw' = VwIdle(vw.kind, vw.limit) /\ UNCHANGED vl
Initialize ==
  /\ vw.pc = "initialize"
  /\ IF vw.kind = "eoa" THEN VwSet("ready")
     ELSE vw' = [vw EXCEPT !.pc = "nonce", !.create = FALSE] /\ UNCHANGED <<vl, vq>>

\* Builder.SendTransaction: a transaction that would fail (TestTransactions) is not kept.
\* The staker clears the builder before it fills it.
BuildTransactions ==
  /\ vw.pc = "ready" /\ vq.rounds > 0 /\ vq' = [vq EXCEPT !.rounds = @ - 1]
  /\ \E b \in VwBatches : vw' = [vw EXCEPT !.builder = b, !.pc = "execute"]
  /\ UNCHANGED vl

\* TimeoutChallenges, if there is a wallet: without one its address is read all the same,
\* and the program ends.
TimeoutChallenges ==
  /\ vw.pc = "ready" /\ (vw.kind = "eoa" \/ vw.con) /\ vq.rounds > 0 /\ vq' = [vq EXCEPT !.rounds = @ - 1]
  /\ vw' = [vw EXCEPT !.builder = <<>>, !.value = 0, !.pc = "auth"]
  /\ UNCHANGED vl

\* ExecuteTransactions; without a wallet, populateWallet comes first.
WalletExecutes ==
  /\ vw.pc = "execute"
  /\ IF vw.builder = <<>> THEN VwSet("ready")
     ELSE IF vw.kind = "eoa" \/ vw.con THEN VwSet("balance")
     ELSE vw' = [vw EXCEPT !.pc = "nonce", !.create = TRUE] /\ UNCHANGED <<vl, vq>>

\* getAuth.
GetAuth ==
  /\ vw.pc \in {"nonce", "auth"} /\ UNCHANGED vl
  /\ \/ vw' = [vw EXCEPT !.nonce = vl.nonce, !.pc = IF vw.pc = "nonce" THEN "logs" ELSE "post"] /\ UNCHANGED vq
     \/ VwMayFail /\ VwFails

\* GetValidatorWalletContract: the logs of the factory.  More than one wallet is an error.
FilterLogs ==
  /\ vw.pc = "logs"
  /\ \/ VwMayFail /\ VwFails /\ UNCHANGED vl
     \/ vl.wallets = 1 /\ NotValidated /\ UNCHANGED vl
     \/ /\ CASE vl.wallets = 0 -> vw' = [vw EXCEPT !.pc = IF vw.create THEN "create" ELSE "ready"]
             [] vl.wallets = 1 -> vw' = [vw EXCEPT !.con = TRUE, !.pc = IF vw.create THEN "balance" ELSE "ready"]
             [] OTHER -> VwFails
        /\ UNCHANGED <<vl, vq>>

\* A variant that reads the nonce when it creates the wallet.
CreateNonceNow == vl.nonce
\* The nonce was read before the logs.
CreateNonce == vw.nonce

\* CreateWallet.
CreateWallet ==
  /\ vw.pc = "create" /\ UNCHANGED vq
  /\ IF Taken(CreateNonce)
     THEN vl' = [vl EXCEPT !.pending = [NoTx EXCEPT !.kind = "create"]] /\ vw' = [vw EXCEPT !.pc = "wait"]
     ELSE VwFails /\ UNCHANGED vl

\* The transaction is not pending any more and was not included: the wait times out.
WaitedLong == vl.pending.kind # "create" /\ vl.wallets = 0

\* WaitForTxApproval: the transaction was included, or the wait fails.
WaitCreated ==
  /\ vw.pc = "wait" /\ UNCHANGED vl
  /\ \/ /\ vl.pending.kind # "create" /\ vl.wallets > 0
        /\ vw' = [vw EXCEPT !.con = TRUE, !.pc = "balance"] /\ UNCHANGED vq
     \/ vl.pending.kind # "create" /\ vl.wallets > 0 /\ NotValidated
     \/ VwMayFail /\ VwFails
     \/ WaitedLong /\ VwFails /\ UNCHANGED vq

Total(b) == LET sum[i \in 0 .. Len(b)] == IF i = 0 THEN 0 ELSE b[i] + sum[i - 1] IN sum[Len(b)]

\* One transaction brings its own value; several take what the contract has first.
CallValue(b, balance) ==
  IF Len(b) = 1 THEN b[1]
  ELSE IF Total(b) < balance THEN 0 ELSE Total(b) - balance

\* An account only sends its first transaction.
EoaValue(b) == b[1]

\* BalanceAt.
ReadBalance ==
  /\ vw.pc = "balance" /\ UNCHANGED vq
  /\ vw' = [vw EXCEPT !.pc = "auth", !.value = IF vw.kind = "eoa" THEN EoaValue(vw.builder)
                                              ELSE CallValue(vw.builder, vl.balance)]
  /\ vl' = [vl EXCEPT !.fell = FALSE]

\* What is left in the builder: an account's stays until the staker clears it.
Cleared == IF vw.kind = "eoa" THEN vw.builder ELSE <<>>

\* gasForTxData, which fails for a transaction that would revert unless the limit is
\* configured, and PostSimpleTransaction.
PostSimpleTransaction ==
  LET eoa == vw.kind = "eoa"
      total == IF eoa THEN vw.value ELSE Total(vw.builder)
      good == Taken(vw.nonce) /\ (eoa \/ vw.limit \/ vl.balance + vw.value >= total)
  IN  /\ vw.pc = "post"
      /\ \/ /\ good /\ UNCHANGED vq
            /\ vl' = [vl EXCEPT !.pending = [kind |-> IF eoa THEN "eoa" ELSE "batch", value |-> vw.value,
                                             total |-> total, fell |-> vl.fell]]
            /\ vw' = [vw EXCEPT !.pc = "ready", !.builder = Cleared]
         \/ ~good /\ VwFails /\ UNCHANGED <<vl, vq>>
         \/ VwMayFail /\ VwFails /\ UNCHANGED vl

VwSteps == \/ Initialize \/ WalletExecutes \/ GetAuth \/ FilterLogs \/ CreateWallet \/ WaitCreated
           \/ ReadBalance \/ PostSimpleTransaction
VwNext == VlMine \/ VlOther \/ VwRestart \/ BuildTransactions \/ TimeoutChallenges \/ VwSteps
-----------------------------------------------------------------------------
\* At most one wallet is ever created for the account, whichever calls fail or time out and
\* whenever the staker is restarted: a second one could never be used (getAuth before the
\* search in GetValidatorWalletContract).
OneWallet == vl.wallets <= 1

\* A posted batch is paid for by the contract's balance and the value sent with it, unless
\* the balance fell since it was read (ExecuteTransactions).
BatchPaidFor == vl.pending.kind = "batch" /\ ~vl.pending.fell => vl.balance + vl.pending.value >= vl.pending.total

\* The account of a staker has one wallet, and what the wallet sends is paid for
\* (GetValidatorWalletContract, ExecuteTransactions).
WalletSound == OneWallet /\ BatchPaidFor

VwSpec == VwInit /\ [][VwNext]_vwvars

\* The kinds of wallet, and amounts of wei: the total is the sum of what the builder holds.
ASSUME VwAssumption ==
  /\ VwKinds \subseteq [kind : {"contract", "eoa"}, limit : BOOLEAN]
  /\ VwBatches \subseteq Seq(Nat) /\ VwRounds \in Nat /\ VwFaults \in Nat
  /\ Total(<<>>) = 0
  /\ \A b \in VwBatches : Total(b) \in Nat /\ (Len(b) = 1 => Total(b) = b[1])

VwTypeOK ==
  /\ vw \in [kind : {"contract", "eoa"}, limit : BOOLEAN,
             pc : {"initialize", "ready", "nonce", "logs", "create", "wait", "execute", "balance", "auth", "post"},
             con : BOOLEAN, builder : VwBatches \cup {<<>>}, nonce : Nat, value : Nat, create : BOOLEAN]
  /\ vl \in [nonce : Nat, wallets : Nat, balance : Nat, fell : BOOLEAN,
             pending : [kind : {"none", "create", "batch", "eoa"}, value : Nat, total : Nat, fell : BOOLEAN]]
  /\ vq \in [rounds : Nat, faults : Nat]

\* Why there is one wallet: a creation is only ever sent with a nonce that was read before
\* the logs were found empty, and a wallet that was created since has used that nonce up.
\* Why a batch is paid for: the value was computed from a balance that has not fallen since.
VwInv ==
  /\ VwTypeOK
  /\ vw.pc = "balance" \/ (vw.create /\ vw.pc \in {"nonce", "logs"}) \/ vw.pc \in {"create", "wait"} => vw.builder # <<>>
  /\ vw.pc \in {"create", "wait"} => vw.create
  /\ vl.pending.kind = "create" => vl.wallets = 0
  /\ vw.pc \in {"logs", "create"} => vw.nonce <= vl.nonce
  /\ vw.pc = "create" /\ vw.nonce = vl.nonce => vl.wallets = 0
  /\ vw.pc \in {"auth", "post"} /\ vw.kind = "contract" /\ ~vl.fell => vl.balance + vw.value >= Total(vw.builder)
  /\ WalletSound

\* Every call comes to an end, although the transaction it waits for may be lost or replaced
\* (WaitForTxApproval within its timeout).
WalletCallsEnd == []<>(vw.pc = "ready")
=============================================================================
