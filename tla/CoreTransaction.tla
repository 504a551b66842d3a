--------------------------- MODULE CoreTransaction ---------------------------
(***************************************************************************)
(* The Rust core's own payment (kaspa_secure_core/src/transaction.rs): the *)
(* coins of the account are sorted, selected until they pay the amount and *)
(* a fee that covers the mass of the very transaction being built, and the *)
(* result is reviewed before it is signed.  A builder is an operator from  *)
(* a request to a Built or a Refused record; every field the Rust code     *)
(* hashes is a field of the review, so equal reviews stand for equal       *)
(* review hashes.                                                          *)
(***************************************************************************)
EXTENDS Integers, FiniteSets, Sequences
LOCAL INSTANCE SequencesExt
LOCAL INSTANCE FiniteSetsExt

CONSTANTS
  MaxInputs,      \* MAX_INPUTS, 80 in the code
  MaxSigners,     \* the account signer set's limit, 100 in the code
  MaxUtxos,       \* the gateway answer's limit, 250 in the code
  Dust,           \* DUST_LIMIT_SOMPI
  MaxFeeRate,     \* 1000.0 in the code
  StorageParam    \* the consensus' storage mass parameter

ASSUME CoreAssumption ==
  /\ {MaxInputs, MaxSigners, MaxUtxos, Dust, MaxFeeRate} \subseteq Nat \ {0}
  /\ StorageParam \in Nat

Networks == {"mainnet", "testnet"}

\* An address is a network prefix and a key, or a script: what it pays to.
Address(net, key) == [net |-> net, key |-> key]
PayTo(address) == IF "script" \in DOMAIN address THEN address.script ELSE <<"pk", address.key>>
PayToScriptHash(redeem) == <<"sh", redeem>>
NoCovenant == <<>>

SumOf(amounts) ==
  LET Upto[n \in 0 .. Len(amounts)] == IF n = 0 THEN 0 ELSE Upto[n - 1] + amounts[n] IN Upto[Len(amounts)]
Amounts(list) == [i \in DOMAIN list |-> list[i].amount]
TotalOf(list) == SumOf(Amounts(list))
Outpoints(list) == {list[i].outpoint : i \in DOMAIN list}

Output(amount, script) == [amount |-> amount, script |-> script, covenant |-> NoCovenant]
Refused(reason) == [ok |-> FALSE, reason |-> reason]
Built(tx, review) == [ok |-> TRUE, tx |-> tx, review |-> review]

----------------------------------------------------------------------------
(* Mass, as the consensus crate computes it: the larger of a compute part  *)
(* linear in the shape and a storage part that grows as outputs shrink     *)
(* (KIP-9, with the harmonic relaxation for one input or few outputs); a   *)
(* coin bound to a covenant takes two storage units.                       *)
Weight(coin) == IF coin.covenant = NoCovenant THEN 1 ELSE 4
Harmonic(list) == SumOf([i \in DOMAIN list |-> (StorageParam * Weight(list[i])) \div list[i].amount])
Relaxed(n, m) == m = 1 \/ n = 1 \/ (m = 2 /\ n = 2)
Arithmetic(ins, n) == n * (StorageParam \div (TotalOf(ins) \div n))
StorageMass(ins, outs) ==
  Max({0, Harmonic(outs) - (IF Relaxed(Len(ins), Len(outs)) THEN Harmonic(ins) ELSE Arithmetic(ins, Len(ins)))})
ComputeMass(ins, outs) == 1 + Len(ins) + Len(outs)
Mass(ins, outs) == Max({ComputeMass(ins, outs), StorageMass(ins, outs)})

----------------------------------------------------------------------------
(* What the gateway says the account holds (parse_utxos_for_addresses) and *)
(* which addresses the account signs for (controlled_addresses).           *)
ControlledAddresses(req) ==
  IF req.signers = <<>> THEN {req.sender} ELSE {req.signers[i].address : i \in DOMAIN req.signers}

SignersOk(req) ==
  req.signers # <<>> =>
    /\ Len(req.signers) <= MaxSigners
    /\ \A i \in DOMAIN req.signers :
         /\ req.signers[i].bip44
         /\ req.signers[i].address.net = req.sender.net
    /\ \A i, j \in DOMAIN req.signers :
         i # j => req.signers[i].address # req.signers[j].address
    /\ req.sender \in ControlledAddresses(req)

UtxosOk(utxos, controlled) ==
  /\ Len(utxos) <= MaxUtxos
  /\ \A i \in DOMAIN utxos :
       /\ utxos[i].address \in controlled
       /\ utxos[i].amount > 0
       /\ utxos[i].coinbase \/ utxos[i].script = PayTo(utxos[i].address)
  /\ Cardinality(Outpoints(utxos)) = Len(utxos)

\* Coinbase coins are left out, the others are offered largest first.
Spendable(utxos) ==
  SortSeq(SelectSeq(utxos, LAMBDA u : ~u.coinbase), LAMBDA a, b : a.amount > b.amount)

----------------------------------------------------------------------------
(* The two selections.  Both repeat with a larger fee until the fee of the *)
(* transaction they would sign covers that transaction's mass.             *)
MakeTransaction(ins, req, amount, change) ==
  [version |-> 0, ins |-> ins, payload |-> <<>>,
   outs |-> <<Output(amount, PayTo(req.recipient))>>
            \o (IF change > 0 THEN <<Output(change, PayTo(req.sender))>> ELSE <<>>)]

Review(req, tx, amount, change) ==
  [network |-> req.sender.net, sender |-> req.sender, recipient |-> req.recipient,
   controlled |-> ControlledAddresses(req), amount |-> amount, change |-> change,
   input |-> TotalOf(tx.ins), fee |-> TotalOf(tx.ins) - amount - change,
   mass |-> Mass(tx.ins, tx.outs), outpoints |-> [i \in DOMAIN tx.ins |-> tx.ins[i].outpoint],
   outs |-> tx.outs, sendAll |-> req.sendAll]

PaymentFeeWithoutChange(req, tx) == req.feeRate * Mass(tx.ins, <<tx.outs[1]>>)
PaymentFee(req, tx) == req.feeRate * Mass(tx.ins, tx.outs)

\* A round of a search ends it with an answer or says what to try next; a
\* search from a position ends at the first one whose round does not say so,
\* and that round's answer is the search's.
Retry(next) == [ok |-> FALSE, retry |-> next]
Follow(round, at, ends) == IF "retry" \in DOMAIN round THEN ends[round.retry] ELSE at

Worth(left) == IF left >= Dust THEN left ELSE 0
Attempt(req, ins, change) == [tx |-> MakeTransaction(ins, req, req.amount, change), change |-> change]
JudgePayment(req, a, required) ==
  IF TotalOf(a.tx.ins) - req.amount - a.change >= required
  THEN Built(a.tx, Review(req, a.tx, req.amount, a.change))
  ELSE Retry(<<Len(a.tx.ins), required>>)
PricePayment(req, a) == JudgePayment(req, a, PaymentFee(req, a.tx))
PayFrom(req, ins, fee) == PricePayment(req, Attempt(req, ins, Worth(TotalOf(ins) - req.amount - fee)))
PayWith(req, coins, enough, fee) ==
  IF enough = {} /\ Len(coins) <= MaxInputs THEN Refused("InsufficientFunds")
  ELSE IF enough = {} \/ Min(enough) > MaxInputs THEN Refused("TooManyInputs")
  ELSE PayFrom(req, SubSeq(coins, 1, Min(enough)), fee)
PaymentRound(req, coins, p) ==            \* <<coins already taken, fee aimed at>>
  PayWith(req, coins, {n \in p[1] .. Len(coins) : TotalOf(SubSeq(coins, 1, n)) > req.amount + p[2]}, p[2])
BuildPayment(req, coins) ==
  LET End[p \in Nat \X Nat] == Follow(PaymentRound(req, coins, p), p, End)
  IN  PaymentRound(req, coins, End[<<0, 0>>])

JudgeSendAll(req, tx, fee, required) ==
  IF tx.outs[1].amount < Dust THEN Refused("InsufficientFunds")
  ELSE IF fee >= required THEN Built(tx, Review(req, tx, tx.outs[1].amount, 0))
  ELSE Retry(required)
PriceSendAll(req, tx, fee) == JudgeSendAll(req, tx, fee, req.feeRate * Mass(tx.ins, tx.outs))
SendAllRound(req, coins, fee) == PriceSendAll(req, MakeTransaction(coins, req, TotalOf(coins) - fee, 0), fee)
BuildSendAll(req, coins) ==
  LET End[fee \in Nat] == Follow(SendAllRound(req, coins, fee), fee, End)
  IN  IF Len(coins) \notin 1 .. MaxInputs THEN Refused("TooManyInputs") ELSE SendAllRound(req, coins, End[0])

BuildSend(req) ==
  IF \/ ~req.sendAll /\ req.amount = 0
     \/ req.feeRate \notin 1 .. MaxFeeRate
     \/ req.sender.net \notin Networks \/ req.recipient.net # req.sender.net
  THEN Refused("InvalidRequest")
  ELSE IF ~SignersOk(req) \/ ~UtxosOk(req.utxos, ControlledAddresses(req))
  THEN Refused("UntrustedUtxo")
  ELSE IF req.sendAll THEN BuildSendAll(req, Spendable(req.utxos))
  ELSE BuildPayment(req, Spendable(req.utxos))

\* sign_transaction: every signer's key comes from the secret.
SecretSigns(keys, req) == \A a \in ControlledAddresses(req) : a.key \in keys

\* submit_json: what the REST gateway may be given.
RestPayment(tx) ==
  /\ tx.version = 0
  /\ tx.payload = <<>>
  /\ \A i \in DOMAIN tx.outs : tx.outs[i].covenant = NoCovenant
=============================================================================
