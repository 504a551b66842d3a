------------------------------- MODULE HiddenKas -------------------------------
(***************************************************************************)
(* Hidden KAS (hidden_kas.rs): KIP-22 accounts whose coins pay a script of *)
(* a key that only the root mnemonic derives.  The core spends exactly the *)
(* coins it is given, and checks a payment saved by an earlier session     *)
(* against the one it would build from the saved request.                  *)
(***************************************************************************)
EXTENDS PsktDraft
LOCAL INSTANCE SequencesExt
LOCAL INSTANCE FiniteSetsExt

CONSTANTS
  MaxHiddenIndex,   \* MAX_INDEX, 9999 in the code
  MaxHiddenCoins,   \* 80 in the code, of coins and of signers
  HiddenDust,       \* 10_000 sompi
  HiddenMass,       \* the standard mass, 100_000
  FeeRounds         \* the iterations of the fee search, 32 in the code

(* A secret is [kind, id]: a "root" mnemonic with its passphrase, the same *)
(* mnemonic pinned to an "hd-path", or a "private" key.                    *)
HiddenKey(secret, branch, index) == <<"hidden", secret.id, branch, index>>
HiddenScript(key) == PayToScriptHash(<<"kip22", key>>)
HiddenPathOk(branch, index) == branch \in 0 .. 1 /\ index \in 0 .. MaxHiddenIndex

\* check_address: a listed address is the one its coordinates derive.
HiddenAddress(secret, branch, index) ==
  [branch |-> branch, index |-> index, net |-> "mainnet", script |-> HiddenScript(HiddenKey(secret, branch, index))]
IsHidden(secret, a) ==
  /\ secret.kind = "root" /\ HiddenPathOk(a.branch, a.index)
  /\ a = HiddenAddress(secret, a.branch, a.index)

DeriveHidden(secret, branch, start, count) ==
  IF secret.kind # "root" \/ count \notin 1 .. 100 \/ ~HiddenPathOk(branch, start + count - 1)
  THEN <<>>
  ELSE [k \in 1 .. count |-> HiddenAddress(secret, branch, start + k - 1)]

----------------------------------------------------------------------------
HiddenTermsOk(r) ==
  /\ r.descriptor /\ Len(r.signers) \in 1 .. MaxHiddenCoins /\ r.change.branch = 1
  /\ r.feeRate \in 1 .. MaxFeeRate
  /\ IF r.sendAll THEN r.amount = 0 ELSE r.amount >= HiddenDust
  /\ r.recipient.net = "mainnet"

HiddenSignersOk(secret, r) ==
  /\ IsHidden(secret, r.change) /\ PayTo(r.recipient) # r.change.script
  /\ \A i \in DOMAIN r.signers :
       /\ IsHidden(secret, r.signers[i])
       /\ r.signers[i].script \notin {r.change.script, PayTo(r.recipient)}
       /\ \A j \in DOMAIN r.signers : r.signers[j] = r.signers[i] => i = j

\* Every row is a coin of a signer, and every signer has one.
HiddenCoinsOk(r) ==
  /\ Len(r.utxos) \in 1 .. MaxHiddenCoins
  /\ Cardinality(Outpoints(r.utxos)) = Len(r.utxos)
  /\ \A k \in DOMAIN r.utxos :
       /\ ~r.utxos[k].coinbase /\ r.utxos[k].covenant = NoCovenant /\ r.utxos[k].amount > 0
       /\ \E i \in DOMAIN r.signers : r.utxos[k].script = r.signers[i].script
  /\ \A i \in DOMAIN r.signers : \E k \in DOMAIN r.utxos : r.utxos[k].script = r.signers[i].script

\* Inputs in the order of their outpoints, the payment and what remains.
HiddenTx(r, amount, remainder) ==
  LET ins == SetToSortSeq(Elements(r.utxos), LAMBDA a, b : a.outpoint[2] < b.outpoint[2])
  IN  [version |-> 0, payload |-> <<>>, ins |-> ins,
       outs |-> <<Output(amount, PayTo(r.recipient))>>
                \o (IF remainder > 0 THEN <<Output(remainder, r.change.script)>> ELSE <<>>)]

HiddenReview(r, tx, amount, remainder) ==
  [recipient |-> r.recipient, amount |-> amount, change |-> remainder, changeAddress |-> r.change,
   input |-> TotalOf(tx.ins), fee |-> TotalOf(tx.ins) - TotalOf(tx.outs), mass |-> Mass(tx.ins, tx.outs),
   signers |-> r.signers, outs |-> tx.outs, ins |-> [i \in DOMAIN tx.ins |-> tx.ins[i].outpoint],
   sendAll |-> r.sendAll]

JudgeHidden(r, at, tx, mass, amount, remainder) ==
  IF mass > HiddenMass THEN Refused("mass limit")
  ELSE IF at[2] < r.feeRate * mass THEN Retry(<<at[1] + 1, r.feeRate * mass>>)
  ELSE Built(tx, HiddenReview(r, tx, amount, remainder))
PriceHidden(r, at, tx, amount, remainder) == JudgeHidden(r, at, tx, Mass(tx.ins, tx.outs), amount, remainder)
SplitHidden(r, at, amount, remainder) ==
  IF remainder < 0 \/ amount < HiddenDust THEN Refused("InsufficientFunds")
  ELSE IF remainder > 0 /\ remainder < HiddenDust THEN Refused("change below the minimum")
  ELSE PriceHidden(r, at, HiddenTx(r, amount, remainder), amount, remainder)
SpendHidden(r, at, left) ==
  IF at[1] > FeeRounds THEN Refused("did not converge")
  ELSE SplitHidden(r, at, IF r.sendAll THEN left ELSE r.amount, IF r.sendAll THEN 0 ELSE left - r.amount)
HiddenRound(r, at) == SpendHidden(r, at, TotalOf(r.utxos) - at[2])      \* at is <<round, fee aimed at>>
BuildHidden(secret, r) ==
  LET End[at \in Nat \X Nat] == Follow(HiddenRound(r, at), at, End)
  IN  IF ~HiddenTermsOk(r) \/ ~HiddenSignersOk(secret, r) THEN Refused("InvalidRequest")
      ELSE IF ~HiddenCoinsOk(r) THEN Refused("UntrustedUtxo")
      ELSE HiddenRound(r, End[<<1, 0>>])

----------------------------------------------------------------------------
(* The witness of an input, and a payment another session saved: only the  *)
(* transaction the saved request builds, with a witness of the frozen      *)
(* layout in every input that the script accepts.                          *)
HiddenKeyOf(tx, i) == tx.ins[i].script[2][2]
HiddenWitness(tx, i) ==
  <<Sig(HiddenKeyOf(tx, i), Commitment(tx, i, All)), <<"kip22", HiddenKeyOf(tx, i)>>>>
HiddenSigned(tx) == WithWitness(tx, LAMBDA i : HiddenWitness(tx, i))

IsSaved(saved, built) == built.ok /\ built.review = saved.review /\ saved.tx = HiddenSigned(built.tx)
VerifySaved(secret, saved) == IsSaved(saved, BuildHidden(secret, saved.request))
=============================================================================
