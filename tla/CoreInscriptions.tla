--------------------------- MODULE CoreInscriptions ---------------------------
(***************************************************************************)
(* Inscriptions built by the core (inscription.rs) and the same pair of    *)
(* transactions signed by a Tangem card (tangem_rescue.rs).  The commit    *)
(* pays a script that names the owner's key and the operation; the reveal  *)
(* spends that one coin and shows the script.  A listing reveals into the  *)
(* market's own script, the coin ListingMarkets sells.                     *)
(***************************************************************************)
EXTENDS ListingMarkets
LOCAL INSTANCE FiniteSetsExt

CONSTANTS
  TangemKeys,       \* the keys whose addresses are PubKeyECDSA
  CommitAmount,     \* COMMIT_AMOUNT_SOMPI, 0.3 KAS
  ListAmount        \* what a KRC20 or KNS listing locks, 2 KAS

ASSUME InscriptionAssumption == {CommitAmount, ListAmount} \subseteq Nat \ {0}

Scheme(address) == IF address.key \in TangemKeys THEN "ecdsa" ELSE "schnorr"

(* An operation is [kind, sender, recipient, asset, amount].               *)
ListKinds == {"krc721-list", "krc20-list", "kns-list"}
Market(kind) == CASE kind = "krc721-list" -> "krc721" [] kind = "krc20-list" -> "krc20" [] OTHER -> "kns"
Namespace(kind) ==
  CASE kind \in {"krc20", "krc20-list"} -> "kasplex"
    [] kind \in {"krc721", "krc721-list"} -> "kspr"
    [] OTHER -> "kns"

\* canonical_payload: what the indexers will read.
PayloadOk(op) ==
  /\ op.kind \in ListKinds \cup {"krc20", "krc721", "kns"}
  /\ op.recipient.net = "mainnet" /\ op.asset # "none"
  /\ op.kind \in ListKinds => op.recipient = op.sender
  /\ op.kind \in {"krc20", "krc20-list"} => op.amount > 0
Payload(op) ==
  IF op.kind \in ListKinds THEN <<"list", op.asset, op.amount>>
  ELSE <<"transfer", op.asset, op.amount, op.recipient>>

PlanOk(op, scheme) == op.sender.net = "mainnet" /\ Scheme(op.sender) = scheme /\ PayloadOk(op)
Inscribed(op, scheme) == <<"inscription", op.sender.key, scheme, Namespace(op.kind), Payload(op)>>
CommitScript(op, scheme) == PayToScriptHash(Inscribed(op, scheme))
Committed(op) == IF op.kind \in {"krc20-list", "kns-list"} THEN ListAmount ELSE CommitAmount

----------------------------------------------------------------------------
(* The reveal: one input, one output, the fee out of the committed amount. *)
RevealTo(op) ==
  IF op.kind \in ListKinds THEN PayToScriptHash(Listing(Market(op.kind), op.sender, op.asset))
  ELSE PayTo(op.sender)

RevealTx(op, commit, returned) ==
  [version |-> 0, payload |-> <<>>, ins |-> <<commit>>, outs |-> <<Output(returned, RevealTo(op))>>]

RevealReview(r, scheme, tx) ==
  [kind |-> r.operation.kind, sender |-> r.operation.sender, recipient |-> r.operation.recipient,
   commit |-> r.commit, returned |-> tx.outs[1].amount, fee |-> TotalOf(tx.ins) - TotalOf(tx.outs),
   mass |-> Mass(tx.ins, tx.outs), payload |-> Payload(r.operation), scheme |-> scheme,
   redeem |-> Inscribed(r.operation, scheme), outs |-> tx.outs, ins |-> <<r.commit>>]

\* The gateway's rows of the commit address: only the commit's first output
\* is looked for, whatever else the rows hold.
CommitCoins(r) == {u \in Elements(r.utxos) : u.outpoint = r.commit}

JudgeReveal(r, scheme, tx, fee, required) ==
  IF tx.outs[1].amount < Dust THEN Refused("InsufficientFunds")
  ELSE IF fee >= required THEN Built(tx, RevealReview(r, scheme, tx))
  ELSE Retry(required)
PriceReveal(r, scheme, tx, fee) == JudgeReveal(r, scheme, tx, fee, r.feeRate * Mass(tx.ins, tx.outs))
RevealRound(r, scheme, coin, fee) ==
  PriceReveal(r, scheme, RevealTx(r.operation, Draft(coin, <<>>), coin.amount - fee), fee)
RevealOf(r, scheme, coin) ==
  LET End[fee \in Nat] == Follow(RevealRound(r, scheme, coin, fee), fee, End)
  IN  IF coin.amount # Committed(r.operation) \/ coin.script # CommitScript(r.operation, scheme)
      THEN Refused("UntrustedUtxo")
      ELSE RevealRound(r, scheme, coin, End[0])
BuildReveal(r, scheme) ==
  IF r.feeRate \notin 1 .. MaxFeeRate \/ ~PlanOk(r.operation, scheme) THEN Refused("InvalidRequest")
  ELSE IF CommitCoins(r) = {} THEN Refused("commit output is not yet available")
  ELSE RevealOf(r, scheme, AnyOf(CommitCoins(r)))

----------------------------------------------------------------------------
(* Tangem: KRC721 only, with the commit an ordinary payment of the core.   *)
TangemOk(op, card) ==
  /\ op.kind = "krc721" /\ op.sender = [net |-> "mainnet", key |-> card] /\ card \in TangemKeys

CommitPayment(r) ==
  [sender |-> r.operation.sender, recipient |-> [net |-> "mainnet", script |-> CommitScript(r.operation, "ecdsa")],
   amount |-> Committed(r.operation), feeRate |-> r.feeRate, utxos |-> r.utxos, signers |-> <<>>, sendAll |-> FALSE]

BuildTangemCommit(r) ==
  IF ~TangemOk(r.operation, r.card) \/ ~PlanOk(r.operation, "ecdsa") THEN Refused("InvalidRequest")
  ELSE BuildSend(CommitPayment(r))
BuildTangemReveal(r) ==
  IF ~TangemOk(r.operation, r.card) THEN Refused("InvalidRequest") ELSE BuildReveal(r, "ecdsa")

\* checked_ecdsa_signature_scripts: the card's answers, one per input, each
\* verified against the transaction built again from the request.
CardSignatures(tx, card) == [i \in DOMAIN tx.ins |-> Sig(card, Commitment(tx, i, All))]
CardAnswersOk(tx, card, answers) == answers # <<>> /\ answers = CardSignatures(tx, card)
=============================================================================
