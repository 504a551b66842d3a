------------------------------ MODULE CoreWallet ------------------------------
(***************************************************************************)
(* The core as its hosts call it: prepare a request for review, and sign   *)
(* it with a secret against the review the user approved.  The Windows     *)
(* shell (desktop.rs), the Android bindings (android.rs) and the extension *)
(* (wasm.rs) reach the builders only through these two operators and the   *)
(* two Tangem ones.  Wyrms and covenant vaults are in CovenantLives.       *)
(***************************************************************************)
EXTENDS PsktSigning, HiddenKas, SecretKeys, VaultPolicy, DotkSales
LOCAL INSTANCE SequencesExt

\* core_prepare, and the two requests only Android and the extension know.
PrepareAs(secret, method, r) ==
  CASE method \in {"prepareTransaction", "prepareKaspacomCommit"} -> BuildSend(r)
    [] method \in {"prepareReveal", "prepareKaspacomReveal"} -> BuildReveal(r, "schnorr")
    [] method \in {"preparePskt", "prepareKaspacomPskt"} -> BuildPskt(r)
    [] method = "prepareKcc20Transfer" -> BuildKcc20(r)
    [] method = "prepareEvmTransaction" -> BuildEvm(r)
    [] method = "preparePolicyTransaction" -> BuildPolicy(r)
    [] method = "prepareDotkMarket" -> BuildSale(r)
    [] method = "prepareHiddenKas" -> BuildHidden(secret, r)
    [] method = "prepareTangemCommit" -> BuildTangemCommit(r)
    [] method = "prepareTangemReveal" -> BuildTangemReveal(r)

OperationOf(method) ==
  CASE method \in {"prepareTransaction", "prepareKaspacomCommit"} -> "signTransaction"
    [] method \in {"prepareReveal", "prepareKaspacomReveal"} -> "signReveal"
    [] method \in {"preparePskt", "prepareKaspacomPskt"} -> "signPskt"
    [] method = "prepareKcc20Transfer" -> "signKcc20Transfer"
    [] method = "prepareEvmTransaction" -> "signEvmTransaction"
    [] method = "preparePolicyTransaction" -> "signPolicyTransaction"
    [] method = "prepareDotkMarket" -> "signDotkMarket"
    [] method = "prepareHiddenKas" -> "signHiddenKas"
    [] method \in {"prepareTangemCommit", "prepareTangemReveal"} -> "finalizeTangem"

----------------------------------------------------------------------------
(* Witnesses of the transactions the core builds itself.                   *)
InputSig(key, tx, i) == Sig(key, Commitment(tx, i, All))

\* An account's payment: every input with the key its own address stands for.
SignedPayment(r, tx) == WithWitness(tx, LAMBDA i : <<InputSig(tx.ins[i].address.key, tx, i)>>)
PaymentKeys(secret, r) ==
  IF r.signers = <<>> THEN {DerivedKey(secret)}
  ELSE {KeyAt(secret, r.signers[i].path) : i \in DOMAIN r.signers}

SignedReveal(r, scheme, tx) ==
  WithWitness(tx, LAMBDA i : <<InputSig(r.operation.sender.key, tx, i), Inscribed(r.operation, scheme)>>)
SignedKcc20(r, tx) ==
  WithWitness(tx, LAMBDA i : IF tx.ins[i].covenant = NoCovenant THEN <<InputSig(r.sender.key, tx, i)>>
                             ELSE Kcc20Witness(tx, i))
SignedPolicy(r, tx) ==
  WithWitness(tx, LAMBDA i : IF i \in Elements(r.signs) THEN <<InputSig(r.sender.key, tx, i)>> ELSE <<>>)
\* assemble_scripts: the deed's leader, the sale's entry with the approver's
\* signature, the funding coins.
SignedSale(r, tx) ==
  WithWitness(tx, LAMBDA i : CASE i = 1 -> <<"deed", r.action>>
                               [] i = 2 /\ r.sale # <<>> -> <<r.action, InputSig(r.sender.key, tx, i)>>
                               [] OTHER -> <<InputSig(r.sender.key, tx, i)>>)
SaleOpens(r, tx) ==
  CASE r.action = "list" -> \E i \in 2 .. Len(tx.ins) : tx.ins[i].script = <<"pk", r.terms.seller.key>>
    [] OTHER -> SaleAccepts(r.terms, tx, r.action, r.sender.key)

----------------------------------------------------------------------------
(* Whether the secret is the sender's, and what signing releases.          *)
ControlsRequest(secret, method, r) ==
  CASE method \in {"prepareTransaction", "prepareKaspacomCommit"} -> SecretSigns(PaymentKeys(secret, r), r)
    [] method \in {"prepareReveal", "prepareKaspacomReveal"} -> r.operation.sender = Material(secret)
    [] method = "prepareEvmTransaction" -> EvmAddress(secret) = r.from
    [] method \in {"prepareHiddenKas", "prepareTangemCommit", "prepareTangemReveal"} -> TRUE
    [] OTHER -> Controls(secret, r.sender)

\* The Tangem card answers with a signature per hash; the core only checks.
AnswerOfCard(r, tx) == CardSignatures(tx, r.card)
Finished(r, tx, answers) ==
  IF ~CardAnswersOk(tx, r.card, answers) THEN Refused("card signature")
  ELSE Built([tx EXCEPT !.ins = [i \in DOMAIN @ |->
               [outpoint |-> @[i].outpoint, amount |-> @[i].amount, script |-> @[i].script, covenant |-> @[i].covenant,
                witness |-> IF @[i].script[1] = "pk" THEN <<answers[i]>>
                            ELSE <<answers[i], Inscribed(r.operation, "ecdsa")>>]]], <<>>)

SignedTx(secret, method, r, tx) ==
  CASE method \in {"prepareTransaction", "prepareKaspacomCommit"} -> SignedPayment(r, tx)
    [] method \in {"prepareReveal", "prepareKaspacomReveal"} -> SignedReveal(r, "schnorr", tx)
    [] method = "prepareKcc20Transfer" -> SignedKcc20(r, tx)
    [] method = "preparePolicyTransaction" -> SignedPolicy(r, tx)
    [] method = "prepareDotkMarket" -> SignedSale(r, tx)
    [] method = "prepareHiddenKas" -> HiddenSigned(tx)
    [] OTHER -> tx

\* core_sign: rebuilt from the request, compared with the approved review.
Release(method, r, tx, review) ==
  CASE OperationOf(method) = "signDotkMarket" /\ ~SaleOpens(r, tx) -> Refused("script validation")
    [] OperationOf(method) = "signKcc20Transfer" /\ ~Kcc20Accepts(tx, tx.ins[1].witness) -> Refused("script validation")
    [] OperationOf(method) = "signTransaction" /\ ~RestPayment(tx) -> Refused("submit")
    [] OperationOf(method) = "finalizeTangem" -> Finished(r, tx, AnswerOfCard(r, tx))
    [] OTHER -> Built(tx, review)
SignBuilt(secret, method, r, built, approved) ==
  IF OperationOf(method) = "signPskt" THEN SignApproved(r, built, approved)
  ELSE IF ~built.ok THEN built
  ELSE IF built.review # approved THEN Refused("ReviewMismatch")
  ELSE Release(method, r, SignedTx(secret, method, r, built.tx), built.review)
SignPrepared(secret, method, r, built, approved) ==
  IF ~ControlsRequest(secret, method, r) THEN Refused("seed does not control sender")
  ELSE SignBuilt(secret, method, r, built, approved)
SignAs(secret, method, r, approved) == SignPrepared(secret, method, r, PrepareAs(secret, method, r), approved)

\* sign_kcc20_plan: all the steps or none; each is signed as it is built.
SignAsBuilt(r, built) == SignApproved(r, built, IF built.ok THEN built.review ELSE <<>>)
SignStep(secret, r) ==
  IF ~Controls(secret, r.sender) THEN Refused("seed does not control sender") ELSE SignAsBuilt(r, BuildPskt(r))
AllSigned(steps) ==
  IF \E k \in DOMAIN steps : ~steps[k].ok THEN Refused("step")
  ELSE [ok |-> TRUE, txs |-> [k \in DOMAIN steps |-> steps[k].tx]]
SignBuiltPlan(secret, plan, approved) ==
  IF plan.status # "ready" THEN Refused("plan")
  ELSE IF plan # approved THEN Refused("ReviewMismatch")
  ELSE AllSigned([k \in DOMAIN plan.steps |-> SignStep(secret, plan.steps[k])])
SignPlan(secret, r, approved) == SignBuiltPlan(secret, BuildPlan(r), approved)
=============================================================================
