------------------------------ MODULE VaultPolicy ------------------------------
(***************************************************************************)
(* The time-lock and dead-man-switch vaults of policy_transaction.rs: the  *)
(* transactions the wallet agrees to sign, and the spending conditions of  *)
(* the redeem scripts it rebuilds natively.  A redeem script is the tuple  *)
(* of the values its template embeds; VaultAccepts is what the template's  *)
(* opcodes require of a transaction that spends the vault.                 *)
(***************************************************************************)
EXTENDS CoreTransaction
LOCAL INSTANCE SequencesExt

CONSTANTS
  MaxVaultFee,      \* MAX_VAULT_FEE_SOMPI
  Notice            \* what a dead-man-switch sends its beneficiary, 3_000_000

ASSUME VaultAssumption == MaxVaultFee \in Nat \ {0} /\ Notice \in Nat \ {0}

VaultProtocol == <<"kaslab-time-lock-vault-v1", 2>>

TimeLockRedeem(owner, unlock) == <<"timelock", owner.key, unlock>>
SwitchRedeem(owner, beneficiary, inactivity) ==
  <<"switch", owner.key, beneficiary.key, inactivity>>

\* The template the policy in the payload stands for, or a refusal.
ExpectedRedeem(payload, sender) ==
  CASE payload.action = "create" /\ payload.pinnedOwner = sender ->
         TimeLockRedeem(sender, payload.unlock)
    [] payload.action = "dms-create" /\ payload.ownerKey = sender.key ->
         SwitchRedeem(sender, payload.beneficiary, payload.inactivity)
    [] OTHER -> <<"mismatch">>

\* What is refused in every input of a vault transaction.
PlainInputs(tx) ==
  \A i \in DOMAIN tx.ins : ~tx.ins[i].coinbase /\ ~tx.ins[i].signed

FeeOf(tx) == TotalOf(tx.ins) - TotalOf(tx.outs)
FeeInPolicy(tx) == FeeOf(tx) \in 1 .. MaxVaultFee

\* The transaction id the review names: a hash of all but the witnesses.
TransactionId(tx) == [version |-> tx.version, ins |-> [i \in DOMAIN tx.ins |-> tx.ins[i].outpoint], outs |-> tx.outs,
                      payload |-> tx.payload, lockTime |-> tx.lockTime]
VaultReview(req, amount) ==
  [profile |-> req.tx.payload.action, sender |-> req.sender, vault |-> req.tx.payload.vault,
   amount |-> amount, fee |-> FeeOf(req.tx), signs |-> req.signs, redeem |-> req.redeem,
   id |-> TransactionId(req.tx)]

CreateShape(req) ==
  LET tx == req.tx
  IN  /\ req.signs = <<1>> /\ req.redeem = <<>>
      /\ tx.version = 0 /\ tx.lockTime = 0
      /\ tx.payload.protocol = VaultProtocol /\ tx.payload.owner = req.sender
      /\ Len(tx.ins) = 1
      /\ Len(tx.outs) = IF tx.payload.action = "dms-create" THEN 3 ELSE 2

BuildVaultCreate(req) ==
  LET tx == req.tx
      expected == ExpectedRedeem(tx.payload, req.sender)
      vaultScript == PayToScriptHash(tx.payload.redeem)
  IN  IF ~CreateShape(req) THEN Refused("shape")
      ELSE IF ~PlainInputs(tx) \/ tx.ins[1].script # PayTo(req.sender) THEN Refused("UntrustedUtxo")
      ELSE IF tx.payload.redeem # expected THEN Refused("template")
      ELSE IF \/ tx.outs[1].amount # tx.payload.amount
              \/ tx.outs[1].script # vaultScript
              \/ tx.payload.vault # vaultScript
              \/ tx.outs[Len(tx.outs)].script # PayTo(req.sender)
      THEN Refused("vault output policy mismatch")
      ELSE IF /\ tx.payload.action = "dms-create"
              /\ \/ tx.outs[2].amount # Notice
                 \/ tx.outs[2].script # PayTo(tx.payload.beneficiary)
      THEN Refused("beneficiary notice mismatch")
      ELSE IF ~FeeInPolicy(tx) THEN Refused("fee")
      ELSE Built(tx, VaultReview(req, tx.payload.amount))

\* The compute budgets a heartbeat's covenant and fee inputs must carry.
HeartbeatBudget == <<1000, 10>>

HeartbeatShape(req) ==
  LET tx == req.tx
  IN  /\ tx.version = 1 /\ tx.lockTime = 0
      /\ tx.payload.protocol = VaultProtocol /\ tx.payload.owner = req.sender
      /\ Len(tx.ins) = 2 /\ Len(tx.outs) = 2 /\ req.signs = <<1, 2>>
      /\ \A i \in 1 .. 2 : tx.ins[i].budget = HeartbeatBudget[i]

BuildVaultHeartbeat(req) ==
  LET tx == req.tx
  IN  IF ~HeartbeatShape(req) THEN Refused("shape")
      ELSE IF \/ ~PlainInputs(tx) \/ Cardinality(Outpoints(tx.ins)) # 2
              \/ tx.ins[2].script # PayTo(req.sender)
      THEN Refused("UntrustedUtxo")
      ELSE IF \/ tx.outs[1].amount # tx.ins[1].amount
              \/ tx.outs[1].script # tx.ins[1].script
              \/ tx.outs[2].script # PayTo(req.sender)
      THEN Refused("may only recreate the vault")
      ELSE IF ~FeeInPolicy(tx) THEN Refused("fee")
      ELSE IF \/ req.redeem = <<>> \/ tx.ins[1].script # PayToScriptHash(req.redeem)
              \/ tx.payload.vault # PayToScriptHash(req.redeem)
      THEN Refused("redeem script does not bind the covenant input")
      ELSE Built(tx, VaultReview(req, tx.ins[1].amount))

BuildPolicy(req) ==
  CASE req.tx.payload.action \in {"create", "dms-create"} -> BuildVaultCreate(req)
    [] req.tx.payload.action = "dms-heartbeat" -> BuildVaultHeartbeat(req)
    [] OTHER -> Refused("unsupported policy transaction profile")

----------------------------------------------------------------------------
(* What the templates require of a transaction spending input i.  "now" is *)
(* the chain's DAA score, "age" the score since the coin was made.         *)
PaysOn(tx, i, key) ==
  /\ Len(tx.ins) = 1 /\ Len(tx.outs) = 1
  /\ tx.outs[1].script = <<"pk", key>>
  /\ tx.outs[1].amount >= tx.ins[i].amount - MaxVaultFee

Recreates(tx, i) ==
  /\ Len(tx.ins) = 2 /\ Len(tx.outs) = 2
  /\ tx.outs[1].script = tx.ins[i].script
  /\ tx.outs[1].amount >= tx.ins[i].amount

VaultAccepts(redeem, tx, i, signers, now, age) ==
  IF redeem[1] = "timelock"
  THEN now >= redeem[3] /\ PaysOn(tx, i, redeem[2])
  ELSE \/ redeem[2] \in signers /\ Recreates(tx, i)
       \/ age >= redeem[4] /\ PaysOn(tx, i, redeem[3])
=============================================================================
