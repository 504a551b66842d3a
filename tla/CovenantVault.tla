---------------------------- MODULE CovenantVault ----------------------------
(***************************************************************************)
(* Covenant vaults (covenant_vault.rs) and the backup of their records     *)
(* (vault_recovery.rs).  A time lock returns to its owner after a DAA      *)
(* score; a dead man's switch goes to its beneficiary when its coin has    *)
(* not been renewed by a heartbeat for a number of DAA scores.  What the   *)
(* wallet builds and what the two contracts accept are separate            *)
(* definitions, each from its own source.                                  *)
(***************************************************************************)
EXTENDS CovenantWyrm

CONSTANTS
  MinVault,         \* the smallest deposit, 1 KAS
  Notice,           \* the coin that tells the beneficiary, 0.1 KAS
  MaxVaultFee,      \* 0.15 KAS
  InactivityRange,  \* 1200 .. 3153600000
  MaxDaa            \* below the score at which a lock time means a date

VaultKinds == {"timeLock", "deadManSwitch"}

----------------------------------------------------------------------------
(* Terms, scripts and descriptors.                                         *)
TermsOk(t) ==
  /\ t.instance # 0
  /\ \/ t.kind = "timeLock" /\ t.beneficiary = "nobody" /\ t.limit \in 1 .. MaxDaa - 1
     \/ t.kind = "deadManSwitch" /\ t.limit \in InactivityRange

Redeem(t) == <<"vault", t>>
VaultScriptOf(t) == PayToScriptHash(Redeem(t))
Descriptor(t) == [protocol |-> "kaspire-vault", terms |-> t, redeem |-> Redeem(t), script |-> VaultScriptOf(t)]

----------------------------------------------------------------------------
(* What the wallet may be asked to do with a vault, and when.              *)
Opens(r) == r.action \in {"release", "claim"}

ActionOk(r) ==
  CASE r.action \in {"create", "heartbeat"} ->
         r.sender.key = r.terms.owner /\ (r.action = "heartbeat" => r.terms.kind = "deadManSwitch")
    [] r.action = "release" ->
         r.terms.kind = "timeLock" /\ r.sender.key = r.terms.owner /\ r.now > r.terms.limit
    [] r.action = "claim" -> r.terms.kind = "deadManSwitch" /\ r.sender.key = r.terms.beneficiary

DepositOk(r) == r.amount >= MinVault /\ (r.terms.kind = "timeLock" => r.terms.limit > r.now)

VaultCellOk(r) ==
  /\ r.cell.value = r.amount /\ r.cell.daa # 0 /\ r.cell.script = VaultScriptOf(r.terms)
  /\ r.action = "claim" => r.now > r.cell.daa + r.terms.limit
  /\ r.cell.covenant # NoCovenant

NoticeOf(r) == IF r.action = "create" /\ r.terms.kind = "deadManSwitch" THEN Notice ELSE 0

----------------------------------------------------------------------------
(* The transaction, paid by one coin of the sender or, when the vault      *)
(* opens, by the vault itself.  funding is <<coin>> or <<>>.               *)
VaultInUnaged(r) == [outpoint |-> r.cell.outpoint, amount |-> r.cell.value, script |-> r.cell.script,
                     covenant |-> r.cell.covenant, sequence |-> 0]
VaultIn(r) == [outpoint |-> r.cell.outpoint, amount |-> r.cell.value, script |-> r.cell.script,
               covenant |-> r.cell.covenant, sequence |-> IF r.action = "claim" THEN r.terms.limit ELSE 0]

VaultChange(r, funding, fee) ==
  funding[1].amount - (IF r.action = "create" THEN r.amount ELSE 0) - NoticeOf(r) - fee

VaultOuts(r, funding, fee) ==
  IF Opens(r) THEN <<Output(r.amount - fee, PayTo(r.sender))>>
  ELSE <<Covenanted(r.amount, VaultScriptOf(r.terms),
                    IF r.action = "create" THEN <<<<"genesis", funding[1].outpoint>>, 1>> ELSE <<r.cell.covenant[1], 1>>),
         Output(VaultChange(r, funding, fee), PayTo(r.sender))>>
       \o (IF NoticeOf(r) = 0 THEN <<>> ELSE <<Output(Notice, <<"pk", r.terms.beneficiary>>)>>)

VaultTx(r, funding, fee) ==
  [version |-> 1, payload |-> <<r.action, r.terms, r.amount>>,
   lock |-> IF r.action = "release" THEN r.terms.limit ELSE 0,
   ins |-> (IF r.action = "create" THEN <<>> ELSE <<VaultIn(r)>>) \o funding,
   outs |-> VaultOuts(r, funding, fee)]

VaultRecordByOutpoint(r, tx) ==
  [descriptor |-> Descriptor(r.terms), amount |-> r.amount, index |-> 0,
   covenant |-> IF r.action = "create" THEN <<<<"cell", tx.ins[1].outpoint>>>> ELSE r.cell.covenant,
   outpoint |-> <<tx.ins[1].outpoint, r.action>>, confirmed |-> {},
   status |-> IF Opens(r) THEN "opening" ELSE "pending"]
VaultRecord(r, tx) ==
  [descriptor |-> Descriptor(r.terms), amount |-> r.amount, index |-> 0,
   covenant |-> IF r.action = "create" THEN <<tx.outs[1].covenant[1]>> ELSE r.cell.covenant,
   outpoint |-> <<tx.ins[1].outpoint, r.action>>, confirmed |-> {},
   status |-> IF Opens(r) THEN "opening" ELSE "pending"]

\* The coins are tried in the order they came; the first that carries the
\* transaction and its fee is used.
VaultCandidates(r) == IF Opens(r) THEN {<<>>} ELSE {<<c>> : c \in r.coins}

VaultFits(r, funding, fee) ==
  LET tx == VaultTx(r, funding, fee)
  IN  /\ IF Opens(r) THEN r.amount - fee >= Dust
         ELSE /\ r.action = "create" \/ funding[1].outpoint # r.cell.outpoint
              /\ VaultChange(r, funding, fee) >= Dust
      /\ StorageMass(tx.ins, tx.outs) <= StorageTarget

VaultInCount(r) == IF r.action = "heartbeat" THEN 2 ELSE 1
VaultOutCount(r) == IF Opens(r) THEN 1 ELSE IF NoticeOf(r) = 0 THEN 2 ELSE 3
VaultFee(r) == r.feeRate * (1 + VaultInCount(r) + VaultOutCount(r))

BuildVault(r) ==
  LET fee == VaultFee(r)
      carries(funding) == VaultFits(r, funding, fee)
      usable == {f \in VaultCandidates(r) : carries(f)}
      tx == VaultTx(r, CHOOSE f \in usable : TRUE, fee)
  IN  IF \/ ~FeeRateOk(r) \/ r.now \notin 1 .. MaxDaa - 1
         \/ ~TermsOk(r.terms) \/ ~StandardKey(r.sender) \/ ~ActionOk(r)
         \/ (IF r.action = "create" THEN ~DepositOk(r) ELSE ~VaultCellOk(r))
      THEN Refused("InvalidRequest")
      ELSE IF fee > MaxVaultFee \/ usable = {} THEN Refused("InsufficientFunds")
      ELSE Built(tx, [request |-> r, fee |-> fee, tx |-> tx, record |-> VaultRecord(r, tx)])

----------------------------------------------------------------------------
(* The contracts.  age is how long the vault's coin has been confirmed.    *)
PaidTo(tx, key) == tx.outs[1].script = <<"pk", key>>
TimeLockAccepts(t, tx, approver) ==
  /\ Len(tx.ins) = 1 /\ Len(tx.outs) = 1
  /\ tx.outs[1].covenant = NoCovenant
  /\ approver = t.owner /\ tx.lock >= t.limit /\ PaidTo(tx, t.owner)

HeartbeatAccepts(t, tx, approver) ==
  /\ Len(tx.ins) = 2 /\ Len(tx.outs) = 2
  /\ tx.outs[1].covenant = <<tx.ins[1].covenant[1], 1>> /\ tx.outs[2].covenant = NoCovenant
  /\ approver = t.owner
  /\ tx.outs[1].script = tx.ins[1].script /\ tx.outs[1].amount = tx.ins[1].amount
  /\ tx.ins[2].script = <<"pk", t.owner>> /\ tx.outs[2].script = <<"pk", t.owner>>

ClaimAcceptsAtOnce(t, tx, approver, age) ==
  /\ Len(tx.ins) = 1 /\ Len(tx.outs) = 1
  /\ tx.outs[1].covenant = NoCovenant
  /\ approver = t.beneficiary /\ tx.ins[1].sequence >= t.limit
  /\ PaidTo(tx, t.beneficiary)
ClaimAccepts(t, tx, approver, age) ==
  /\ Len(tx.ins) = 1 /\ Len(tx.outs) = 1
  /\ tx.outs[1].covenant = NoCovenant
  /\ approver = t.beneficiary /\ age >= t.limit /\ tx.ins[1].sequence >= t.limit
  /\ PaidTo(tx, t.beneficiary)

VaultAcceptsSpend(t, tx, action, approver, age) ==
  CASE action = "release" -> t.kind = "timeLock" /\ TimeLockAccepts(t, tx, approver)
    [] action = "heartbeat" -> t.kind = "deadManSwitch" /\ HeartbeatAccepts(t, tx, approver)
    [] action = "claim" -> t.kind = "deadManSwitch" /\ ClaimAccepts(t, tx, approver, age)
    [] OTHER -> FALSE

----------------------------------------------------------------------------
(* The backup.  A sealed record can be opened with its own password only:  *)
(* the signature is checked against the identity the password derives, so  *)
(* a record sealed by someone else does not open, and both sides validate  *)
(* what they read.                                                         *)
Statuses == {"pending", "locked", "opening", "opened"}
PasswordOk(password) == password.length \in 12 .. 1024

ConfirmedCellOk(cell, record) ==
  /\ cell.covenant = record.covenant /\ cell.script = record.descriptor.script
  /\ cell.value = record.amount /\ cell.daa # 0

RecordOk(record) ==
  /\ TermsOk(record.descriptor.terms)
  /\ record.descriptor = Descriptor(record.descriptor.terms)
  /\ record.covenant # NoCovenant /\ record.index = 0
  /\ record.amount >= MinVault /\ record.status \in Statuses
  /\ \A cell \in record.confirmed : ConfirmedCellOk(cell, record)

Seal(password, record) ==
  IF RecordOk(record) /\ PasswordOk(password)
  THEN {[identity |-> password, content |-> record, signed |-> record]} ELSE {}

Open(password, envelope) ==
  IF /\ PasswordOk(password)
     /\ envelope.identity = password /\ envelope.signed = envelope.content
     /\ RecordOk(envelope.content)
  THEN {envelope.content} ELSE {}
=============================================================================
