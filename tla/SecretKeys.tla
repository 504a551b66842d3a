------------------------------ MODULE SecretKeys ------------------------------
(***************************************************************************)
(* What the core derives from a wallet secret (lib.rs) and the EVM account *)
(* of the same secret (evm.rs).  A secret is a private key, a mnemonic     *)
(* with its passphrase, or a mnemonic pinned to one HD path; a derived key *)
(* is the pair of what it comes from and the path, so different pairs are  *)
(* different keys.                                                         *)
(***************************************************************************)
EXTENDS CoreTransaction

CONSTANTS
  MaxMessage,       \* 4096 bytes
  EvmChains,        \* the chain ids of Kasplex and Igra
  GasRange          \* 21_000 .. 30_000_000

ModernCoin == 111111
LegacyCoin == 972
HdPath(coin, account, change, index) == [coin |-> coin, account |-> account, change |-> change, index |-> index]
DefaultPath == HdPath(ModernCoin, 0, 0, 0)

\* derive_key: the private key, or the key at the selected path.
KeyAt(secret, path) == <<secret.id, path>>
DerivedKey(secret) ==
  CASE secret.kind = "private" -> <<secret.id>>
    [] secret.kind = "hd-path" -> KeyAt(secret, secret.path)
    [] OTHER -> KeyAt(secret, DefaultPath)

\* controls_address: the network prefix is not compared.
Controls(secret, address) == address.net \in Networks /\ address.key = DerivedKey(secret)

\* derive_address_range: the discovery of an account's addresses.
RangeOk(coin, account, change, count) ==
  coin \in {ModernCoin, LegacyCoin} /\ account <= 100 /\ change \in 0 .. 1 /\ count \in 1 .. 100
AddressRange(secret, coin, account, change, start, count) ==
  IF ~RangeOk(coin, account, change, count) THEN <<>>
  ELSE IF secret.kind = "private"
  THEN IF start = 0 /\ coin = ModernCoin /\ change = 0 THEN <<Address("mainnet", DerivedKey(secret))>> ELSE <<>>
  ELSE [k \in 1 .. count |->
          Address("mainnet", KeyAt(secret, HdPath(coin, account, change, start + k - 1)))]

\* A new or imported wallet is known by the address of its default path.
WordCounts == {12, 24}
Material(secret) == Address("mainnet", DerivedKey(secret))

\* sign_personal_message and the check of a marketplace login.
SignsMessage(secret, address, message) == message.size <= MaxMessage /\ Controls(secret, address)
LoginOk(address, message, signature) ==
  /\ address.net = "mainnet" /\ message.size <= MaxMessage
  /\ signature = [by |-> address.key, over |-> message]

\* derive_backup_key: the parameters are those of the backup's version.
BackupKeyOk(password, salt) == password.size >= 12 /\ salt.size = 32
BackupKey(password, salt, version) == <<password, salt, version>>

----------------------------------------------------------------------------
(* The EVM account: the same position under coin type 60, or the default   *)
(* path for every position of another coin type.                           *)
EvmCoin == 60
EvmPath(path) == [path EXCEPT !.coin = EvmCoin]
EvmKey(secret) ==
  CASE secret.kind = "private" -> <<secret.id>>
    [] secret.kind = "hd-path" /\ secret.path.coin = ModernCoin -> KeyAt(secret, EvmPath(secret.path))
    [] OTHER -> KeyAt(secret, EvmPath(DefaultPath))
EvmAddress(secret) == <<"evm", EvmKey(secret)>>

EvmRequestOk(r) == r.chain \in EvmChains /\ r.gas \in GasRange /\ r.value >= 0 /\ r.gasPrice >= 0

\* What is hashed for the review.  The call data is not part of it.
EvmReview(r) ==
  [from |-> r.from, to |-> r.to, recipient |-> r.recipient, value |-> r.value, nonce |-> r.nonce,
   gas |-> r.gas, gasPrice |-> r.gasPrice, chain |-> r.chain, token |-> r.token, shown |-> r.shown]
\* What the chain executes, and what the signature covers.
EvmUnsigned(r) ==
  [nonce |-> r.nonce, gasPrice |-> r.gasPrice, gas |-> r.gas, to |-> r.to, value |-> r.value,
   data |-> r.data, chain |-> r.chain]

BuildEvm(r) == IF EvmRequestOk(r) THEN Built(EvmUnsigned(r), EvmReview(r)) ELSE Refused("InvalidRequest")
SignsEvm(secret, r, review) == EvmRequestOk(r) /\ EvmReview(r) = review /\ EvmAddress(secret) = r.from
=============================================================================
