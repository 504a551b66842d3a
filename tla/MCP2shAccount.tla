--------------------------- MODULE MCP2shAccount ---------------------------
(***************************************************************************)
(* Small instances of P2shAccount for TLC.                                  *)
(***************************************************************************)
EXTENDS P2shAccount, TLC

Symmetry == Permutations(PaymentIds) \cup Permutations(CoinIds)

=============================================================================
