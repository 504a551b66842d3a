------------------------- MODULE MCWalletApprovals -------------------------
(***************************************************************************)
(* Small instances of WalletApprovals for TLC.                              *)
(***************************************************************************)
EXTENDS WalletApprovals, TLC

Symmetry == Permutations(Origins) \cup Permutations(Requests) \cup Permutations(Windows)
              \cup Permutations(Panels) \cup Permutations(Ids)

=============================================================================
