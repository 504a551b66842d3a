----------------------- MODULE MCInscriptionTransfer -----------------------
(***************************************************************************)
(* Small instances of InscriptionTransfer for TLC.                          *)
(***************************************************************************)
EXTENDS InscriptionTransfer, TLC

Symmetry == Permutations(Views) \cup Permutations(Commits)

=============================================================================
