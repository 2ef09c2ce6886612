--------------------------- MODULE MCVaultDocument ---------------------------
(* Instances of VaultDocument for TLC. *)
EXTENDS VaultDocument, TLC

Symmetric == Permutations(Tasks) \cup Permutations(Docs)
=============================================================================
