---------------------------- MODULE MCCustodyRole ----------------------------
(* Instances of CustodyRole for TLC. *)
EXTENDS CustodyRole, TLC

Symmetric == Permutations(Runs) \cup Permutations(Exchanges)
=============================================================================
