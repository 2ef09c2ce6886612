----------------------------- MODULE MCApproval -----------------------------
(* Instances of Approval for TLC. *)
EXTENDS Approval, TLC

Symmetric == Permutations(Tasks) \cup Permutations(Requests)
             \cup Permutations(ReplayIds) \cup Permutations(Dirs)
=============================================================================
