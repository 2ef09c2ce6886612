--------------------------- MODULE MCHeaderCustody ---------------------------
(* Instances of HeaderCustody for TLC. *)
EXTENDS HeaderCustody, TLC

Symmetric == Permutations(Publishers) \cup Permutations(Readers)
=============================================================================
