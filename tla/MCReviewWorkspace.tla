--------------------------- MODULE MCReviewWorkspace ---------------------------
(* An instance of ReviewWorkspace for TLC: two heads that make the same       *)
(* change to the base.                                                        *)
EXTENDS ReviewWorkspace, TLC

CONSTANTS Change \* the diff of every revision

Diffs == [r \in Revisions |-> Change]

Symmetric == 
  UNION {Permutations(S) : S \in {Runs, Assets, Revisions, Contents}}
=============================================================================
