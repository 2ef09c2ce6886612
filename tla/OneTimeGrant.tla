---------------------------- MODULE OneTimeGrant ----------------------------
(***************************************************************************)
(* What the approval protocol promises, without clocks, signatures, files  *)
(* or crashes: a grant is spent by at most one actor, in one step, and is  *)
(* never returned.                                                         *)
(***************************************************************************)
CONSTANTS Tasks, Grants

VARIABLES actors,   \* the tasks that have mutated something
          spent     \* the grants they have used

Init == actors = {} /\ spent = {}

Act(t, g) ==
  /\ t \notin actors
  /\ g \notin spent
  /\ actors' = actors \cup {t}
  /\ spent' = spent \cup {g}

Next == \E t \in Tasks, g \in Grants : Act(t, g)

Spec == Init /\ [][Next]_<<actors, spent>>
=============================================================================
