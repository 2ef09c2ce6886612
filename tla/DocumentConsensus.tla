-------------------------- MODULE DocumentConsensus --------------------------
(* The promise of an immutable document: one value is chosen, once, and     *)
(* whoever decides decides for the chosen value.                            *)
CONSTANTS Tasks, Values, None

VARIABLES chosen, decided

Init == chosen = None /\ decided = [t \in Tasks |-> None]

Choose(v) ==
  /\ chosen = None
  /\ chosen' = v
  /\ UNCHANGED decided

Decide(t) ==
  /\ chosen # None
  /\ decided[t] = None
  /\ decided' = [decided EXCEPT ![t] = chosen]
  /\ UNCHANGED chosen

Next == (\E v \in Values : Choose(v)) \/ (\E t \in Tasks : Decide(t))

Spec == Init /\ [][Next]_<<chosen, decided>>
=============================================================================
