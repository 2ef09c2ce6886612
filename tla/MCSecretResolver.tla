-------------------------- MODULE MCSecretResolver --------------------------
(* Instances of SecretResolver for TLC.  Two requests generate and write      *)
(* back: Fresh may overwrite, Kept may not and must persist.  Moved is an     *)
(* optional migration to the key of Fresh that may overwrite it.  Known has a *)
(* default.                                                                   *)
EXTENDS SecretResolver, TLC

CONSTANTS Fresh, Kept, Moved, Known, \* requests
          One, Two,                  \* keys
          Pair, Again, Dry           \* runs

RequestKeys ==
  [q \in Requests |-> IF q = Kept THEN Two ELSE One]

Orders ==
  [q \in Requests |->
     CASE q = Moved -> <<"external">>
       [] q = Known -> <<"hashicorp_vault">>
       [] q = Fresh -> <<"hashicorp_vault", "generated">>
       [] OTHER -> <<"hashicorp_vault", "external", "generated">>]

Plans ==
  [r \in Runs |->
     CASE r = Pair -> <<Kept, Known>>
       [] r = Again -> <<Moved, Kept>>
       [] r = Dry -> <<Fresh>>]

\* Fallback is on for one request, after absence, as by default.
DefaultFallback ==
  [q \in Requests |-> IF q = Kept THEN Absence ELSE {}]

\* Fallback that a request extends to a provider that gives no answer.
WideFallback ==
  [q \in Requests |-> IF q = Moved THEN {} ELSE Absence \cup Trouble]
=============================================================================
