------------------------ MODULE MCOnePasswordActions ------------------------
(* Instances of OnePasswordActions for TLC.  A request is its own kind; the *)
(* kinds that create SSH keys share a title.                                *)
EXTENDS OnePasswordActions, TLC

CONSTANTS Create, Document, Import, Verify, Consume, Permit, \* requests
          Key, Header, Password                              \* titles

RequestKinds ==
  [r \in Requests |->
     CASE r = Create -> "create" [] r = Document -> "document"
       [] r = Import -> "import" [] r = Verify -> "verify"
       [] r = Consume -> "consume" [] r = Permit -> "grant"]

RequestTitles ==
  [r \in Requests |->
     CASE r = Document -> Header [] r \in {Consume, Verify} -> Password
       [] OTHER -> Key]

Symmetric == Permutations(Tasks) \cup Permutations(ReplayIds)
             \cup Permutations(Dirs)
=============================================================================
