------------------------ MODULE SecretResolverProofs ------------------------
(* Theorems about SecretResolver, for every set of runs, requests and keys.   *)
EXTENDS SecretResolver, TLAPS

\* What the role validates before it resolves anything.
LEMMA Policy ==
  /\ WriteBack \cup Migrate \subseteq Requests
  /\ \A q \in WriteBack : Order[q] # <<>> /\ Order[q][1] = "hashicorp_vault"
  /\ \A q \in Migrate : Order[q] = <<"external">> /\ FallbackOn[q] = {}
  /\ WriteBack \cap Migrate = {}
  /\ MustPersist \subseteq WriteBack
  /\ WithDefault \cap (WriteBack \cup Migrate) = {}
BY PolicyAssumption DEF ValidRequests

\* What the constants are, taken one by one.
LEMMA Constants ==
  /\ \A r \in Runs : Plan[r] \in Seq(Requests) /\ 1 \in 1..Len(Plan[r])
  /\ \A r \in Runs : \A n \in 1..Len(Plan[r]) : Plan[r][n] \in Requests
  /\ \A q \in Requests : KeyOf[q] \in Keys
  /\ \A q \in Requests : Order[q] \in Seq(Providers) /\ Len(Order[q]) \in Nat
  /\ \A q \in Requests : 1 \in 1..Len(Order[q]) + 1
  /\ \A n \in Nat, m \in Nat : n \in 1..m => n + 1 \in 1..m + 1
  /\ Empty \in Document
  /\ Clear \in [cas : Nat, data : Document]
<1>1. \A r \in Runs : Plan[r] \in Seq(Requests) /\ 1 \in 1..Len(Plan[r])
  <2>1. ASSUME NEW r \in Runs
        PROVE  Plan[r] \in Seq(Requests) /\ Plan[r] # <<>>
    BY ResolverAssumption
  <2>2. ASSUME NEW r \in Runs
        PROVE  1 \in 1..Len(Plan[r])
    BY ONLY <2>1, r \in Runs
  <2>3. QED
    BY <2>1, <2>2
<1>2. \A r \in Runs : \A n \in 1..Len(Plan[r]) : Plan[r][n] \in Requests
  BY <1>1
<1>3. \A q \in Requests : KeyOf[q] \in Keys
  BY ResolverAssumption
<1>4. \A q \in Requests : Order[q] \in Seq(Providers) /\ Len(Order[q]) \in Nat
  BY ResolverAssumption
<1>5. \A q \in Requests : 1 \in 1..Len(Order[q]) + 1
  BY <1>4
<1>6. \A n \in Nat, m \in Nat : n \in 1..m => n + 1 \in 1..m + 1
  OBVIOUS
<1>7. Empty \in Document
  BY DEF Empty, Document
<1>8. Clear \in [cas : Nat, data : Document]
  BY <1>7 DEF Clear
<1>9. QED
  BY <1>1, <1>2, <1>3, <1>4, <1>5, <1>6, <1>7, <1>8

\* The request a run is at, and its key.
LEMMA Current ==
  ASSUME TypeOK, NEW r \in Runs
  PROVE  Request(r) \in Requests /\ Key(r) \in Keys /\ Visible \in Document
  BY Constants DEF TypeOK, Placed, Request, Key, Visible

\* A run that moves to a request begins with its first provider.
LEMMA Placement ==
  ASSUME TypeOK, NEW r \in Runs, NEW n \in 1..Len(Plan[r])
  PROVE  /\ [at EXCEPT ![r] = n] \in [Runs -> Nat]
         /\ [turn EXCEPT ![r] = 1] \in [Runs -> Nat]
         /\ \A s \in Runs :
              Placed([at EXCEPT ![r] = n], [turn EXCEPT ![r] = 1], s)
<1>1. Plan[r][n] \in Requests
  BY Constants
<1>2. 1 \in 1..Len(Order[Plan[r][n]]) + 1
  BY <1>1, Constants
<1>3. n \in Nat
  OBVIOUS
<1>4. \A s \in Runs : Placed([at EXCEPT ![r] = n], [turn EXCEPT ![r] = 1], s)
  BY <1>2, <1>3 DEF TypeOK, Placed
<1>5. QED
  BY <1>3, <1>4 DEF TypeOK

\* A run that goes on to its next provider is still within the order.
LEMMA NextTurn ==
  ASSUME TypeOK, NEW r \in Runs, NEW p, AtProvider(r, p)
  PROVE  /\ [turn EXCEPT ![r] = @ + 1] \in [Runs -> Nat]
         /\ \A s \in Runs : Placed(at, [turn EXCEPT ![r] = @ + 1], s)
<1>1. Request(r) \in Requests
  BY Current
<1>2. Len(Order[Request(r)]) \in Nat
  BY <1>1, Constants
<1>3. turn[r] \in 1..Len(Order[Request(r)])
  BY <1>2 DEF TypeOK, Placed, AtProvider, Request
<1>4. turn[r] + 1 \in 1..Len(Order[Plan[r][at[r]]]) + 1
  BY <1>2, <1>3 DEF Request
<1>5. \A s \in Runs : Placed(at, [turn EXCEPT ![r] = @ + 1], s)
  BY <1>4 DEF TypeOK, Placed
<1>6. \A s \in Runs : turn[s] \in Nat /\ turn[s] + 1 \in Nat
  BY DEF TypeOK
<1>7. QED
  BY <1>5, <1>6 DEF TypeOK

\* The parts of the state that belong to the runs keep their type when a run
\* ends, goes on to its next request, resolves a value or records a failure.
Control ==
  /\ phase \in [Runs -> Phases]
  /\ at \in [Runs -> Nat] /\ turn \in [Runs -> Nat]
  /\ \A r \in Runs : Placed(at, turn, r)
  /\ failures \in [Runs -> Seq(Absence \cup Trouble)]
  /\ value \in [Runs -> Values \cup {Nothing}]
  /\ snap \in [Runs -> [cas : Nat, data : Document]]

\* A run that ends has the type of its initial state.
LEMMA FinishTyped ==
  ASSUME TypeOK, NEW r \in Runs, NEW p \in Phases, Finish(r, p)
  PROVE  Control'
<1>1. 1 \in 1..Len(Plan[r])
  BY Constants
<1>2. \A s \in Runs : Placed(at', turn', s)
  BY <1>1, Placement DEF Finish
<1>3. at' \in [Runs -> Nat] /\ turn' \in [Runs -> Nat]
  BY DEF Finish, TypeOK
<1>4. phase' \in [Runs -> Phases]
  BY DEF Finish, Goto, TypeOK
<1>5. /\ failures' \in [Runs -> Seq(Absence \cup Trouble)]
      /\ value' \in [Runs -> Values \cup {Nothing}]
  BY DEF Finish, TypeOK
<1>6. snap' \in [Runs -> [cas : Nat, data : Document]]
  BY Constants DEF Finish, TypeOK
<1>7. QED
  BY <1>2, <1>3, <1>4, <1>5, <1>6 DEF Control, Placed

\* The next request begins like the first.
LEMMA NextRequestTyped ==
  ASSUME TypeOK, NEW r \in Runs, NextRequest(r)
  PROVE  Control'
<1>1. CASE at[r] = Len(Plan[r])
  BY <1>1, FinishTyped DEF NextRequest, Phases
<1>2. CASE at[r] # Len(Plan[r])
  <2>1. at[r] + 1 \in 1..Len(Plan[r])
    BY <1>2, Constants DEF TypeOK, Placed
  <2> DEFINE n == at[r] + 1
  <2>2. n \in 1..Len(Plan[r])
    BY <2>1
  <2>3. at' = [at EXCEPT ![r] = n] /\ turn' = [turn EXCEPT ![r] = 1]
    BY <1>2 DEF NextRequest
  <2> HIDE DEF n
  <2>4. \A s \in Runs : Placed(at', turn', s)
    BY <2>2, <2>3, Placement
  <2>5. at' \in [Runs -> Nat] /\ turn' \in [Runs -> Nat]
    BY <2>2, <2>3, Placement
  <2>6. phase' \in [Runs -> Phases]
    BY <1>2 DEF NextRequest, Goto, Phases, TypeOK
  <2>7. /\ failures' = [failures EXCEPT ![r] = <<>>]
        /\ value' = [value EXCEPT ![r] = Nothing]
    BY <1>2 DEF NextRequest
  <2>8. /\ failures' \in [Runs -> Seq(Absence \cup Trouble)]
        /\ value' \in [Runs -> Values \cup {Nothing}]
    BY <2>7 DEF TypeOK
  <2>9. snap' \in [Runs -> [cas : Nat, data : Document]]
    BY <1>2, Constants DEF NextRequest, TypeOK
  <2>10. QED
    BY <2>4, <2>5, <2>6, <2>8, <2>9 DEF Control, Placed
<1>3. QED
  BY <1>1, <1>2

\* A resolved value goes on to be persisted or accepted.
LEMMA ResolveTyped ==
  ASSUME TypeOK, NEW r \in Runs, NEW v \in Values, Resolve(r, v)
  PROVE  TypeOK'
<1>1. phase' \in [Runs -> Phases]
  BY DEF Resolve, Goto, Phases, TypeOK
<1>2. value' \in [Runs -> Values \cup {Nothing}]
  BY DEF Resolve, TypeOK
<1>3. UNCHANGED <<document, inflight, edits, at, turn, failures, snap, results,
                  before>>
  BY DEF Resolve
<1>4. QED
  BY <1>1, <1>2, <1>3 DEF TypeOK, document, Placed

\* A failed attempt is recorded, and the next provider is tried.
LEMMA RecordTyped ==
  ASSUME TypeOK, NEW r \in Runs, NEW c \in Absence \cup Trouble, NEW p,
         AtProvider(r, p), RecordFailure(r, c)
  PROVE  TypeOK'
<1>1. failures' \in [Runs -> Seq(Absence \cup Trouble)]
  BY DEF RecordFailure, TypeOK
<1>2. turn' \in [Runs -> Nat] /\ \A s \in Runs : Placed(at, turn', s)
  BY NextTurn DEF RecordFailure
<1>3. UNCHANGED <<document, inflight, edits, phase, at, value, snap, results,
                  before>>
  BY DEF RecordFailure
<1>4. QED
  BY <1>1, <1>2, <1>3 DEF TypeOK, document, Placed

\* Where a value comes from, and when a document holds one.
LEMMA ValuesOfRuns ==
  ASSUME TypeOK, NEW r \in Runs
  PROVE  /\ Generated(r) \in Values
         /\ \A o \in {External, Default} : <<o, Request(r)>> \in Values
         /\ Visible[Key(r)] # Nothing => Visible[Key(r)] \in Values
  BY Current DEF Generated, Values, Document

\* A written document is a document.
LEMMA NewDocumentTyped ==
  ASSUME TypeOK, NEW r \in Runs
  PROVE  NewDocument(r) \in Document
  BY DEF TypeOK, NewDocument, Document

\* A write that is served leaves the document or replaces it.
LEMMA ServeTyped ==
  ASSUME TypeOK, NEW w \in inflight, Serve(w)
  PROVE  TypeOK'
<1>1. /\ w \in [run : Runs, cas : Nat, data : Document]
      /\ inflight' \subseteq [run : Runs, cas : Nat, data : Document]
  BY DEF Serve, TypeOK
<1>2. PICK p \in {"accept", "failed"} : Answered(w, p)
  BY DEF Serve, Unchanged, Applied, Rejected
<1>3. phase' \in [Runs -> Phases]
  BY <1>1, <1>2 DEF Answered, Goto, Phases, TypeOK
<1>4. \/ UNCHANGED document
      \/ version' = version + 1 /\ data' = w.data /\ live' = TRUE
  BY DEF Serve, Unchanged, Applied, Rejected
<1>5. data' \in Document /\ version' \in Nat /\ live' \in BOOLEAN
  <2>1. CASE UNCHANGED document
    BY <2>1 DEF TypeOK, document
  <2>2. CASE version' = version + 1 /\ data' = w.data /\ live' = TRUE
    BY <1>1, <2>2 DEF TypeOK
  <2>3. QED
    BY <1>4, <2>1, <2>2
<1>6. UNCHANGED <<edits, at, turn, failures, value, snap, results, before>>
  BY DEF Serve
<1>7. QED
  BY <1>1, <1>3, <1>5, <1>6 DEF TypeOK, Placed

\* Every step keeps the types.
LEMMA TypeStep ==
  ASSUME TypeOK, [Next]_vars
  PROVE  TypeOK'
<1>1. ASSUME NEW r \in Runs, Start(r)
      PROVE  TypeOK'
  <2>1. phase' \in [Runs -> Phases] /\ before' \in [Runs -> SUBSET Keys]
    BY <1>1 DEF Start, Goto, Phases, TypeOK
  <2>2. QED
    BY <1>1, <2>1 DEF Start, TypeOK, document, Placed
<1>2. ASSUME NEW r \in Runs, Skip(r)
      PROVE  TypeOK'
  <2>1. turn' \in [Runs -> Nat] /\ \A s \in Runs : Placed(at, turn', s)
    BY <1>2, NextTurn DEF Skip
  <2>2. QED
    BY <1>2, <2>1 DEF Skip, TypeOK, document, Placed
<1>3. ASSUME NEW r \in Runs, ReadVault(r)
      PROVE  TypeOK'
  <2>1. AtProvider(r, "hashicorp_vault")
    BY <1>3 DEF ReadVault, Attempts
  <2>2. CASE Visible[Key(r)] # Nothing
    BY <1>3, <2>2, ValuesOfRuns, ResolveTyped DEF ReadVault
  <2>3. CASE Visible[Key(r)] = Nothing
    <3>1. PICK c \in Absence \cup Trouble : RecordFailure(r, c)
      BY <1>3, <2>3 DEF ReadVault, Absence
    <3>2. QED
      BY <2>1, <3>1, RecordTyped
  <2>4. QED
    BY <2>2, <2>3
<1>4. ASSUME NEW r \in Runs, ReadExternal(r)
      PROVE  TypeOK'
  <2>1. AtProvider(r, "external")
    BY <1>4 DEF ReadExternal, Attempts
  <2>2. CASE Resolve(r, <<External, Request(r)>>)
    BY <2>2, ValuesOfRuns, ResolveTyped
  <2>3. ASSUME NEW c \in Absence, RecordFailure(r, c)
        PROVE  TypeOK'
    BY <2>1, <2>3, RecordTyped
  <2>4. QED
    BY <1>4, <2>2, <2>3 DEF ReadExternal
<1>5. ASSUME NEW r \in Runs, NoAnswer(r)
      PROVE  TypeOK'
  <2>1. PICK p \in Providers, c \in Trouble :
          AtProvider(r, p) /\ RecordFailure(r, c)
    BY <1>5 DEF NoAnswer, Attempts, Providers
  <2>2. QED
    BY <2>1, RecordTyped
<1>6. ASSUME NEW r \in Runs, Generate(r)
      PROVE  TypeOK'
  BY <1>6, ValuesOfRuns, ResolveTyped DEF Generate
<1>7. ASSUME NEW r \in Runs, UseDefault(r)
      PROVE  TypeOK'
  BY <1>7, ValuesOfRuns, ResolveTyped DEF UseDefault
<1>8. ASSUME NEW r \in Runs, LeaveOut(r)
      PROVE  TypeOK'
  BY <1>8, NextRequestTyped DEF LeaveOut, TypeOK, Control, document, Placed
<1>9. ASSUME NEW r \in Runs, Accept(r)
      PROVE  TypeOK'
  <2>1. Control'
    BY <1>9, NextRequestTyped DEF Accept
  <2>2. [results[r] EXCEPT ![Request(r)] = value[r]]
          \in [Requests -> Values \cup {Nothing}]
    BY DEF TypeOK
  <2>3. results' \in [Runs -> [Requests -> Values \cup {Nothing}]]
    BY <1>9, <2>2 DEF Accept, TypeOK
  <2>4. QED
    BY <1>9, <2>1, <2>3 DEF Accept, TypeOK, Control, document, Placed
<1>10. ASSUME NEW r \in Runs, ReadTarget(r)
       PROVE  TypeOK'
  <2>1. [cas |-> IF live THEN version ELSE 0, data |-> Visible]
          \in [cas : Nat, data : Document]
    BY Current DEF TypeOK
  <2>2. snap' \in [Runs -> [cas : Nat, data : Document]]
    BY <1>10, <2>1 DEF ReadTarget, TypeOK
  <2>3. phase' \in [Runs -> Phases]
    BY <1>10 DEF ReadTarget, Goto, Phases, TypeOK
  <2>4. UNCHANGED <<document, inflight, edits, at, turn, failures, value,
                    results, before>>
    BY <1>10 DEF ReadTarget
  <2>5. QED
    BY <2>2, <2>3, <2>4 DEF TypeOK, document, Placed
<1>11. ASSUME NEW r \in Runs, SendWrite(r)
       PROVE  TypeOK'
  <2>1. [run |-> r, cas |-> snap[r].cas, data |-> NewDocument(r)]
          \in [run : Runs, cas : Nat, data : Document]
    BY NewDocumentTyped DEF TypeOK
  <2>2. inflight' \subseteq [run : Runs, cas : Nat, data : Document]
    BY <1>11, <2>1 DEF SendWrite, TypeOK
  <2>3. phase' \in [Runs -> Phases]
    BY <1>11 DEF SendWrite, Goto, Phases, TypeOK
  <2>4. UNCHANGED <<document, edits, at, turn, failures, value, snap, results,
                    before>>
    BY <1>11 DEF SendWrite
  <2>5. QED
    BY <2>2, <2>3, <2>4 DEF TypeOK, document, Placed
<1>12. ASSUME NEW r \in Runs, Fail(r)
       PROVE  TypeOK'
  <2>1. Control'
    BY <1>12, FinishTyped DEF Fail, Phases
  <2>2. /\ results' \in [Runs -> [Requests -> Values \cup {Nothing}]]
        /\ before' \in [Runs -> SUBSET Keys]
    BY <1>12 DEF Fail, TypeOK
  <2>3. QED
    BY <1>12, <2>1, <2>2 DEF Fail, TypeOK, Control, document, Placed
<1>13. ASSUME NEW w \in inflight, Lose(w)
       PROVE  TypeOK'
  BY <1>13 DEF Lose, TypeOK, document, run, Placed
<1>14. ASSUME NEW k \in Keys, EditKey(k)
       PROVE  TypeOK'
  <2>1. edits \in 0..MaxEdits /\ edits + 1 \in 0..MaxEdits
    BY <1>14, ResolverAssumption DEF EditKey, TypeOK
  <2>2. <<Operator, edits>> \in Values
    BY <2>1 DEF Values
  <2>3. data' \in Document /\ version' \in Nat /\ live' \in BOOLEAN
    BY <1>14, <2>2, Constants DEF EditKey, TypeOK, Visible, Document
  <2>4. edits' \in 0..MaxEdits /\ UNCHANGED <<inflight, run>>
    BY <1>14, <2>1 DEF EditKey
  <2>5. QED
    BY <2>3, <2>4 DEF TypeOK, run, Placed
<1>15. CASE DeleteOrRestore
  BY <1>15, ResolverAssumption DEF DeleteOrRestore, TypeOK, run, Placed
<1>16. CASE UNCHANGED vars
  BY <1>16 DEF vars, TypeOK, document, run, Placed
<1>17. QED
  BY <1>1, <1>2, <1>3, <1>4, <1>5, <1>6, <1>7, <1>8, <1>9, <1>10, <1>11,
     <1>12, <1>13, <1>14, <1>15, <1>16, ServeTyped
  DEF Next, Resolution, Persistence, Surroundings

\* The initial state has the types.
LEMMA TypeInit ==
  ASSUME Init
  PROVE  TypeOK
<1>1. <<>> \in Seq(Absence \cup Trouble)
  OBVIOUS
<1>2. failures \in [Runs -> Seq(Absence \cup Trouble)]
  BY <1>1 DEF Init
<1>3. \A r \in Runs : Placed(at, turn, r)
  BY Constants DEF Init, Placed
<1>4. data \in Document /\ version \in Nat /\ live \in BOOLEAN
  BY Constants DEF Init
<1>5. snap \in [Runs -> [cas : Nat, data : Document]]
  BY Constants DEF Init
<1>6. /\ inflight \subseteq [run : Runs, cas : Nat, data : Document]
      /\ edits \in 0..MaxEdits
      /\ phase \in [Runs -> Phases]
      /\ at \in [Runs -> Nat] /\ turn \in [Runs -> Nat]
      /\ value \in [Runs -> Values \cup {Nothing}]
      /\ before \in [Runs -> SUBSET Keys]
  BY ResolverAssumption DEF Init, Phases
<1>7. results \in [Runs -> [Requests -> Values \cup {Nothing}]]
  BY DEF Init
<1>8. QED
  BY <1>2, <1>3, <1>4, <1>5, <1>6, <1>7 DEF TypeOK

\* Every reachable state has the types of TypeOK: a run is always at one of
\* its requests and within the provider order of that request.
THEOREM TypeCorrect == Spec => []TypeOK
<1>1. Init => TypeOK
  BY TypeInit
<1>2. TypeOK /\ [Next]_vars => TypeOK'
  BY TypeStep
<1>3. QED
  BY <1>1, <1>2, PTL DEF Spec

-----------------------------------------------------------------------------
(***************************************************************************)
(* Whole documents                                                         *)
(***************************************************************************)

\* A run that holds a value, and a run that is about to write it.
InHand == {"persist", "write", "sent", "accept"}

\* By policy the value of the key may be replaced.
Replaceable(k) == data[k] = Nothing \/ ~Fixed(k)

\* What a run is about to write is built on the latest version, if it can
\* still be written.
SnapFits(r) ==
  /\ snap[r].cas <= version
  /\ snap[r].cas = version => snap[r].data = data /\ Replaceable(Key(r))

\* What a write puts into the document differs from it in one key.
Extends(d) ==
  \E k \in Keys :
    /\ \A j \in Keys \ {k} : d[j] = data[j]
    /\ d[k] # Nothing /\ Replaceable(k)

\* Nothing is in a document that was never written.
Unwritten == version = 0 => data = Empty /\ ~live

\* A run holds a value until it is accepted.
HandsFull == \A r \in Runs : phase[r] \in InHand => value[r] # Nothing

SnapsFit == \A r \in Runs : phase[r] = "write" => SnapFits(r)

WritesFit ==
  \A w \in inflight :
    w.cas <= version /\ (w.cas = version => Extends(w.data))

\* What a run that ends or goes on to its next request leaves alone.
Leaves(r) ==
  /\ phase' \in [Runs -> Phases]
  /\ phase'[r] \in {"attempt", "published", "failed"}
  /\ \A s \in Runs \ {r} : /\ phase'[s] = phase[s] /\ at'[s] = at[s]
                           /\ value'[s] = value[s] /\ snap'[s] = snap[s]

\* A run that ends leaves the others alone.
LEMMA Leaving ==
  ASSUME TypeOK, NEW r \in Runs, NEW p \in {"published", "failed"}, Finish(r, p)
  PROVE  Leaves(r)
<1>1. phase' \in [Runs -> Phases]
  BY DEF Finish, Goto, TypeOK, Phases
<1>2. QED
  BY <1>1 DEF Finish, Goto, Leaves, TypeOK

\* And so does a run that goes on to its next request.
LEMMA MovesOn ==
  ASSUME TypeOK, NEW r \in Runs, NextRequest(r)
  PROVE  Leaves(r)
<1>1. CASE at[r] = Len(Plan[r])
  BY <1>1, Leaving DEF NextRequest
<1>2. CASE at[r] # Len(Plan[r])
  <2>1. /\ Goto(r, "attempt")
        /\ at' = [at EXCEPT ![r] = at[r] + 1]
        /\ value' = [value EXCEPT ![r] = Nothing]
        /\ snap' = [snap EXCEPT ![r] = Clear]
    BY <1>2 DEF NextRequest
  <2>2. QED
    BY <2>1 DEF Goto, Leaves, TypeOK, Phases
<1>3. QED
  BY <1>1, <1>2

\* A value that a provider gives is a value.
LEMMA Given ==
  ASSUME TypeOK, NEW r \in Runs
  PROVE  /\ Generated(r) # Nothing
         /\ \A o \in {External, Default} : <<o, Request(r)>> # Nothing
  BY ValuesOfRuns, ResolverAssumption

\* Only an operator or a write that is applied changes the document.
LEMMA ServeOutcome ==
  ASSUME TypeOK, NEW w \in inflight, Serve(w)
  PROVE  \/ UNCHANGED document
         \/ /\ w.cas = version /\ version' = version + 1
            /\ data' = w.data /\ live' = TRUE
  BY DEF Serve, Unchanged, Applied, Rejected

\* The run of a write that is served moves only from waiting to an outcome.
LEMMA ServeAnswer ==
  ASSUME TypeOK, NEW w \in inflight, Serve(w)
  PROVE  /\ \A r \in Runs : phase'[r] = "accept" /\ phase[r] # "accept" =>
              phase[r] = "sent" /\ r = w.run
         /\ \A r \in Runs : phase'[r] \in InHand => phase[r] \in InHand
         /\ \A r \in Runs : phase'[r] \in {"write", "sent"} =>
              phase'[r] = phase[r]
         /\ \A r \in Runs : phase[r] # "sent" => phase'[r] = phase[r]
         /\ phase[w.run] = "sent" => phase'[w.run] \in {"accept", "failed"}
<1>1. PICK p \in {"accept", "failed"} : Answered(w, p)
  BY DEF Serve, Unchanged, Applied, Rejected
<1>2. w.run \in Runs
  BY DEF TypeOK
<1>3. QED
  BY <1>1, <1>2 DEF Answered, Goto, InHand, TypeOK

\* The document is written with versions from 1.
LEMMA UnwrittenStep ==
  ASSUME TypeOK, Unwritten, [Next]_vars
  PROVE  Unwritten'
<1> USE DEF TypeOK, Unwritten, document, run
<1>1. ASSUME NEW r \in Runs, Start(r)
      PROVE  Unwritten'
  BY <1>1 DEF Start
<1>2. ASSUME NEW r \in Runs, Skip(r)
      PROVE  Unwritten'
  BY <1>2 DEF Skip
<1>3. ASSUME NEW r \in Runs, ReadVault(r)
      PROVE  Unwritten'
  BY <1>3 DEF ReadVault, Resolve, RecordFailure
<1>4. ASSUME NEW r \in Runs, ReadExternal(r)
      PROVE  Unwritten'
  BY <1>4 DEF ReadExternal, Resolve, RecordFailure
<1>5. ASSUME NEW r \in Runs, NoAnswer(r)
      PROVE  Unwritten'
  BY <1>5 DEF NoAnswer, RecordFailure
<1>6. ASSUME NEW r \in Runs, Generate(r)
      PROVE  Unwritten'
  BY <1>6 DEF Generate, Resolve
<1>7. ASSUME NEW r \in Runs, UseDefault(r)
      PROVE  Unwritten'
  BY <1>7 DEF UseDefault, Resolve
<1>8. ASSUME NEW r \in Runs, LeaveOut(r)
      PROVE  Unwritten'
  BY <1>8 DEF LeaveOut
<1>9. ASSUME NEW r \in Runs, Accept(r)
      PROVE  Unwritten'
  BY <1>9 DEF Accept
<1>10. ASSUME NEW r \in Runs, ReadTarget(r)
       PROVE  Unwritten'
  BY <1>10 DEF ReadTarget
<1>11. ASSUME NEW r \in Runs, SendWrite(r)
       PROVE  Unwritten'
  BY <1>11 DEF SendWrite
<1>12. ASSUME NEW r \in Runs, Fail(r)
       PROVE  Unwritten'
  BY <1>12 DEF Fail
<1>13. ASSUME NEW w \in inflight, Serve(w)
       PROVE  Unwritten'
  <2>1. CASE UNCHANGED document
    BY <2>1
  <2>2. CASE version' = version + 1
    BY <2>2
  <2>3. QED
    BY <1>13, <2>1, <2>2, ServeOutcome
<1>14. ASSUME NEW w \in inflight, Lose(w)
       PROVE  Unwritten'
  BY <1>14 DEF Lose
<1>15. ASSUME NEW k \in Keys, EditKey(k)
       PROVE  Unwritten'
  BY <1>15 DEF EditKey
<1>16. CASE DeleteOrRestore
  BY <1>16 DEF DeleteOrRestore
<1>17. CASE UNCHANGED vars
  BY <1>17 DEF vars
<1>18. QED
  BY <1>1, <1>2, <1>3, <1>4, <1>5, <1>6, <1>7, <1>8, <1>9, <1>10,
     <1>11, <1>12, <1>13, <1>14, <1>15, <1>16, <1>17
  DEF Next, Resolution, Persistence, Surroundings

\* A run keeps the value it has resolved until it is accepted.
LEMMA HandsFullStep ==
  ASSUME TypeOK, HandsFull, [Next]_vars
  PROVE  HandsFull'
<1> USE DEF TypeOK, HandsFull, InHand, Goto
<1>1. ASSUME NEW r \in Runs, Start(r)
      PROVE  HandsFull'
  BY <1>1 DEF Start
<1>2. ASSUME NEW r \in Runs, Skip(r)
      PROVE  HandsFull'
  BY <1>2 DEF Skip
<1>3. ASSUME NEW r \in Runs, ReadVault(r)
      PROVE  HandsFull'
  BY <1>3, ValuesOfRuns DEF ReadVault, Resolve, RecordFailure
<1>4. ASSUME NEW r \in Runs, ReadExternal(r)
      PROVE  HandsFull'
  BY <1>4, Given DEF ReadExternal, Resolve, RecordFailure
<1>5. ASSUME NEW r \in Runs, NoAnswer(r)
      PROVE  HandsFull'
  BY <1>5 DEF NoAnswer, RecordFailure
<1>6. ASSUME NEW r \in Runs, Generate(r)
      PROVE  HandsFull'
  BY <1>6, Given DEF Generate, Resolve
<1>7. ASSUME NEW r \in Runs, UseDefault(r)
      PROVE  HandsFull'
  BY <1>7, Given DEF UseDefault, Resolve
<1>8. ASSUME NEW r \in Runs, LeaveOut(r)
      PROVE  HandsFull'
  BY <1>8, MovesOn, Leaving DEF Leaves, LeaveOut
<1>9. ASSUME NEW r \in Runs, Accept(r)
      PROVE  HandsFull'
  BY <1>9, MovesOn, Leaving DEF Leaves, Accept
<1>10. ASSUME NEW r \in Runs, ReadTarget(r)
       PROVE  HandsFull'
  BY <1>10 DEF ReadTarget
<1>11. ASSUME NEW r \in Runs, SendWrite(r)
       PROVE  HandsFull'
  BY <1>11 DEF SendWrite
<1>12. ASSUME NEW r \in Runs, Fail(r)
       PROVE  HandsFull'
  BY <1>12, Leaving DEF Leaves, Fail
<1>13. ASSUME NEW w \in inflight, Serve(w)
       PROVE  HandsFull'
  BY <1>13, ServeAnswer DEF Serve
<1>14. ASSUME NEW w \in inflight, Lose(w)
       PROVE  HandsFull'
  BY <1>14 DEF Lose, run
<1>15. ASSUME NEW k \in Keys, EditKey(k)
       PROVE  HandsFull'
  BY <1>15 DEF EditKey, run
<1>16. CASE DeleteOrRestore
  BY <1>16 DEF DeleteOrRestore, run
<1>17. CASE UNCHANGED vars
  BY <1>17 DEF vars, run
<1>18. QED
  BY <1>1, <1>2, <1>3, <1>4, <1>5, <1>6, <1>7, <1>8, <1>9, <1>10,
     <1>11, <1>12, <1>13, <1>14, <1>15, <1>16, <1>17
  DEF Next, Resolution, Persistence, Surroundings

\* What a read of the document shows is its latest version, if that can be
\* written with check-and-set.
LEMMA ReadIsFresh ==
  ASSUME TypeOK, Unwritten, NEW r \in Runs, ReadTarget(r), phase'[r] = "write"
  PROVE  SnapFits(r)' /\ Request(r) = Request(r)'
<1>1. /\ snap'[r].cas = (IF live THEN version ELSE 0)
      /\ snap'[r].data = Visible
  BY DEF ReadTarget, TypeOK
<1>2. MayWrite(r) /\ UNCHANGED <<document, at>>
  BY DEF ReadTarget, Goto, TypeOK
<1>3. Key(r) \in Keys /\ Request(r) \in Requests
  BY Current
<1>4. version \in Nat /\ 0 <= version /\ version <= version
  BY DEF TypeOK
<1>5. snap'[r].cas <= version
  BY <1>1, <1>4
<1>6. Visible[Key(r)] = Nothing \/ ~Fixed(Key(r))
  BY <1>2, <1>3 DEF MayWrite, Fixed, Key
<1>7. ASSUME snap'[r].cas = version
      PROVE  Visible = data
  BY <1>1, <1>7 DEF Unwritten, Visible
<1>8. UNCHANGED Key(r) /\ UNCHANGED Request(r)
  BY <1>2 DEF Key, Request
<1>9. UNCHANGED data /\ UNCHANGED version
  BY <1>2 DEF document
<1>10. QED
  BY <1>1, <1>5, <1>6, <1>7, <1>8, <1>9 DEF SnapFits, Replaceable

\* A snapshot that fits goes on fitting while the run keeps it.
LEMMA SnapKept ==
  ASSUME TypeOK, NEW s \in Runs, SnapFits(s),
         UNCHANGED snap[s], UNCHANGED at[s],
         \/ UNCHANGED data /\ UNCHANGED version
         \/ version' = version + 1
  PROVE  SnapFits(s)'
<1>1. UNCHANGED Key(s)
  BY DEF Key, Request
<1>2. snap[s].cas \in Nat /\ version \in Nat
  BY DEF TypeOK
<1>3. CASE UNCHANGED data /\ UNCHANGED version
  BY <1>1, <1>3 DEF SnapFits, Replaceable
<1>4. CASE version' = version + 1
  BY <1>2, <1>4 DEF SnapFits
<1>5. QED
  BY <1>3, <1>4

\* No snapshot outlives the version it was read from unnoticed.
LEMMA SnapsFitStep ==
  ASSUME TypeOK, Unwritten, SnapsFit, [Next]_vars
  PROVE  SnapsFit'
<1> USE DEF TypeOK, SnapsFit, Goto, document
<1>1. ASSUME NEW r \in Runs, Start(r)
      PROVE  SnapsFit'
  BY <1>1, SnapKept DEF Start
<1>2. ASSUME NEW r \in Runs, Skip(r)
      PROVE  SnapsFit'
  BY <1>2, SnapKept DEF Skip
<1>3. ASSUME NEW r \in Runs, ReadVault(r)
      PROVE  SnapsFit'
  BY <1>3, SnapKept DEF ReadVault, Resolve, RecordFailure
<1>4. ASSUME NEW r \in Runs, ReadExternal(r)
      PROVE  SnapsFit'
  BY <1>4, SnapKept DEF ReadExternal, Resolve, RecordFailure
<1>5. ASSUME NEW r \in Runs, NoAnswer(r)
      PROVE  SnapsFit'
  BY <1>5, SnapKept DEF NoAnswer, RecordFailure
<1>6. ASSUME NEW r \in Runs, Generate(r)
      PROVE  SnapsFit'
  BY <1>6, SnapKept DEF Generate, Resolve
<1>7. ASSUME NEW r \in Runs, UseDefault(r)
      PROVE  SnapsFit'
  BY <1>7, SnapKept DEF UseDefault, Resolve
<1>8. ASSUME NEW r \in Runs, LeaveOut(r)
      PROVE  SnapsFit'
  BY <1>8, MovesOn, SnapKept DEF LeaveOut, Leaves
<1>9. ASSUME NEW r \in Runs, Accept(r)
      PROVE  SnapsFit'
  BY <1>9, MovesOn, SnapKept DEF Accept, Leaves
<1>10. ASSUME NEW r \in Runs, ReadTarget(r)
       PROVE  SnapsFit'
  <2>1. ASSUME NEW s \in Runs, phase'[s] = "write", s # r
        PROVE  SnapFits(s)'
    BY <1>10, <2>1, SnapKept DEF ReadTarget
  <2>2. QED
    BY <1>10, <2>1, ReadIsFresh
<1>11. ASSUME NEW r \in Runs, SendWrite(r)
       PROVE  SnapsFit'
  BY <1>11, SnapKept DEF SendWrite
<1>12. ASSUME NEW r \in Runs, Fail(r)
       PROVE  SnapsFit'
  BY <1>12, Leaving, SnapKept DEF Fail, Leaves
<1>13. ASSUME NEW w \in inflight, Serve(w)
       PROVE  SnapsFit'
  <2>1. ASSUME NEW s \in Runs, phase'[s] = "write"
        PROVE  phase[s] = "write" /\ UNCHANGED snap[s] /\ UNCHANGED at[s]
    BY <1>13, <2>1, ServeAnswer DEF Serve
  <2>2. QED
    BY <1>13, <2>1, SnapKept, ServeOutcome
<1>14. ASSUME NEW w \in inflight, Lose(w)
       PROVE  SnapsFit'
  BY <1>14, SnapKept DEF Lose, run
<1>15. ASSUME NEW k \in Keys, EditKey(k)
       PROVE  SnapsFit'
  BY <1>15, SnapKept DEF EditKey, run
<1>16. CASE DeleteOrRestore
  BY <1>16, SnapKept DEF DeleteOrRestore, run
<1>17. CASE UNCHANGED vars
  BY <1>17, SnapKept DEF vars, run
<1>18. QED
  BY <1>1, <1>2, <1>3, <1>4, <1>5, <1>6, <1>7, <1>8, <1>9, <1>10,
     <1>11, <1>12, <1>13, <1>14, <1>15, <1>16, <1>17
  DEF Next, Resolution, Persistence, Surroundings

\* A document that extends the latest version goes on doing so.
LEMMA ExtendsKept ==
  ASSUME TypeOK, NEW w \in inflight,
         w.cas <= version /\ (w.cas = version => Extends(w.data)),
         \/ UNCHANGED data /\ UNCHANGED version
         \/ version' = version + 1
  PROVE  w.cas <= version' /\ (w.cas = version' => Extends(w.data)')
<1>1. w.cas \in Nat /\ version \in Nat
  BY DEF TypeOK
<1>2. CASE UNCHANGED data /\ UNCHANGED version
  BY <1>2 DEF Extends, Replaceable
<1>3. CASE version' = version + 1
  BY <1>1, <1>3
<1>4. QED
  BY <1>2, <1>3

\* What a run sends extends the document its snapshot shows.
LEMMA SentFits ==
  ASSUME TypeOK, SnapsFit, HandsFull, NEW r \in Runs, phase[r] = "write"
  PROVE  /\ snap[r].cas <= version
         /\ snap[r].cas = version => Extends(NewDocument(r))
<1>1. SnapFits(r) /\ value[r] # Nothing
  BY DEF SnapsFit, HandsFull, InHand
<1>2. Key(r) \in Keys
  BY Current
<1>3. snap[r].data \in Document
  BY DEF TypeOK
<1>4. /\ NewDocument(r)[Key(r)] = value[r]
      /\ \A j \in Keys \ {Key(r)} : NewDocument(r)[j] = snap[r].data[j]
  BY <1>2, <1>3 DEF NewDocument, Document
<1>5. QED
  BY <1>1, <1>2, <1>4 DEF SnapFits, Extends

\* Every write in flight extends the latest version, or will be rejected.
LEMMA WritesFitStep ==
  ASSUME TypeOK, HandsFull, SnapsFit, WritesFit, [Next]_vars
  PROVE  WritesFit'
<1> USE DEF WritesFit, document
<1>1. ASSUME NEW r \in Runs, Start(r)
      PROVE  WritesFit'
  BY <1>1, ExtendsKept DEF Start
<1>2. ASSUME NEW r \in Runs, Skip(r)
      PROVE  WritesFit'
  BY <1>2, ExtendsKept DEF Skip
<1>3. ASSUME NEW r \in Runs, ReadVault(r)
      PROVE  WritesFit'
  BY <1>3, ExtendsKept DEF ReadVault, Resolve, RecordFailure
<1>4. ASSUME NEW r \in Runs, ReadExternal(r)
      PROVE  WritesFit'
  BY <1>4, ExtendsKept DEF ReadExternal, Resolve, RecordFailure
<1>5. ASSUME NEW r \in Runs, NoAnswer(r)
      PROVE  WritesFit'
  BY <1>5, ExtendsKept DEF NoAnswer, RecordFailure
<1>6. ASSUME NEW r \in Runs, Generate(r)
      PROVE  WritesFit'
  BY <1>6, ExtendsKept DEF Generate, Resolve
<1>7. ASSUME NEW r \in Runs, UseDefault(r)
      PROVE  WritesFit'
  BY <1>7, ExtendsKept DEF UseDefault, Resolve
<1>8. ASSUME NEW r \in Runs, LeaveOut(r)
      PROVE  WritesFit'
  BY <1>8, ExtendsKept DEF LeaveOut
<1>9. ASSUME NEW r \in Runs, Accept(r)
      PROVE  WritesFit'
  BY <1>9, ExtendsKept DEF Accept
<1>10. ASSUME NEW r \in Runs, ReadTarget(r)
       PROVE  WritesFit'
  BY <1>10, ExtendsKept DEF ReadTarget
<1>11. ASSUME NEW r \in Runs, SendWrite(r)
       PROVE  WritesFit'
  <2> DEFINE new == [run |-> r, cas |-> snap[r].cas, data |-> NewDocument(r)]
  <2>1. new.cas <= version /\ (new.cas = version => Extends(new.data))
    BY <1>11, SentFits DEF SendWrite
  <2>2. inflight' = inflight \cup {new} /\ UNCHANGED document
    BY <1>11 DEF SendWrite
  <2> HIDE DEF new
  <2>3. \A w \in inflight' :
          w.cas <= version /\ (w.cas = version => Extends(w.data))
    BY <2>1, <2>2
  <2>4. \A w \in inflight' : Extends(w.data) => Extends(w.data)'
    BY <2>2 DEF Extends, Replaceable
  <2>5. QED
    BY <2>2, <2>3, <2>4
<1>12. ASSUME NEW r \in Runs, Fail(r)
       PROVE  WritesFit'
  BY <1>12, ExtendsKept DEF Fail
<1>13. ASSUME NEW w \in inflight, Serve(w)
       PROVE  WritesFit'
  BY <1>13, ExtendsKept, ServeOutcome DEF Serve
<1>14. ASSUME NEW w \in inflight, Lose(w)
       PROVE  WritesFit'
  BY <1>14, ExtendsKept DEF Lose
<1>15. ASSUME NEW k \in Keys, EditKey(k)
       PROVE  WritesFit'
  BY <1>15, ExtendsKept DEF EditKey
<1>16. CASE DeleteOrRestore
  BY <1>16, ExtendsKept DEF DeleteOrRestore
<1>17. CASE UNCHANGED vars
  BY <1>17, ExtendsKept DEF vars
<1>18. QED
  BY <1>1, <1>2, <1>3, <1>4, <1>5, <1>6, <1>7, <1>8, <1>9, <1>10,
     <1>11, <1>12, <1>13, <1>14, <1>15, <1>16, <1>17
  DEF Next, Resolution, Persistence, Surroundings

\* The inductive invariant of the document: types, what a version holds, and
\* what the snapshots and the writes in flight are built on.
DocumentInv == TypeOK /\ Unwritten /\ HandsFull /\ SnapsFit /\ WritesFit

\* It holds initially.
LEMMA DocumentInit ==
  ASSUME Init
  PROVE  DocumentInv
  BY TypeInit
  DEF Init, DocumentInv, Unwritten, HandsFull, InHand, SnapsFit, WritesFit

\* It is kept.
LEMMA DocumentStep ==
  ASSUME DocumentInv, [Next]_vars
  PROVE  DocumentInv'
  BY TypeStep, UnwrittenStep, HandsFullStep, SnapsFitStep, WritesFitStep
  DEF DocumentInv

\* Without an edit, a step changes nothing in the document, or applies a write
\* that extends it.
LEMMA OneWriteAtATime ==
  ASSUME DocumentInv, [Next]_vars, edits' = edits
  PROVE  \/ UNCHANGED document
         \/ Extends(data') /\ live' = TRUE
<1> USE DEF document
<1>1. CASE UNCHANGED vars
  BY <1>1 DEF vars
<1>2. ASSUME NEW r \in Runs, Resolution(r)
      PROVE  UNCHANGED document
  BY <1>2 DEF Resolution, Start, Skip, ReadVault, ReadExternal, NoAnswer,
     Generate, UseDefault, LeaveOut, Accept, Resolve, RecordFailure
<1>3. ASSUME NEW r \in Runs, Persistence(r)
      PROVE  UNCHANGED document
  BY <1>3 DEF Persistence, ReadTarget, SendWrite
<1>4. ASSUME NEW r \in Runs, Fail(r)
      PROVE  UNCHANGED document
  BY <1>4 DEF Fail
<1>5. ASSUME NEW w \in inflight, Lose(w)
      PROVE  UNCHANGED document
  BY <1>5 DEF Lose
<1>6. ASSUME NEW w \in inflight, Serve(w)
      PROVE  UNCHANGED document \/ (Extends(data') /\ live' = TRUE)
  BY <1>6, ServeOutcome DEF DocumentInv, WritesFit
<1>7. ~(\E k \in Keys : EditKey(k)) /\ ~DeleteOrRestore
  BY DEF EditKey, DeleteOrRestore, DocumentInv, TypeOK
<1>8. QED
  BY <1>1, <1>2, <1>3, <1>4, <1>5, <1>6, <1>7 DEF Next, Surroundings

\* WritesKeepTheRest for every set of runs, requests and keys: a write that takes
\* effect changes one key, although the role writes whole documents, and replaces
\* its value only where the policy of a request allows it.
THEOREM WritesArePermitted == Spec => WritesKeepTheRest
<1> DEFINE OneKey ==
             \E k \in Keys :
               /\ \A j \in Keys \ {k} : data'[j] = data[j]
               /\ data[k] # Nothing /\ data'[k] # data[k] => ~Fixed(k)
<1>1. Init => DocumentInv
  BY DocumentInit
<1>2. DocumentInv /\ [Next]_vars => DocumentInv'
  BY DocumentStep
<1>3. ASSUME DocumentInv, [Next]_vars, edits' = edits
      PROVE  OneKey
  <2>1. CASE UNCHANGED document
    BY <2>1, ResolverAssumption DEF document
  <2>2. CASE Extends(data')
    BY <2>2 DEF Extends, Replaceable
  <2>3. QED
    BY <1>3, <2>1, <2>2, OneWriteAtATime
<1>4. DocumentInv /\ [Next]_vars => [edits' = edits => OneKey]_vars
  BY <1>3
<1>5. QED
  BY <1>1, <1>2, <1>4, PTL DEF Spec, WritesKeepTheRest

-----------------------------------------------------------------------------
(***************************************************************************)
(* Runs agree                                                              *)
(***************************************************************************)

\* Edits are never undone.
LEMMA EditsStay ==
  ASSUME DocumentInv, [Next]_vars, edits' = 0
  PROVE  edits = 0
<1>1. edits \in Nat
  BY ResolverAssumption DEF DocumentInv, TypeOK
<1>2. edits' = edits \/ edits' = edits + 1
  BY DEF Next, vars, document, run, Resolution, Persistence, Surroundings,
     Start, Skip, ReadVault, ReadExternal, NoAnswer, Generate, UseDefault,
     LeaveOut, Accept, Resolve, RecordFailure, ReadTarget, SendWrite, Fail,
     Lose, Serve, EditKey, DeleteOrRestore
<1>3. QED
  BY <1>1, <1>2

\* What the document holds for a key stays, without edits, and if it may not
\* be overwritten its value stays.
LEMMA Stable ==
  ASSUME DocumentInv, [Next]_vars, edits' = 0, NEW k \in Keys,
         live, data[k] # Nothing
  PROVE  edits = 0 /\ live' /\ data'[k] # Nothing /\ (Fixed(k) => data'[k] = data[k])
<1>3. edits = 0 /\ edits' = edits
  BY EditsStay
<1>4. CASE UNCHANGED document
  BY <1>3, <1>4 DEF document
<1>5. CASE Extends(data') /\ live' = TRUE
  BY <1>3, <1>5 DEF Extends, Replaceable
<1>6. QED
  BY <1>3, <1>4, <1>5, OneWriteAtATime

\* A write in flight is the only one of its run, which waits for it or has
\* failed, and holds the value the run waits to see stored.
Waits ==
  \A w \in inflight :
    /\ phase[w.run] \in {"sent", "failed"}
    /\ phase[w.run] = "sent" => w.data[Key(w.run)] = value[w.run]
    /\ \A v \in inflight : v.run = w.run => v = w

\* A run that waits for nothing changes neither the writes of the others nor
\* what they wait for.
LEMMA WaitsKept ==
  ASSUME TypeOK, Waits, NEW r \in Runs, phase[r] \notin {"sent", "failed"},
         UNCHANGED inflight,
         \A s \in Runs \ {r} : UNCHANGED <<phase[s], at[s], value[s]>>
  PROVE  Waits'
  BY DEF TypeOK, Waits, Key, Request

\* A run has at most one write in flight, and waits for it.
LEMMA WaitsStep ==
  ASSUME TypeOK, Waits, [Next]_vars
  PROVE  Waits'
<1> USE DEF TypeOK, Goto
<1>1. ASSUME NEW r \in Runs, Start(r)
      PROVE  Waits'
  BY <1>1, WaitsKept DEF Start
<1>2. ASSUME NEW r \in Runs, Skip(r)
      PROVE  Waits'
  BY <1>2, WaitsKept DEF Skip, AtProvider
<1>3. ASSUME NEW r \in Runs, ReadVault(r)
      PROVE  Waits'
  BY <1>3, WaitsKept DEF ReadVault, Resolve, RecordFailure, Attempts, AtProvider
<1>4. ASSUME NEW r \in Runs, ReadExternal(r)
      PROVE  Waits'
  BY <1>4, WaitsKept DEF ReadExternal, Resolve, RecordFailure, Attempts, AtProvider
<1>5. ASSUME NEW r \in Runs, NoAnswer(r)
      PROVE  Waits'
  BY <1>5, WaitsKept DEF NoAnswer, RecordFailure, Attempts, AtProvider
<1>6. ASSUME NEW r \in Runs, Generate(r)
      PROVE  Waits'
  BY <1>6, WaitsKept DEF Generate, Resolve, Attempts, AtProvider
<1>7. ASSUME NEW r \in Runs, UseDefault(r)
      PROVE  Waits'
  BY <1>7, WaitsKept DEF UseDefault, Resolve, Exhausted
<1>8. ASSUME NEW r \in Runs, LeaveOut(r)
      PROVE  Waits'
  BY <1>8, MovesOn, WaitsKept DEF LeaveOut, Leaves, Exhausted
<1>9. ASSUME NEW r \in Runs, Accept(r)
      PROVE  Waits'
  BY <1>9, MovesOn, WaitsKept DEF Accept, Leaves
<1>10. ASSUME NEW r \in Runs, ReadTarget(r)
       PROVE  Waits'
  BY <1>10, WaitsKept DEF ReadTarget
<1>11. ASSUME NEW r \in Runs, SendWrite(r)
       PROVE  Waits'
  <2> DEFINE new == [run |-> r, cas |-> snap[r].cas, data |-> NewDocument(r)]
  <2>1. /\ inflight' = inflight \cup {new} /\ phase' = [phase EXCEPT ![r] = "sent"]
        /\ phase[r] = "write" /\ UNCHANGED <<at, value>>
    BY <1>11 DEF SendWrite
  <2>2. snap[r].data \in Document /\ Key(r) \in Keys
    BY Current
  <2>3. new.run = r /\ new.data[Key(r)] = value[r]
    BY <2>2 DEF NewDocument, Document
  <2> HIDE DEF new
  <2>4. \A w \in inflight : w.run # r /\ w.run \in Runs
    BY <2>1 DEF Waits
  <2>5. \A w \in inflight' : phase'[w.run] \in {"sent", "failed"}
    BY <2>1, <2>3, <2>4 DEF Waits
  <2>6. \A w \in inflight' : \A v \in inflight' : v.run = w.run => v = w
    BY <2>1, <2>3, <2>4 DEF Waits
  <2>7. ASSUME NEW w \in inflight', phase'[w.run] = "sent"
        PROVE  w.data[Key(w.run)] = value[w.run]
    BY <2>1, <2>3, <2>4, <2>7 DEF Waits
  <2>8. QED
    BY <2>1, <2>5, <2>6, <2>7 DEF Waits, Key, Request
<1>12. ASSUME NEW r \in Runs, Fail(r)
       PROVE  Waits'
  <2>1. phase'[r] = "failed" /\ Leaves(r) /\ UNCHANGED inflight
    BY <1>12, Leaving DEF Fail, Finish
  <2>2. ASSUME NEW w \in inflight, w.run = r
        PROVE  phase'[w.run] = "failed"
    BY <2>1, <2>2
  <2>3. ASSUME NEW w \in inflight, w.run # r
        PROVE  UNCHANGED <<phase[w.run], at[w.run], value[w.run]>>
    BY <2>1, <2>3 DEF Leaves
  <2>4. QED
    BY <2>1, <2>2, <2>3 DEF Waits, Key, Request
<1>13. ASSUME NEW w \in inflight, Serve(w)
       PROVE  Waits'
  <2>1. \A v \in inflight' : v \in inflight /\ v # w
    BY <1>13 DEF Serve
  <2>2. \A v \in inflight' : v.run \in Runs /\ v.run # w.run
    BY <2>1 DEF Waits
  <2>3. PICK p \in {"accept", "failed"} : Answered(w, p)
    BY <1>13 DEF Serve, Unchanged, Applied, Rejected
  <2>4. \A v \in inflight' : phase'[v.run] = phase[v.run]
    BY <2>2, <2>3 DEF Answered
  <2>5. UNCHANGED <<at, value>>
    BY <1>13 DEF Serve
  <2>6. QED
    BY <2>1, <2>4, <2>5 DEF Waits, Key, Request
<1>14. ASSUME NEW w \in inflight, Lose(w)
       PROVE  Waits'
  BY <1>14 DEF Lose, run, Waits, Key, Request
<1>15. ASSUME NEW k \in Keys, EditKey(k)
       PROVE  Waits'
  BY <1>15 DEF EditKey, run, Waits, Key, Request
<1>16. CASE DeleteOrRestore
  BY <1>16 DEF DeleteOrRestore, run, Waits, Key, Request
<1>17. CASE UNCHANGED vars
  BY <1>17 DEF vars, run, Waits, Key, Request
<1>18. QED
  BY <1>1, <1>2, <1>3, <1>4, <1>5, <1>6, <1>7, <1>8, <1>9, <1>10,
     <1>11, <1>12, <1>13, <1>14, <1>15, <1>16, <1>17
  DEF Next, Resolution, Persistence, Surroundings

\* The results that have to agree with the document.
Stored(r, q) ==
  q \in WriteBack /\ Fixed(KeyOf[q]) /\ (r \notin CheckRuns \/ q \in MustPersist)

\* A value made by a run that is about to be accepted is what Vault holds.
HeldAgrees ==
  edits = 0 =>
    \A r \in Runs :
      phase[r] = "accept" /\ Stored(r, Request(r)) /\ value[r][1] \in Runs =>
        live /\ data[Key(r)] = value[r]

\* A run that keeps its value keeps its agreement with the document.
LEMMA HeldKept ==
  ASSUME DocumentInv, HeldAgrees, [Next]_vars, edits' = 0, NEW s \in Runs,
         phase[s] = "accept", Stored(s, Request(s)), value[s][1] \in Runs,
         UNCHANGED <<at[s], value[s]>>
  PROVE  live' /\ data'[Key(s)] = value[s]
<1>1. edits = 0
  BY EditsStay
<1>2. Key(s) \in Keys
  BY Current DEF DocumentInv
<1>3. live /\ data[Key(s)] = value[s] /\ value[s] # Nothing
  BY <1>1 DEF HeldAgrees, DocumentInv, HandsFull, InHand
<1>4. Fixed(Key(s))
  BY DEF Stored, Key
<1>5. QED
  BY <1>2, <1>3, <1>4, Stable

\* Only what a run reads from the document or has stored there is accepted.
LEMMA HeldAgreesStep ==
  ASSUME DocumentInv, Waits, HeldAgrees, [Next]_vars
  PROVE  HeldAgrees'
<1> DEFINE Agrees(s) ==
      phase'[s] = "accept" /\ Stored(s, Request(s)') /\ value'[s][1] \in Runs =>
        live' /\ data'[Key(s)'] = value'[s]
<1> SUFFICES ASSUME edits' = 0
             PROVE  \A s \in Runs : Agrees(s)
  BY DEF HeldAgrees, Stored
<1>types. TypeOK
  BY DEF DocumentInv
<1>same. ASSUME NEW s \in Runs, UNCHANGED <<phase[s], at[s], value[s]>>
      PROVE  Agrees(s)
  BY <1>same, HeldKept DEF Key, Request
<1>1. ASSUME NEW r \in Runs, Start(r)
      PROVE  \A s \in Runs : Agrees(s)
  <2>1. ASSUME NEW s \in Runs, s # r
        PROVE  UNCHANGED <<phase[s], at[s], value[s]>>
    BY <1>1, <2>1, <1>types DEF Start, Goto, TypeOK
  <2>2. phase'[r] # "accept"
    BY <1>1, <1>types DEF Start, Goto, TypeOK
  <2>3. QED
    BY <2>1, <2>2, <1>same
<1>2. ASSUME NEW r \in Runs, Skip(r)
      PROVE  \A s \in Runs : Agrees(s)
  <2>1. ASSUME NEW s \in Runs, s # r
        PROVE  UNCHANGED <<phase[s], at[s], value[s]>>
    BY <1>2, <2>1, <1>types DEF Skip, Attempts, AtProvider, Goto, TypeOK
  <2>2. phase'[r] # "accept"
    BY <1>2, <1>types DEF Skip, Attempts, AtProvider, Goto, TypeOK
  <2>3. QED
    BY <2>1, <2>2, <1>same
<1>3. ASSUME NEW r \in Runs, ReadVault(r)
      PROVE  \A s \in Runs : Agrees(s)
  <2>1. ASSUME NEW s \in Runs, s # r
        PROVE  UNCHANGED <<phase[s], at[s], value[s]>>
    BY <1>3, <2>1, <1>types DEF ReadVault, Resolve, RecordFailure, Goto, TypeOK
  <2>2. ASSUME phase'[r] = "accept"
        PROVE  live' /\ data'[Key(r)'] = value'[r]
    <3>1. /\ value' = [value EXCEPT ![r] = Visible[Key(r)]]
          /\ UNCHANGED <<document, at>> /\ Visible[Key(r)] # Nothing
      BY <1>3, <2>2, <1>types
      DEF ReadVault, Attempts, AtProvider, Resolve, RecordFailure, TypeOK
    <3>2. live
      BY <3>1, <1>types, Current DEF Visible, Empty
    <3>3. QED
      BY <3>1, <3>2, <1>types DEF Visible, Key, Request, document, TypeOK
  <2>3. QED
    BY <2>1, <2>2, <1>same
<1>4. ASSUME NEW r \in Runs, ReadExternal(r)
      PROVE  \A s \in Runs : Agrees(s)
  <2>1. ASSUME NEW s \in Runs, s # r
        PROVE  UNCHANGED <<phase[s], at[s], value[s]>>
    BY <1>4, <2>1, <1>types DEF ReadExternal, Resolve, RecordFailure, Goto, TypeOK
  <2>2. phase'[r] = "accept" => value'[r][1] = External
    BY <1>4, <1>types
    DEF ReadExternal, Attempts, AtProvider, Resolve, RecordFailure, TypeOK
  <2>3. QED
    BY <2>1, <2>2, <1>same, ResolverAssumption
<1>5. ASSUME NEW r \in Runs, NoAnswer(r)
      PROVE  \A s \in Runs : Agrees(s)
  <2>1. ASSUME NEW s \in Runs, s # r
        PROVE  UNCHANGED <<phase[s], at[s], value[s]>>
    BY <1>5, <2>1, <1>types DEF NoAnswer, RecordFailure, Attempts, AtProvider, Goto, TypeOK
  <2>2. phase'[r] # "accept"
    BY <1>5, <1>types DEF NoAnswer, RecordFailure, Attempts, AtProvider, Goto, TypeOK
  <2>3. QED
    BY <2>1, <2>2, <1>same
<1>6. ASSUME NEW r \in Runs, Generate(r)
      PROVE  \A s \in Runs : Agrees(s)
  <2>1. ASSUME NEW s \in Runs, s # r
        PROVE  UNCHANGED <<phase[s], at[s], value[s]>>
    BY <1>6, <2>1, <1>types DEF Generate, Resolve, Goto, TypeOK
  <2>2. phase'[r] = "accept" => Request(r)' \notin WriteBack
    BY <1>6, <1>types DEF Generate, Resolve, NeedsPersistence, Goto, TypeOK, Request
  <2>3. QED
    BY <2>1, <2>2, <1>same DEF Stored
<1>7. ASSUME NEW r \in Runs, UseDefault(r)
      PROVE  \A s \in Runs : Agrees(s)
  <2>1. ASSUME NEW s \in Runs, s # r
        PROVE  UNCHANGED <<phase[s], at[s], value[s]>>
    BY <1>7, <2>1, <1>types DEF UseDefault, Resolve, Goto, TypeOK
  <2>2. value'[r][1] = Default
    BY <1>7, <1>types DEF UseDefault, Resolve, TypeOK
  <2>3. QED
    BY <2>1, <2>2, <1>same, ResolverAssumption
<1>8. ASSUME NEW r \in Runs, LeaveOut(r)
      PROVE  \A s \in Runs : Agrees(s)
  <2>1. Leaves(r)
    BY <1>8, <1>types, MovesOn DEF LeaveOut
  <2>2. QED
    BY <2>1, <1>same DEF Leaves
<1>9. ASSUME NEW r \in Runs, Accept(r)
      PROVE  \A s \in Runs : Agrees(s)
  <2>1. Leaves(r)
    BY <1>9, <1>types, MovesOn DEF Accept
  <2>2. QED
    BY <2>1, <1>same DEF Leaves
<1>10. ASSUME NEW r \in Runs, ReadTarget(r)
       PROVE  \A s \in Runs : Agrees(s)
  <2>1. ASSUME NEW s \in Runs, s # r
        PROVE  UNCHANGED <<phase[s], at[s], value[s]>>
    BY <1>10, <2>1, <1>types DEF ReadTarget, Goto, TypeOK
  <2>2. ASSUME phase'[r] = "accept", Stored(r, Request(r))
        PROVE  SameValue(r)
    BY <1>10, <2>2, <1>types DEF ReadTarget, Goto, Stored, TypeOK
  <2>3. UNCHANGED <<document, at, value>> /\ value[r] # Nothing
    BY <1>10 DEF ReadTarget, DocumentInv, HandsFull, InHand
  <2>4. UNCHANGED Key(r) /\ UNCHANGED Request(r) /\ Key(r) \in Keys
    BY <2>3, <1>types, Current DEF Key, Request
  <2>5. ASSUME SameValue(r)
        PROVE  live /\ data[Key(r)] = value[r]
    BY <2>3, <2>4, <2>5 DEF SameValue, Visible, Empty
  <2>6. Agrees(r)
    BY <2>2, <2>3, <2>4, <2>5 DEF document
  <2>7. QED
    BY <2>1, <2>6, <1>same
<1>11. ASSUME NEW r \in Runs, SendWrite(r)
       PROVE  \A s \in Runs : Agrees(s)
  <2>1. ASSUME NEW s \in Runs, s # r
        PROVE  UNCHANGED <<phase[s], at[s], value[s]>>
    BY <1>11, <2>1, <1>types DEF SendWrite, Goto, TypeOK
  <2>2. phase'[r] # "accept"
    BY <1>11, <1>types DEF SendWrite, Goto, TypeOK
  <2>3. QED
    BY <2>1, <2>2, <1>same
<1>12. ASSUME NEW r \in Runs, Fail(r)
       PROVE  \A s \in Runs : Agrees(s)
  <2>1. Leaves(r)
    BY <1>12, <1>types, Leaving DEF Fail
  <2>2. QED
    BY <2>1, <1>same DEF Leaves
<1>13. ASSUME NEW w \in inflight, Serve(w)
       PROVE  \A s \in Runs : Agrees(s)
  <2>1. w.run \in Runs /\ UNCHANGED <<at, value>>
    BY <1>13, <1>types DEF Serve, TypeOK
  <2>2. ASSUME NEW s \in Runs, phase'[s] = phase[s]
        PROVE  Agrees(s)
    BY <2>1, <2>2, <1>same
  <2>3. ASSUME NEW s \in Runs, phase'[s] # phase[s]
        PROVE  Agrees(s)
    <3>1. s = w.run /\ phase[s] = "sent"
      BY <1>13, <2>3, <1>types, ServeAnswer, <2>1
      DEF Serve, Unchanged, Applied, Rejected, Answered, Goto, TypeOK
    <3>2. w.data[Key(s)] = value[s]
      BY <3>1 DEF Waits
    <3>3. phase'[s] = "accept" => live' /\ data' = w.data
      BY <1>13, <3>1, <1>types
      DEF Serve, Unchanged, Applied, Rejected, Answered, Goto, TypeOK, document
    <3>4. UNCHANGED Key(s)
      BY <2>1 DEF Key, Request
    <3>5. QED
      BY <2>1, <3>2, <3>3, <3>4
  <2>4. QED
    BY <2>2, <2>3
<1>14. ASSUME NEW w \in inflight, Lose(w)
       PROVE  \A s \in Runs : Agrees(s)
  BY <1>14, <1>same DEF Lose, run
<1>15. ASSUME NEW k \in Keys, EditKey(k)
       PROVE  \A s \in Runs : Agrees(s)
  BY <1>15, <1>same DEF EditKey, run
<1>16. CASE DeleteOrRestore
  BY <1>16, <1>same DEF DeleteOrRestore, run
<1>17. CASE UNCHANGED vars
  BY <1>17, <1>same DEF vars, run
<1>18. QED
  BY <1>1, <1>2, <1>3, <1>4, <1>5, <1>6, <1>7, <1>8, <1>9, <1>10,
     <1>11, <1>12, <1>13, <1>14, <1>15, <1>16, <1>17
  DEF Next, Resolution, Persistence, Surroundings

\* A step leaves the results alone, forgets those of a run that fails, or adds
\* the value a run is about to have accepted.
LEMMA ResultsChange ==
  ASSUME TypeOK, [Next]_vars, NEW s \in Runs, NEW q \in Requests,
         results'[s][q] # results[s][q]
  PROVE  \/ results'[s][q] = Nothing
         \/ /\ phase[s] = "accept" /\ q = Request(s)
            /\ results'[s][q] = value[s] /\ UNCHANGED document
<1> USE DEF TypeOK
<1>1. ASSUME NEW r \in Runs, Accept(r)
      PROVE  s = r /\ q = Request(r) /\ results'[s][q] = value[s]
  <2>1. results' = [results EXCEPT ![r] =
                      [results[r] EXCEPT ![Request(r)] = value[r]]]
    BY <1>1 DEF Accept
  <2>2. s = r
    BY <2>1
  <2>3. results'[s] = [results[s] EXCEPT ![Request(s)] = value[s]]
    BY <2>1, <2>2
  <2>4. q = Request(s)
    BY <2>3
  <2>5. QED
    BY <2>2, <2>3, <2>4
<1>2. ASSUME NEW r \in Runs, Fail(r)
      PROVE  results'[s][q] = Nothing
  BY <1>2 DEF Fail
<1>3. QED
  BY <1>1, <1>2
  DEF Next, vars, run, Resolution, Persistence, Surroundings, Start, Skip,
      ReadVault, ReadExternal, NoAnswer, Generate, UseDefault, LeaveOut,
      Accept, Resolve, RecordFailure, ReadTarget, SendWrite, Lose, Serve,
      EditKey, DeleteOrRestore

\* A result that agrees with the document goes on agreeing with it.
LEMMA ResultsAgree ==
  ASSUME DocumentInv, HeldAgrees, WriteBackAgrees, [Next]_vars
  PROVE  WriteBackAgrees'
<1> SUFFICES ASSUME edits' = 0, NEW s \in Runs, NEW q \in WriteBack,
                    Stored(s, q), results'[s][q] # Nothing,
                    results'[s][q][1] \in Runs
             PROVE  live' /\ data'[KeyOf[q]] = results'[s][q]
  BY DEF WriteBackAgrees, Stored
<1>1. edits = 0 /\ TypeOK
  BY EditsStay DEF DocumentInv
<1>2. q \in Requests /\ KeyOf[q] \in Keys
  BY Policy, ResolverAssumption
<1>3. CASE results'[s][q] = results[s][q]
  <2>1. live /\ data[KeyOf[q]] = results[s][q]
    BY <1>1, <1>3 DEF WriteBackAgrees, Stored
  <2>2. QED
    BY <1>2, <1>3, <2>1, Stable DEF Stored
<1>4. CASE results'[s][q] # results[s][q]
  <2>1. /\ phase[s] = "accept" /\ q = Request(s)
        /\ results'[s][q] = value[s] /\ UNCHANGED document
    BY <1>1, <1>2, <1>4, ResultsChange
  <2>2. live /\ data[Key(s)] = value[s]
    BY <1>1, <2>1 DEF HeldAgrees
  <2>3. QED
    BY <2>1, <2>2 DEF Key, document
<1>5. QED
  BY <1>3, <1>4

\* WriteBackAgrees for every set of runs, requests and keys, and every
\* interleaving of their calls with lost and late writes: runs that take a
\* value from Vault or have generated one agree with what Vault holds.
THEOREM RunsAgree == Spec => []WriteBackAgrees
<1>1. Init => DocumentInv /\ Waits /\ HeldAgrees /\ WriteBackAgrees
  <2>1. ASSUME Init
        PROVE  WriteBackAgrees
    BY <2>1, Policy DEF Init, WriteBackAgrees
  <2>2. QED
    BY <2>1, DocumentInit DEF Init, Waits, HeldAgrees
<1>2. DocumentInv /\ Waits /\ HeldAgrees /\ WriteBackAgrees /\ [Next]_vars =>
        (DocumentInv /\ Waits /\ HeldAgrees /\ WriteBackAgrees)'
  <2>1. ASSUME DocumentInv, Waits, [Next]_vars
        PROVE  Waits'
    BY <2>1, WaitsStep DEF DocumentInv
  <2>2. QED
    BY <2>1, DocumentStep, HeldAgreesStep, ResultsAgree
<1>3. QED
  BY <1>1, <1>2, PTL DEF Spec

-----------------------------------------------------------------------------
(***************************************************************************)
(* Later runs retrieve                                                     *)
(***************************************************************************)

\* Write-back requests fall back on other providers after an absence only,
\* which is the default of fallback_on.
AbsenceOnly == \A q \in WriteBack : FallbackOn[q] \subseteq Absence

\* Keys that a run found in the document are there until somebody edits it.
BeforeStays ==
  edits = 0 => \A r \in Runs : \A k \in before[r] : live /\ data[k] # Nothing

\* A run that has not started has recorded no attempt and has no result.
IdleIsFresh ==
  \A r \in Runs :
    phase[r] = "idle" =>
      /\ turn[r] = 1 /\ failures[r] = <<>>
      /\ \A q \in Requests : results[r][q] = Nothing

\* A run whose key is in the document either asks Vault next, or has had no
\* answer.
AsksVault(r) ==
  \/ turn[r] = 1 /\ failures[r] = <<>>
  \/ failures[r] # <<>> /\ Last(failures[r]) \in Trouble

Attempting ==
  edits = 0 =>
    \A r \in Runs :
      phase[r] = "attempt" /\ Request(r) \in WriteBack /\ Key(r) \in before[r] =>
        AsksVault(r)

\* A run may not have generated a value for the request.
Unmade(r, q) == phase[r] = "idle" \/ KeyOf[q] \in before[r]

\* The value is not one of those.
Innocent(v) == \A r \in Runs, q \in WriteBack : Unmade(r, q) => v # <<r, q>>

InnocentData(d) == \A k \in Keys : Innocent(d[k])

\* No value is one that a run may not have generated.
NothingMade ==
  edits = 0 =>
    /\ InnocentData(data)
    /\ \A w \in inflight : InnocentData(w.data)
    /\ \A s \in Runs : InnocentData(snap[s].data) /\ Innocent(value[s])

\* What a step does to the record of the keys a run has found.
LEMMA BeforeChange ==
  ASSUME TypeOK, [Next]_vars, NEW r \in Runs
  PROVE  /\ phase'[r] = "idle" => phase[r] = "idle"
         /\ \/ before'[r] \subseteq before[r]
            \/ /\ phase[r] = "idle" /\ UNCHANGED <<document, edits>>
               /\ before'[r] = {k \in Keys : Visible[k] # Nothing}
<1> USE DEF TypeOK, Goto
<1> DEFINE Kept ==
      /\ phase'[r] = "idle" => phase[r] = "idle"
      /\ \/ before'[r] \subseteq before[r]
         \/ /\ phase[r] = "idle" /\ UNCHANGED <<document, edits>>
            /\ before'[r] = {k \in Keys : Visible[k] # Nothing}
<1>1. ASSUME NEW s \in Runs, Start(s)
      PROVE  Kept
  BY <1>1 DEF Start
<1>2. ASSUME NEW s \in Runs, Skip(s)
      PROVE  Kept
  BY <1>2 DEF Skip
<1>3. ASSUME NEW s \in Runs, ReadVault(s)
      PROVE  Kept
  BY <1>3 DEF ReadVault, Resolve, RecordFailure
<1>4. ASSUME NEW s \in Runs, ReadExternal(s)
      PROVE  Kept
  BY <1>4 DEF ReadExternal, Resolve, RecordFailure
<1>5. ASSUME NEW s \in Runs, NoAnswer(s)
      PROVE  Kept
  BY <1>5 DEF NoAnswer, RecordFailure
<1>6. ASSUME NEW s \in Runs, Generate(s)
      PROVE  Kept
  BY <1>6 DEF Generate, Resolve
<1>7. ASSUME NEW s \in Runs, UseDefault(s)
      PROVE  Kept
  BY <1>7 DEF UseDefault, Resolve
<1>8. ASSUME NEW s \in Runs, LeaveOut(s)
      PROVE  Kept
  BY <1>8, MovesOn DEF LeaveOut, Leaves
<1>9. ASSUME NEW s \in Runs, Accept(s)
      PROVE  Kept
  BY <1>9, MovesOn DEF Accept, Leaves
<1>10. ASSUME NEW s \in Runs, ReadTarget(s)
       PROVE  Kept
  BY <1>10 DEF ReadTarget
<1>11. ASSUME NEW s \in Runs, SendWrite(s)
       PROVE  Kept
  BY <1>11 DEF SendWrite
<1>12. ASSUME NEW s \in Runs, Fail(s)
       PROVE  Kept
  BY <1>12, Leaving DEF Fail, Leaves
<1>13. ASSUME NEW w \in inflight, Serve(w)
       PROVE  Kept
  <2>1. PICK p \in {"accept", "failed"} : Answered(w, p)
    BY <1>13 DEF Serve, Unchanged, Applied, Rejected
  <2>2. phase'[r] = "idle" => phase[r] = "idle"
    BY <2>1 DEF Answered
  <2>3. before' = before
    BY <1>13 DEF Serve
  <2>4. QED
    BY <2>2, <2>3
<1>14. ASSUME NEW w \in inflight, Lose(w)
       PROVE  Kept
  BY <1>14 DEF Lose, run
<1>15. ASSUME NEW k \in Keys, EditKey(k)
       PROVE  Kept
  BY <1>15 DEF EditKey, run
<1>16. CASE DeleteOrRestore
  BY <1>16 DEF DeleteOrRestore, run
<1>17. CASE UNCHANGED vars
  BY <1>17 DEF vars, run
<1>18. QED
  BY <1>1, <1>2, <1>3, <1>4, <1>5, <1>6, <1>7, <1>8, <1>9, <1>10,
     <1>11, <1>12, <1>13, <1>14, <1>15, <1>16, <1>17
  DEF Next, Resolution, Persistence, Surroundings

\* Keys that were found stay, for every run.
LEMMA BeforeStaysStep ==
  ASSUME DocumentInv, BeforeStays, [Next]_vars
  PROVE  BeforeStays'
<1> SUFFICES ASSUME edits' = 0, NEW r \in Runs, NEW k \in before'[r]
             PROVE  live' /\ data'[k] # Nothing
  BY DEF BeforeStays
<1>1. edits = 0 /\ TypeOK
  BY EditsStay DEF DocumentInv
<1>2. before[r] \subseteq Keys
  BY <1>1 DEF TypeOK
<1>3. CASE before'[r] \subseteq before[r]
  <2>1. k \in Keys /\ live /\ data[k] # Nothing
    BY <1>1, <1>2, <1>3 DEF BeforeStays
  <2>2. QED
    BY <2>1, Stable
<1>4. CASE UNCHANGED document /\ before'[r] = {j \in Keys : Visible[j] # Nothing}
  BY <1>4 DEF Visible, Empty, document
<1>5. QED
  BY <1>1, <1>3, <1>4, BeforeChange

\* Nobody attempts anything before the start.
LEMMA IdleStep ==
  ASSUME TypeOK, IdleIsFresh, [Next]_vars
  PROVE  IdleIsFresh'
<1> USE DEF TypeOK, IdleIsFresh, Goto
<1>1. ASSUME NEW r \in Runs, Start(r)
      PROVE  IdleIsFresh'
  BY <1>1 DEF Start
<1>2. ASSUME NEW r \in Runs, Skip(r)
      PROVE  IdleIsFresh'
  BY <1>2 DEF Skip, AtProvider
<1>3. ASSUME NEW r \in Runs, ReadVault(r)
      PROVE  IdleIsFresh'
  BY <1>3 DEF ReadVault, Resolve, RecordFailure, Attempts, AtProvider
<1>4. ASSUME NEW r \in Runs, ReadExternal(r)
      PROVE  IdleIsFresh'
  BY <1>4 DEF ReadExternal, Resolve, RecordFailure, Attempts, AtProvider
<1>5. ASSUME NEW r \in Runs, NoAnswer(r)
      PROVE  IdleIsFresh'
  BY <1>5 DEF NoAnswer, RecordFailure, Attempts, AtProvider
<1>6. ASSUME NEW r \in Runs, Generate(r)
      PROVE  IdleIsFresh'
  BY <1>6 DEF Generate, Resolve, Attempts, AtProvider
<1>7. ASSUME NEW r \in Runs, UseDefault(r)
      PROVE  IdleIsFresh'
  BY <1>7 DEF UseDefault, Resolve, Exhausted
<1>8. ASSUME NEW r \in Runs, LeaveOut(r)
      PROVE  IdleIsFresh'
  BY <1>8 DEF LeaveOut, NextRequest, Finish
<1>9. ASSUME NEW r \in Runs, Accept(r)
      PROVE  IdleIsFresh'
  BY <1>9 DEF Accept, NextRequest, Finish
<1>10. ASSUME NEW r \in Runs, ReadTarget(r)
       PROVE  IdleIsFresh'
  BY <1>10 DEF ReadTarget
<1>11. ASSUME NEW r \in Runs, SendWrite(r)
       PROVE  IdleIsFresh'
  BY <1>11 DEF SendWrite
<1>12. ASSUME NEW r \in Runs, Fail(r)
       PROVE  IdleIsFresh'
  BY <1>12 DEF Fail, Finish
<1>13. ASSUME NEW w \in inflight, Serve(w)
       PROVE  IdleIsFresh'
  <2>1. PICK p \in {"accept", "failed"} : Answered(w, p)
    BY <1>13 DEF Serve, Unchanged, Applied, Rejected
  <2>2. \A s \in Runs : phase'[s] = "idle" => phase[s] = "idle"
    BY <2>1 DEF Answered
  <2>3. UNCHANGED <<turn, failures, results>>
    BY <1>13 DEF Serve
  <2>4. QED
    BY <2>2, <2>3
<1>14. ASSUME NEW w \in inflight, Lose(w)
       PROVE  IdleIsFresh'
  BY <1>14 DEF Lose, run
<1>15. ASSUME NEW k \in Keys, EditKey(k)
       PROVE  IdleIsFresh'
  BY <1>15 DEF EditKey, run
<1>16. CASE DeleteOrRestore
  BY <1>16 DEF DeleteOrRestore, run
<1>17. CASE UNCHANGED vars
  BY <1>17 DEF vars, run
<1>18. QED
  BY <1>1, <1>2, <1>3, <1>4, <1>5, <1>6, <1>7, <1>8, <1>9, <1>10,
     <1>11, <1>12, <1>13, <1>14, <1>15, <1>16, <1>17
  DEF Next, Resolution, Persistence, Surroundings

\* The last of the failures is the one that was appended.
LEMMA LastOfAppend ==
  ASSUME NEW S, NEW f \in Seq(S), NEW c \in S
  PROVE  Append(f, c) # <<>> /\ Last(Append(f, c)) = c
  BY DEF Last

\* A run whose key is in the document tries nothing but Vault.
LEMMA OnlyVault ==
  ASSUME TypeOK, AbsenceOnly, NEW r \in Runs, NEW p, AtProvider(r, p),
         Request(r) \in WriteBack, AsksVault(r), Eligible(r, p)
  PROVE  p = "hashicorp_vault" /\ turn[r] = 1 /\ failures[r] = <<>>
<1>1. CASE failures[r] = <<>>
  BY <1>1, Policy DEF AsksVault, AtProvider
<1>2. CASE failures[r] # <<>>
  <2>1. LastFailure(r) \in Trouble
    BY <1>2 DEF AsksVault, LastFailure
  <2>2. LastFailure(r) \notin Absence
    BY <2>1 DEF Trouble, Absence
  <2>3. LastFailure(r) \notin FallbackOn[Request(r)]
    BY <2>2 DEF AbsenceOnly
  <2>4. QED
    BY <1>2, <2>2, <2>3 DEF Eligible
<1>3. QED
  BY <1>1, <1>2

\* A run whose key is in the document asks Vault, and nobody after it.
LEMMA AttemptingStep ==
  ASSUME DocumentInv, AbsenceOnly, BeforeStays, IdleIsFresh, Attempting,
         [Next]_vars
  PROVE  Attempting'
<1> DEFINE Asks(s) ==
      /\ phase'[s] = "attempt"
      /\ Request(s)' \in WriteBack
      /\ Key(s)' \in before'[s]
      => AsksVault(s)'
<1> SUFFICES ASSUME edits' = 0
             PROVE  \A s \in Runs : Asks(s)
  BY DEF Attempting
<1>types. TypeOK /\ edits = 0
  BY EditsStay DEF DocumentInv
<1>same. ASSUME NEW s \in Runs,
                UNCHANGED <<phase[s], at[s], turn[s], failures[s], before[s]>>
         PROVE  Asks(s)
  BY <1>same, <1>types DEF Attempting, AsksVault, Key, Request
<1>held. ASSUME NEW s \in Runs, phase[s] = "attempt", Request(s) \in WriteBack,
                Key(s) \in before[s]
         PROVE  AsksVault(s) /\ live /\ Visible[Key(s)] # Nothing
  <2>1. AsksVault(s) /\ live /\ data[Key(s)] # Nothing
    BY <1>held, <1>types DEF Attempting, BeforeStays
  <2>2. QED
    BY <2>1 DEF Visible
<1>1. ASSUME NEW r \in Runs, Start(r)
      PROVE  \A s \in Runs : Asks(s)
  <2>1. ASSUME NEW s \in Runs, s # r
        PROVE  UNCHANGED <<phase[s], at[s], turn[s], failures[s], before[s]>>
    BY <1>1, <2>1, <1>types DEF Start, Goto, TypeOK
  <2>2. turn'[r] = 1 /\ failures'[r] = <<>>
    BY <1>1 DEF Start, IdleIsFresh
  <2>3. QED
    BY <2>1, <2>2, <1>same DEF AsksVault
<1>2. ASSUME NEW r \in Runs, Skip(r)
      PROVE  \A s \in Runs : Asks(s)
  <2>1. ASSUME NEW s \in Runs, s # r
        PROVE  UNCHANGED <<phase[s], at[s], turn[s], failures[s], before[s]>>
    BY <1>2, <2>1, <1>types DEF Skip, AtProvider, Goto, TypeOK
  <2>2. ASSUME phase'[r] = "attempt", Request(r)' \in WriteBack,
               Key(r)' \in before'[r]
        PROVE  AsksVault(r)'
    <3>1. UNCHANGED <<at, before>> /\ phase[r] = "attempt"
      BY <1>2 DEF Skip, AtProvider
    <3>2. Request(r) \in WriteBack /\ Key(r) \in before[r]
      BY <2>2, <3>1 DEF Key, Request
    <3>3. AsksVault(r) /\ live /\ Visible[Key(r)] # Nothing
      BY <3>1, <3>2, <1>held
    <3>4. failures[r] # <<>>
      BY <1>2 DEF Skip, Eligible
    <3>5. UNCHANGED failures
      BY <1>2 DEF Skip
    <3>6. QED
      BY <3>3, <3>4, <3>5 DEF AsksVault
  <2>3. QED
    BY <2>1, <2>2, <1>same
<1>3. ASSUME NEW r \in Runs, ReadVault(r)
      PROVE  \A s \in Runs : Asks(s)
  <2>1. ASSUME NEW s \in Runs, s # r
        PROVE  UNCHANGED <<phase[s], at[s], turn[s], failures[s], before[s]>>
    BY <1>3, <2>1, <1>types DEF ReadVault, Resolve, RecordFailure, Attempts, AtProvider, Goto, TypeOK
  <2>2. ASSUME phase'[r] = "attempt", Request(r)' \in WriteBack,
               Key(r)' \in before'[r]
        PROVE  AsksVault(r)'
    <3>1. UNCHANGED <<at, before>> /\ phase[r] = "attempt"
      BY <1>3 DEF ReadVault, Resolve, RecordFailure, Attempts, AtProvider
    <3>2. Request(r) \in WriteBack /\ Key(r) \in before[r]
      BY <2>2, <3>1 DEF Key, Request
    <3>3. AsksVault(r) /\ live /\ Visible[Key(r)] # Nothing
      BY <3>1, <3>2, <1>held
    <3>4. phase'[r] # "attempt"
      BY <1>3, <3>3, <1>types DEF ReadVault, Resolve, Goto, TypeOK
    <3>5. QED
      BY <2>2, <3>4
  <2>3. QED
    BY <2>1, <2>2, <1>same
<1>4. ASSUME NEW r \in Runs, ReadExternal(r)
      PROVE  \A s \in Runs : Asks(s)
  <2>1. ASSUME NEW s \in Runs, s # r
        PROVE  UNCHANGED <<phase[s], at[s], turn[s], failures[s], before[s]>>
    BY <1>4, <2>1, <1>types DEF ReadExternal, Resolve, RecordFailure, Attempts, AtProvider, Goto, TypeOK
  <2>2. ASSUME phase'[r] = "attempt", Request(r)' \in WriteBack,
               Key(r)' \in before'[r]
        PROVE  AsksVault(r)'
    <3>1. UNCHANGED <<at, before>> /\ phase[r] = "attempt"
      BY <1>4 DEF ReadExternal, Resolve, RecordFailure, Attempts, AtProvider
    <3>2. Request(r) \in WriteBack /\ Key(r) \in before[r]
      BY <2>2, <3>1 DEF Key, Request
    <3>3. AsksVault(r) /\ live /\ Visible[Key(r)] # Nothing
      BY <3>1, <3>2, <1>held
    <3>4. AtProvider(r, "external") /\ Eligible(r, "external")
      BY <1>4 DEF ReadExternal, Attempts
    <3>5. QED
      BY <3>2, <3>3, <3>4, <1>types, OnlyVault
  <2>3. QED
    BY <2>1, <2>2, <1>same
<1>5. ASSUME NEW r \in Runs, NoAnswer(r)
      PROVE  \A s \in Runs : Asks(s)
  <2>1. ASSUME NEW s \in Runs, s # r
        PROVE  UNCHANGED <<phase[s], at[s], turn[s], failures[s], before[s]>>
    BY <1>5, <2>1, <1>types DEF NoAnswer, RecordFailure, Attempts, AtProvider, Goto, TypeOK
  <2>2. ASSUME phase'[r] = "attempt", Request(r)' \in WriteBack,
               Key(r)' \in before'[r]
        PROVE  AsksVault(r)'
    <3>1. UNCHANGED <<at, before>> /\ phase[r] = "attempt"
      BY <1>5 DEF NoAnswer, RecordFailure, Attempts, AtProvider
    <3>2. Request(r) \in WriteBack /\ Key(r) \in before[r]
      BY <2>2, <3>1 DEF Key, Request
    <3>3. AsksVault(r) /\ live /\ Visible[Key(r)] # Nothing
      BY <3>1, <3>2, <1>held
    <3>4. PICK c \in Trouble : RecordFailure(r, c)
      BY <1>5 DEF NoAnswer
    <3>5. failures[r] \in Seq(Absence \cup Trouble)
      BY <1>types DEF TypeOK
    <3>6. failures'[r] = Append(failures[r], c)
      BY <3>4, <1>types DEF RecordFailure, TypeOK
    <3>7. QED
      BY <3>4, <3>5, <3>6, LastOfAppend DEF AsksVault
  <2>3. QED
    BY <2>1, <2>2, <1>same
<1>6. ASSUME NEW r \in Runs, Generate(r)
      PROVE  \A s \in Runs : Asks(s)
  <2>1. ASSUME NEW s \in Runs, s # r
        PROVE  UNCHANGED <<phase[s], at[s], turn[s], failures[s], before[s]>>
    BY <1>6, <2>1, <1>types DEF Generate, Resolve, Goto, TypeOK
  <2>2. phase'[r] # "attempt"
    BY <1>6, <1>types DEF Generate, Resolve, Goto, TypeOK
  <2>3. QED
    BY <2>1, <2>2, <1>same
<1>7. ASSUME NEW r \in Runs, UseDefault(r)
      PROVE  \A s \in Runs : Asks(s)
  <2>1. ASSUME NEW s \in Runs, s # r
        PROVE  UNCHANGED <<phase[s], at[s], turn[s], failures[s], before[s]>>
    BY <1>7, <2>1, <1>types DEF UseDefault, Resolve, Goto, TypeOK
  <2>2. phase'[r] # "attempt"
    BY <1>7, <1>types DEF UseDefault, Resolve, Goto, TypeOK
  <2>3. QED
    BY <2>1, <2>2, <1>same
<1>8. ASSUME NEW r \in Runs, LeaveOut(r)
      PROVE  \A s \in Runs : Asks(s)
  <2>1. ASSUME NEW s \in Runs, s # r
        PROVE  UNCHANGED <<phase[s], at[s], turn[s], failures[s], before[s]>>
    BY <1>8, <2>1, <1>types DEF LeaveOut, NextRequest, Finish, Goto, TypeOK
  <2>2. phase'[r] = "attempt" => turn'[r] = 1 /\ failures'[r] = <<>>
    BY <1>8, <1>types DEF LeaveOut, NextRequest, Finish, Goto, TypeOK
  <2>3. QED
    BY <2>1, <2>2, <1>same DEF AsksVault
<1>9. ASSUME NEW r \in Runs, Accept(r)
      PROVE  \A s \in Runs : Asks(s)
  <2>1. ASSUME NEW s \in Runs, s # r
        PROVE  UNCHANGED <<phase[s], at[s], turn[s], failures[s], before[s]>>
    BY <1>9, <2>1, <1>types DEF Accept, NextRequest, Finish, Goto, TypeOK
  <2>2. phase'[r] = "attempt" => turn'[r] = 1 /\ failures'[r] = <<>>
    BY <1>9, <1>types DEF Accept, NextRequest, Finish, Goto, TypeOK
  <2>3. QED
    BY <2>1, <2>2, <1>same DEF AsksVault
<1>10. ASSUME NEW r \in Runs, ReadTarget(r)
       PROVE  \A s \in Runs : Asks(s)
  <2>1. ASSUME NEW s \in Runs, s # r
        PROVE  UNCHANGED <<phase[s], at[s], turn[s], failures[s], before[s]>>
    BY <1>10, <2>1, <1>types DEF ReadTarget, Goto, TypeOK
  <2>2. phase'[r] # "attempt"
    BY <1>10, <1>types DEF ReadTarget, Goto, TypeOK
  <2>3. QED
    BY <2>1, <2>2, <1>same
<1>11. ASSUME NEW r \in Runs, SendWrite(r)
       PROVE  \A s \in Runs : Asks(s)
  <2>1. ASSUME NEW s \in Runs, s # r
        PROVE  UNCHANGED <<phase[s], at[s], turn[s], failures[s], before[s]>>
    BY <1>11, <2>1, <1>types DEF SendWrite, Goto, TypeOK
  <2>2. phase'[r] # "attempt"
    BY <1>11, <1>types DEF SendWrite, Goto, TypeOK
  <2>3. QED
    BY <2>1, <2>2, <1>same
<1>12. ASSUME NEW r \in Runs, Fail(r)
       PROVE  \A s \in Runs : Asks(s)
  <2>1. ASSUME NEW s \in Runs, s # r
        PROVE  UNCHANGED <<phase[s], at[s], turn[s], failures[s], before[s]>>
    BY <1>12, <2>1, <1>types DEF Fail, Finish, Goto, TypeOK
  <2>2. phase'[r] # "attempt"
    BY <1>12, <1>types DEF Fail, Finish, Goto, TypeOK
  <2>3. QED
    BY <2>1, <2>2, <1>same
<1>13. ASSUME NEW w \in inflight, Serve(w)
       PROVE  \A s \in Runs : Asks(s)
  <2>1. PICK p \in {"accept", "failed"} : Answered(w, p)
    BY <1>13 DEF Serve, Unchanged, Applied, Rejected
  <2>2. \A s \in Runs : phase'[s] = "attempt" => UNCHANGED phase[s]
    BY <2>1, <1>types DEF Answered, Goto, TypeOK
  <2>3. UNCHANGED <<at, turn, failures, before>>
    BY <1>13 DEF Serve
  <2>4. QED
    BY <2>2, <2>3, <1>same
<1>14. ASSUME NEW w \in inflight, Lose(w)
       PROVE  \A s \in Runs : Asks(s)
  BY <1>14, <1>same DEF Lose, run
<1>15. ASSUME NEW k \in Keys, EditKey(k)
       PROVE  \A s \in Runs : Asks(s)
  BY <1>15, <1>same DEF EditKey, run
<1>16. CASE DeleteOrRestore
  BY <1>16, <1>same DEF DeleteOrRestore, run
<1>17. CASE UNCHANGED vars
  BY <1>17, <1>same DEF vars, run
<1>18. QED
  BY <1>1, <1>2, <1>3, <1>4, <1>5, <1>6, <1>7, <1>8, <1>9, <1>10,
     <1>11, <1>12, <1>13, <1>14, <1>15, <1>16, <1>17
  DEF Next, Resolution, Persistence, Surroundings

\* No value and an origin other than a run are innocent.
LEMMA Innocents ==
  /\ Innocent(Nothing) /\ InnocentData(Empty)
  /\ \A o \in {External, Default} : \A x : Innocent(<<o, x>>)
<1>1. \A r \in Runs, q \in WriteBack : <<r, q>> \in Values
  BY Policy DEF Values
<1>2. Innocent(Nothing)
  BY <1>1, ResolverAssumption DEF Innocent
<1>3. InnocentData(Empty)
  BY <1>2 DEF InnocentData, Empty
<1>4. \A o \in {External, Default} : \A x : Innocent(<<o, x>>)
  BY ResolverAssumption DEF Innocent
<1>5. QED
  BY <1>2, <1>3, <1>4

\* What is innocent stays so.
LEMMA InnocentKept ==
  ASSUME DocumentInv, [Next]_vars, edits' = 0, NEW v, Innocent(v)
  PROVE  Innocent(v)'
<1>1. TypeOK /\ edits = 0
  BY EditsStay DEF DocumentInv
<1>2. ASSUME NEW r \in Runs, NEW q \in WriteBack, Unmade(r, q)'
      PROVE  Unmade(r, q)
  BY <1>1, <1>2, BeforeChange DEF Unmade
<1>3. QED
  BY <1>2 DEF Innocent

\* A value that a run generates is innocent: its key was not in the document
\* when it started.
LEMMA GeneratedIsInnocent ==
  ASSUME DocumentInv, AbsenceOnly, Attempting, edits = 0, NEW s \in Runs,
         Generate(s)
  PROVE  Innocent(Generated(s))
<1>1. phase[s] = "attempt" /\ AtProvider(s, "generated") /\ Eligible(s, "generated")
  BY DEF Generate, Attempts, AtProvider
<1>2. ASSUME Request(s) \in WriteBack, Key(s) \in before[s]
      PROVE  FALSE
  <2>1. AsksVault(s)
    BY <1>1, <1>2 DEF Attempting
  <2>2. QED
    BY <1>1, <1>2, <2>1, OnlyVault DEF DocumentInv
<1>3. QED
  BY <1>1, <1>2 DEF Innocent, Generated, Unmade, Key

\* A step makes no value that a run may not have generated.
LEMMA NothingMadeStep ==
  ASSUME DocumentInv, AbsenceOnly, Attempting, NothingMade, [Next]_vars
  PROVE  NothingMade'
<1> DEFINE Clean(w) == InnocentData(w.data)
           CleanRun(s) == InnocentData(snap'[s].data) /\ Innocent(value'[s])
           CleanStep == /\ InnocentData(data')
                        /\ \A w \in inflight' : Clean(w)
                        /\ \A s \in Runs : CleanRun(s)
<1> SUFFICES ASSUME edits' = 0
             PROVE  NothingMade'
  BY DEF NothingMade
<1>types. TypeOK /\ edits = 0
  BY EditsStay DEF DocumentInv
<1>now. /\ InnocentData(data) /\ InnocentData(Visible)
        /\ \A w \in inflight : Clean(w)
        /\ \A s \in Runs : InnocentData(snap[s].data) /\ Innocent(value[s])
  BY <1>types, Innocents DEF NothingMade, Visible
<1>same. ASSUME NEW s \in Runs, UNCHANGED <<snap[s], value[s]>>
         PROVE  CleanRun(s)
  BY <1>same, <1>now
<1>1. ASSUME NEW r \in Runs, Start(r)
      PROVE  CleanStep
  BY <1>1, <1>now, <1>same DEF Start, document
<1>2. ASSUME NEW r \in Runs, Skip(r)
      PROVE  CleanStep
  BY <1>2, <1>now, <1>same DEF Skip, document
<1>3. ASSUME NEW r \in Runs, ReadVault(r)
      PROVE  CleanStep
  <2>1. ASSUME NEW s \in Runs, s # r
        PROVE  UNCHANGED <<snap[s], value[s]>>
    BY <1>3, <2>1, <1>types DEF ReadVault, Resolve, RecordFailure, TypeOK
  <2>2. UNCHANGED <<document, inflight>>
    BY <1>3 DEF ReadVault, Resolve, RecordFailure
  <2>3. CleanRun(r)
    <3>1. Key(r) \in Keys /\ UNCHANGED snap
      BY <1>3, <1>types, Current DEF ReadVault, Resolve, RecordFailure
    <3>2. value'[r] \in {value[r], Visible[Key(r)]}
      BY <1>3, <1>types DEF ReadVault, Resolve, RecordFailure, TypeOK
    <3>3. QED
      BY <3>1, <3>2, <1>now DEF InnocentData
  <2>4. QED
    BY <2>1, <2>2, <2>3, <1>now, <1>same DEF document
<1>4. ASSUME NEW r \in Runs, ReadExternal(r)
      PROVE  CleanStep
  <2>1. ASSUME NEW s \in Runs, s # r
        PROVE  UNCHANGED <<snap[s], value[s]>>
    BY <1>4, <2>1, <1>types DEF ReadExternal, Resolve, RecordFailure, TypeOK
  <2>2. UNCHANGED <<document, inflight>>
    BY <1>4 DEF ReadExternal, Resolve, RecordFailure
  <2>3. CleanRun(r)
    <3>1. value'[r] \in {value[r], <<External, Request(r)>>} /\ UNCHANGED snap
      BY <1>4, <1>types DEF ReadExternal, Resolve, RecordFailure, TypeOK
    <3>2. QED
      BY <3>1, <1>now, Innocents
  <2>4. QED
    BY <2>1, <2>2, <2>3, <1>now, <1>same DEF document
<1>5. ASSUME NEW r \in Runs, NoAnswer(r)
      PROVE  CleanStep
  BY <1>5, <1>now, <1>same DEF NoAnswer, RecordFailure, document
<1>6. ASSUME NEW r \in Runs, Generate(r)
      PROVE  CleanStep
  <2>1. ASSUME NEW s \in Runs, s # r
        PROVE  UNCHANGED <<snap[s], value[s]>>
    BY <1>6, <2>1, <1>types DEF Generate, Resolve, TypeOK
  <2>2. UNCHANGED <<document, inflight>>
    BY <1>6 DEF Generate, Resolve
  <2>3. CleanRun(r)
    <3>1. value'[r] = Generated(r) /\ UNCHANGED snap
      BY <1>6, <1>types DEF Generate, Resolve, TypeOK
    <3>2. Innocent(Generated(r))
      BY <1>6, <1>types, GeneratedIsInnocent
    <3>3. QED
      BY <3>1, <3>2, <1>now
  <2>4. QED
    BY <2>1, <2>2, <2>3, <1>now, <1>same DEF document
<1>7. ASSUME NEW r \in Runs, UseDefault(r)
      PROVE  CleanStep
  <2>1. ASSUME NEW s \in Runs, s # r
        PROVE  UNCHANGED <<snap[s], value[s]>>
    BY <1>7, <2>1, <1>types DEF UseDefault, Resolve, TypeOK
  <2>2. UNCHANGED <<document, inflight>>
    BY <1>7 DEF UseDefault, Resolve
  <2>3. CleanRun(r)
    <3>1. value'[r] = <<Default, Request(r)>> /\ UNCHANGED snap
      BY <1>7, <1>types DEF UseDefault, Resolve, TypeOK
    <3>2. QED
      BY <3>1, <1>now, Innocents
  <2>4. QED
    BY <2>1, <2>2, <2>3, <1>now, <1>same DEF document
<1>8. ASSUME NEW r \in Runs, LeaveOut(r)
      PROVE  CleanStep
  <2>1. ASSUME NEW s \in Runs, s # r
        PROVE  UNCHANGED <<snap[s], value[s]>>
    BY <1>8, <2>1, <1>types DEF LeaveOut, NextRequest, Finish, TypeOK
  <2>2. UNCHANGED <<document, inflight>>
    BY <1>8 DEF LeaveOut, NextRequest, Finish
  <2>3. CleanRun(r)
    <3>1. \/ UNCHANGED <<snap[r], value[r]>>
          \/ snap'[r] = Clear /\ value'[r] = Nothing
      BY <1>8, <1>types DEF LeaveOut, NextRequest, Finish, TypeOK
    <3>2. Clear.data = Empty
      BY DEF Clear
    <3>3. QED
      BY <3>1, <3>2, <1>same, Innocents
  <2>4. QED
    BY <2>1, <2>2, <2>3, <1>now, <1>same DEF document
<1>9. ASSUME NEW r \in Runs, Accept(r)
      PROVE  CleanStep
  <2>1. ASSUME NEW s \in Runs, s # r
        PROVE  UNCHANGED <<snap[s], value[s]>>
    BY <1>9, <2>1, <1>types DEF Accept, NextRequest, Finish, TypeOK
  <2>2. UNCHANGED <<document, inflight>>
    BY <1>9 DEF Accept, NextRequest, Finish
  <2>3. CleanRun(r)
    <3>1. \/ UNCHANGED <<snap[r], value[r]>>
          \/ snap'[r] = Clear /\ value'[r] = Nothing
      BY <1>9, <1>types DEF Accept, NextRequest, Finish, TypeOK
    <3>2. Clear.data = Empty
      BY DEF Clear
    <3>3. QED
      BY <3>1, <3>2, <1>same, Innocents
  <2>4. QED
    BY <2>1, <2>2, <2>3, <1>now, <1>same DEF document
<1>10. ASSUME NEW r \in Runs, ReadTarget(r)
       PROVE  CleanStep
  <2>1. ASSUME NEW s \in Runs, s # r
        PROVE  UNCHANGED <<snap[s], value[s]>>
    BY <1>10, <2>1, <1>types DEF ReadTarget, TypeOK
  <2>2. UNCHANGED <<document, inflight>>
    BY <1>10 DEF ReadTarget
  <2>3. CleanRun(r)
    <3>1. snap'[r].data = Visible /\ UNCHANGED value
      BY <1>10, <1>types DEF ReadTarget, TypeOK
    <3>2. QED
      BY <3>1, <1>now
  <2>4. QED
    BY <2>1, <2>2, <2>3, <1>now, <1>same DEF document
<1>11. ASSUME NEW r \in Runs, SendWrite(r)
       PROVE  CleanStep
  <2>1. /\ inflight' = inflight \cup
             {[run |-> r, cas |-> snap[r].cas, data |-> NewDocument(r)]}
        /\ UNCHANGED <<document, snap, value>>
    BY <1>11 DEF SendWrite
  <2>2. snap[r].data \in Document
    BY <1>types DEF TypeOK
  <2>3. \A k \in Keys : NewDocument(r)[k] \in {snap[r].data[k], value[r]}
    BY <2>2 DEF NewDocument, Document
  <2>4. InnocentData(NewDocument(r))
    BY <2>3, <1>now DEF InnocentData
  <2>5. QED
    BY <2>1, <2>4, <1>now, <1>same DEF document
<1>12. ASSUME NEW r \in Runs, Fail(r)
       PROVE  CleanStep
  <2>1. ASSUME NEW s \in Runs, s # r
        PROVE  UNCHANGED <<snap[s], value[s]>>
    BY <1>12, <2>1, <1>types DEF Fail, Finish, TypeOK
  <2>2. UNCHANGED <<document, inflight>>
    BY <1>12 DEF Fail, Finish
  <2>3. CleanRun(r)
    <3>1. \/ UNCHANGED <<snap[r], value[r]>>
          \/ snap'[r] = Clear /\ value'[r] = Nothing
      BY <1>12, <1>types DEF Fail, Finish, TypeOK
    <3>2. Clear.data = Empty
      BY DEF Clear
    <3>3. QED
      BY <3>1, <3>2, <1>same, Innocents
  <2>4. QED
    BY <2>1, <2>2, <2>3, <1>now, <1>same DEF document
<1>13. ASSUME NEW w \in inflight, Serve(w)
       PROVE  CleanStep
  <2>1. UNCHANGED document \/ data' = w.data
    BY <1>13, <1>types, ServeOutcome
  <2>2. inflight' \subseteq inflight /\ UNCHANGED <<snap, value>>
    BY <1>13 DEF Serve
  <2>3. QED
    BY <2>1, <2>2, <1>now, <1>same DEF document
<1>14. ASSUME NEW w \in inflight, Lose(w)
       PROVE  CleanStep
  BY <1>14, <1>now, <1>same DEF Lose, run, document
<1>15. ASSUME NEW k \in Keys, EditKey(k)
       PROVE  CleanStep
  BY <1>15, <1>types DEF EditKey
<1>16. ASSUME DeleteOrRestore
       PROVE  CleanStep
  BY <1>16, <1>types DEF DeleteOrRestore
<1>17. ASSUME UNCHANGED vars
       PROVE  CleanStep
  <2>1. UNCHANGED <<data, inflight, snap, value>>
    BY <1>17 DEF vars, run, document
  <2>2. QED
    BY <2>1, <1>now, <1>same
<1> HIDE DEF CleanStep
<1>18. CleanStep
  BY <1>1, <1>2, <1>3, <1>4, <1>5, <1>6, <1>7, <1>8, <1>9, <1>10,
     <1>11, <1>12, <1>13, <1>14, <1>15, <1>16, <1>17
  DEF Next, Resolution, Persistence, Surroundings
<1>19. ASSUME NEW v, Innocent(v)
       PROVE  \A r \in Runs, q \in WriteBack : Unmade(r, q)' => v # <<r, q>>
  BY <1>19, InnocentKept DEF Innocent
<1>20. /\ \A k \in Keys : Innocent(data'[k])
       /\ \A w \in inflight' : \A k \in Keys : Innocent(w.data[k])
       /\ \A s \in Runs : \A k \in Keys : Innocent(snap'[s].data[k])
       /\ \A s \in Runs : Innocent(value'[s])
  BY <1>18 DEF CleanStep, InnocentData
<1>21. QED
  BY <1>19, <1>20 DEF NothingMade, InnocentData, Innocent

\* A run that is about to have a value accepted has not generated it, if its
\* key was in the document.
LEMMA LaterResults ==
  ASSUME DocumentInv, IdleIsFresh, NothingMade, LaterRunRetrieves, [Next]_vars
  PROVE  LaterRunRetrieves'
<1> SUFFICES ASSUME edits' = 0, NEW s \in Runs, NEW q \in WriteBack,
                    KeyOf[q] \in before'[s]
             PROVE  results'[s][q] # <<s, q>>
  BY DEF LaterRunRetrieves
<1>1. edits = 0 /\ TypeOK
  BY EditsStay DEF DocumentInv
<1>2. q \in Requests /\ <<s, q>> # Nothing
  BY Policy, ResolverAssumption DEF Values
<1>3. CASE results'[s][q] # results[s][q]
  <2>1. \/ results'[s][q] = Nothing
        \/ phase[s] = "accept" /\ results'[s][q] = value[s]
    BY <1>1, <1>2, <1>3, ResultsChange
  <2>2. Unmade(s, q) => value[s] # <<s, q>>
    BY <1>1 DEF NothingMade, Innocent
  <2>3. Unmade(s, q)
    BY <1>1, BeforeChange DEF Unmade
  <2>4. QED
    BY <1>2, <2>1, <2>2, <2>3
<1>4. CASE results'[s][q] = results[s][q] /\ KeyOf[q] \in before[s]
  BY <1>1, <1>4 DEF LaterRunRetrieves
<1>5. CASE results'[s][q] = results[s][q] /\ KeyOf[q] \notin before[s]
  <2>1. phase[s] = "idle"
    BY <1>1, <1>5, BeforeChange
  <2>2. QED
    BY <1>2, <1>5, <2>1 DEF IdleIsFresh
<1>6. QED
  BY <1>3, <1>4, <1>5

\* LaterRunRetrieves for every set of runs, requests and keys whose write-back
\* requests fall back after an absence only: a run that starts after a key was
\* written does not generate a value for it, whatever calls fail.
THEOREM LaterRunsRetrieve ==
  ASSUME AbsenceOnly
  PROVE  Spec => []LaterRunRetrieves
<1> DEFINE Inv == /\ DocumentInv /\ BeforeStays /\ IdleIsFresh /\ Attempting
                  /\ NothingMade /\ LaterRunRetrieves
<1>1. Init => Inv
  <2> SUFFICES ASSUME Init
               PROVE  Inv
    OBVIOUS
  <2>1. DocumentInv
    BY DocumentInit
  <2>2. BeforeStays /\ IdleIsFresh /\ Attempting
    BY DEF Init, BeforeStays, IdleIsFresh, Attempting
  <2>3. NothingMade
    BY Innocents DEF Init, NothingMade, Clear, Empty, InnocentData
  <2>4. LaterRunRetrieves
    BY DEF Init, LaterRunRetrieves
  <2>5. QED
    BY <2>1, <2>2, <2>3, <2>4
<1>2. Inv /\ [Next]_vars => Inv'
  <2> SUFFICES ASSUME Inv, [Next]_vars
               PROVE  Inv'
    OBVIOUS
  <2>1. DocumentInv' /\ BeforeStays' /\ Attempting'
    BY DocumentStep, BeforeStaysStep, AttemptingStep
  <2>2. IdleIsFresh'
    BY IdleStep DEF DocumentInv
  <2>3. NothingMade' /\ LaterRunRetrieves'
    BY NothingMadeStep, LaterResults
  <2>4. QED
    BY <2>1, <2>2, <2>3
<1>3. Inv => LaterRunRetrieves
  OBVIOUS
<1>4. QED
  BY <1>1, <1>2, <1>3, PTL DEF Spec
=============================================================================
