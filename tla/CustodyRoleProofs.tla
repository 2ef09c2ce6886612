--------------------------- MODULE CustodyRoleProofs ---------------------------
(***************************************************************************)
(* What the role luks_header_custody_cac promises, for any number of runs  *)
(* and of handoff exchanges.  The order of its tasks makes a chain: a      *)
(* response, a look at 1Password or a readback says that the Document is   *)
(* there (Witnessed); only then is a Vault apply sent (WriteFollows), so   *)
(* only then is the manifest committed.                                    *)
(***************************************************************************)
EXTENDS CustodyRole, TLAPS

\* Whatever says that there is a Document is right, while nobody deletes one.
Witnessed ==
  /\ \A r \in Runs : native[r] = "verified" => docs >= 1
  /\ \A a \in sent : a.verified => docs >= 1

\* A run that reached a Vault write saw the Document, or needs none.
WriteFollows ==
  /\ \A r \in Runs : (pc[r] = "vaultPlan" /\ mode[r] = "handoff" /\ op[r] # "plan")
                        => native[r] = "verified"
  /\ \A r \in Runs : (pc[r] \in {"vaultApply", "vaultApplying"} /\ mode[r] # "none")
                        => docs >= 1
  /\ \A r \in pendingVault : mode[r] # "none" => docs >= 1

Ordered == edits = 0 => Witnessed /\ WriteFollows

\* The response that a run may find is one that the desktop wrote.
Delivered == responseFile \in sent \cup {None}

\* The desktop looked inside the lifetime of its exchange.
Timely ==
  \A a \in sent :
    /\ expires[a.request.exchange] - issued[a.request.exchange] <= MaxLifetime
    /\ issued[a.request.exchange] - a.at <= MaxSkew

RoleInv ==
  /\ TypeOK /\ Delivered /\ Timely /\ Ordered
  /\ NativeBeforeVault /\ VerifiedIsTrue /\ ReceiptIsRecent

USE DEF Operations, Modes

\* The role's invariant holds before any task runs.
LEMMA InitHolds == Init => RoleInv
<1>1. SUFFICES ASSUME Init PROVE RoleInv
  OBVIOUS
<1>2. /\ docs = 0 /\ edits = 0 /\ custody = None /\ pendingVault = {}
      /\ pendingDocs = {} /\ sent = {} /\ responseFile = None /\ clock = 0
      /\ requestFile = None
      /\ native = [r \in Runs |-> "unknown"] /\ vault = [r \in Runs |-> "unknown"]
      /\ result = [r \in Runs |-> "none"]
      /\ receipt = [r \in Runs |-> 0] /\ consumed = [r \in Runs |-> 0]
      /\ pc = [r \in Runs |-> IF mode[r] = "none" THEN "vaultPlan" ELSE "native"]
  BY <1>1 DEF Init
<1>3. issued \in [Exchanges -> Nat] /\ expires \in [Exchanges -> Nat]
  <2>1. issued \in [Exchanges -> Nat]
    BY <1>1, RoleAssumption DEF Init, RoleAssumption
  <2>2. PICK l \in 1 .. MaxLifetime + 1 : expires = [e \in Exchanges |-> issued[e] + l]
    BY <1>1 DEF Init
  <2> QED BY <2>1, <2>2, RoleAssumption DEF RoleAssumption
<1>4. TypeOK
  BY <1>1, <1>2, <1>3 DEF Init, TypeOK, Phases, Working
<1>5. Delivered /\ Timely /\ Ordered
  BY <1>2 DEF Delivered, Timely, Ordered, Witnessed, WriteFollows
<1>6. NativeBeforeVault /\ VerifiedIsTrue /\ ReceiptIsRecent
  BY <1>2 DEF NativeBeforeVault, VerifiedIsTrue, ReceiptIsRecent
<1> QED BY <1>4, <1>5, <1>6 DEF RoleInv

--------------------------------------------------------------------------------
(* Types.                                                                       *)

\* Every step of the role and of its surroundings keeps the types.
LEMMA TypeStep == TypeOK /\ [Next]_vars => TypeOK'
<1> SUFFICES ASSUME TypeOK, [Next]_vars PROVE TypeOK'
  OBVIOUS
<1> USE DEF TypeOK, Phases, Working, Goto
<1>1. ASSUME NEW q \in Requests, Prepare(q) PROVE TypeOK'
  BY <1>1 DEF Prepare, providers, handoff, inputs, facts
<1>2. CASE Execute
  <2>1. [request |-> requestFile, verified |-> docs = 1, at |-> clock] \in Responses
    BY <1>2 DEF Execute, Responses
  <2> QED BY <1>2, <2>1 DEF Execute, providers, handoff, inputs, facts
<1>3. CASE Deliver \/ ClearRequest \/ DesktopApply \/ Tick
  BY <1>3 DEF Deliver, ClearRequest, DesktopApply, Tick, providers, handoff, inputs, facts
<1>4. CASE DeleteDocument \/ PurgeCustody
  BY <1>4 DEF DeleteDocument, PurgeCustody, providers, handoff, inputs, facts
<1>5. ASSUME NEW r \in Runs, NativePlan(r) PROVE TypeOK'
  BY <1>5 DEF NativePlan, Found, providers, handoff, inputs, facts
<1>6. ASSUME NEW r \in Runs, Consume(r) PROVE TypeOK'
  <2>1. responseFile.at \in Nat
    BY <1>6 DEF Consume, Answers, Responses
  <2>2. /\ native' = [native EXCEPT ![r] =
                        IF responseFile.verified THEN "verified" ELSE "absent"]
        /\ receipt' = [receipt EXCEPT ![r] = responseFile.at]
        /\ consumed' = [consumed EXCEPT ![r] = clock]
        /\ pc' = [pc EXCEPT ![r] = "vaultPlan"]
        /\ UNCHANGED <<clock, docs, pendingDocs, custody, pendingVault, edits,
                       issued, expires, requestFile, responseFile, sent, op, mode,
                       exchange, vault, result>>
    BY <1>6 DEF Consume, providers, handoff, inputs
  <2> QED BY <2>1, <2>2
<1>7. ASSUME NEW r \in Runs, ConsumeFails(r) \/ VaultVerifyFails(r) \/ TaskFails(r)
      PROVE TypeOK'
  BY <1>7 DEF ConsumeFails, VaultVerifyFails, TaskFails, providers, handoff, inputs, facts
<1>8. ASSUME NEW r \in Runs, VaultPlan(r) PROVE TypeOK'
  BY <1>8 DEF VaultPlan, VaultFound, AfterNative, providers, handoff, inputs, facts
<1>9. ASSUME NEW r \in Runs, SendDocument(r) \/ ReadBack(r) PROVE TypeOK'
  BY <1>9 DEF SendDocument, ReadBack, AfterNative, providers, handoff, inputs, facts
<1>10. ASSUME NEW r \in Runs \cup {Desktop}, ServeDocument(r) PROVE TypeOK'
  BY <1>10 DEF ServeDocument, providers, handoff, inputs, facts
<1>11. ASSUME NEW r \in Runs, SendVault(r) \/ ServeVault(r) \/ VaultConflict(r)
       PROVE TypeOK'
  BY <1>11 DEF SendVault, ServeVault, VaultConflict, providers, handoff, inputs, facts
<1>12. ASSUME NEW r \in Runs, NativeVerify(r) PROVE TypeOK'
  BY <1>12 DEF NativeVerify, Found, providers, handoff, inputs, facts
<1>13. ASSUME NEW r \in Runs, Publish(r) PROVE TypeOK'
  BY <1>13 DEF Publish, VaultFound, providers, handoff, inputs, facts
<1>14. CASE UNCHANGED vars
  BY <1>14 DEF vars, providers, handoff, inputs, facts
<1> QED BY <1>1, <1>2, <1>3, <1>4, <1>5, <1>6, <1>7, <1>8, <1>9, <1>10, <1>11,
           <1>12, <1>13, <1>14 DEF Next, RoleStep, Exchange, Finished

--------------------------------------------------------------------------------
(* The handoff: Delivered, Timely and ReceiptIsRecent.                          *)

Recent == Delivered /\ Timely /\ ReceiptIsRecent

\* What a run takes from a response is as old as its exchange allows.
LEMMA ConsumedIsRecent ==
  ASSUME TypeOK, Delivered, Timely, NEW r \in Runs, Consume(r)
  PROVE  clock - responseFile.at < MaxLifetime + MaxSkew
<1>1. /\ Valid(Request(r)) /\ responseFile # None
      /\ responseFile.request = Request(r)
  BY DEF Consume, Answers
<1>2. responseFile \in sent /\ responseFile \in Responses
  BY <1>1 DEF Delivered, TypeOK
<1>3. responseFile.request.exchange = exchange[r] /\ exchange[r] \in Exchanges
  BY <1>1 DEF Request, TypeOK
<1>4. /\ expires[exchange[r]] - issued[exchange[r]] <= MaxLifetime
      /\ issued[exchange[r]] - responseFile.at <= MaxSkew
  BY <1>2, <1>3 DEF Timely
<1>5. clock < expires[exchange[r]]
  BY <1>1 DEF Valid, Request
<1>6. /\ clock \in Nat /\ responseFile.at \in Nat
      /\ expires[exchange[r]] \in Nat /\ issued[exchange[r]] \in Nat
  BY <1>2, <1>3 DEF TypeOK, Responses
<1> QED BY <1>4, <1>5, <1>6, RoleAssumption DEF RoleAssumption

\* A receipt is recent when it is consumed, and is not replaced afterwards.
LEMMA RecentStep == TypeOK /\ Recent /\ [Next]_vars => Recent'
<1> SUFFICES ASSUME TypeOK, Recent, [Next]_vars PROVE Recent'
  OBVIOUS
<1> USE DEF Recent
<1>1. CASE Execute
  <2> DEFINE a == [request |-> requestFile, verified |-> docs = 1, at |-> clock]
  <2>1. /\ requestFile \in Requests /\ Valid(requestFile) /\ sent' = sent \cup {a}
        /\ UNCHANGED <<issued, expires, responseFile, mode, pc, receipt, consumed>>
    BY <1>1 DEF Execute, TypeOK, inputs, facts
  <2>2. requestFile.exchange \in Exchanges
    BY <2>1 DEF Requests
  <2>3. /\ expires[requestFile.exchange] - issued[requestFile.exchange] <= MaxLifetime
        /\ issued[requestFile.exchange] - clock <= MaxSkew
    BY <2>1, <2>2, RoleAssumption DEF Valid, TypeOK, RoleAssumption
  <2>4. Timely'
    <3>1. a.request = requestFile /\ a.at = clock
      OBVIOUS
    <3> QED BY <2>1, <2>3, <3>1 DEF Timely
  <2>5. Delivered' /\ ReceiptIsRecent'
    BY <2>1 DEF Delivered, ReceiptIsRecent
  <2> QED BY <2>4, <2>5
<1>2. CASE Deliver
  BY <1>2 DEF Deliver, Delivered, Timely, ReceiptIsRecent, inputs, facts
<1>3. ASSUME NEW r \in Runs, Consume(r) PROVE Recent'
  <2>1. /\ receipt' = [receipt EXCEPT ![r] = responseFile.at]
        /\ consumed' = [consumed EXCEPT ![r] = clock]
        /\ pc' = [pc EXCEPT ![r] = "vaultPlan"]
        /\ UNCHANGED <<issued, expires, responseFile, sent, mode>>
    BY <1>3 DEF Consume, Goto, handoff, inputs
  <2>2. clock - responseFile.at < MaxLifetime + MaxSkew
    BY <1>3, ConsumedIsRecent
  <2>3. ReceiptIsRecent'
    BY <2>1, <2>2 DEF ReceiptIsRecent, TypeOK
  <2>4. Delivered' /\ Timely'
    BY <2>1 DEF Delivered, Timely
  <2> QED BY <2>3, <2>4
\* Every other step leaves the exchanges, the responses and the receipts alone,
\* and brings no run of the handoff into its Vault tasks.
<1>4. ASSUME UNCHANGED <<issued, expires, responseFile, sent, mode, receipt, consumed>>,
             \A u \in Runs : (mode[u] = "handoff" /\ pc'[u] \notin {"native", "failed"})
                               => pc[u] \notin {"native", "failed"}
      PROVE Recent'
  BY <1>4 DEF Delivered, Timely, ReceiptIsRecent
<1> USE DEF TypeOK, Goto
<1>5. ASSUME NEW q \in Requests, Prepare(q) PROVE Recent'
  BY <1>4, <1>5 DEF Prepare, inputs, facts
<1>6. CASE ClearRequest \/ DesktopApply \/ Tick \/ DeleteDocument \/ PurgeCustody
  BY <1>4, <1>6 DEF ClearRequest, DesktopApply, Tick, DeleteDocument, PurgeCustody,
                    handoff, inputs, facts
<1>7. ASSUME NEW r \in Runs,
             NativePlan(r) \/ ConsumeFails(r) \/ VaultVerifyFails(r) \/ TaskFails(r)
      PROVE Recent'
  BY <1>4, <1>7 DEF NativePlan, ConsumeFails, VaultVerifyFails, TaskFails, Working,
                    handoff, inputs, facts
<1>8. ASSUME NEW r \in Runs, VaultPlan(r) \/ SendDocument(r) \/ ReadBack(r)
      PROVE Recent'
  BY <1>4, <1>8 DEF VaultPlan, SendDocument, ReadBack, AfterNative, handoff, inputs, facts
<1>9. ASSUME NEW r \in Runs \cup {Desktop}, ServeDocument(r) PROVE Recent'
  BY <1>4, <1>9 DEF ServeDocument, handoff, inputs, facts
<1>10. ASSUME NEW r \in Runs, SendVault(r) \/ ServeVault(r) \/ VaultConflict(r)
       PROVE Recent'
  BY <1>4, <1>10 DEF SendVault, ServeVault, VaultConflict, handoff, inputs, facts
<1>11. ASSUME NEW r \in Runs, NativeVerify(r) \/ Publish(r) PROVE Recent'
  BY <1>4, <1>11 DEF NativeVerify, Publish, handoff, inputs, facts
<1>12. CASE UNCHANGED vars
  BY <1>4, <1>12 DEF vars, handoff, inputs, facts
<1> QED BY <1>1, <1>2, <1>3, <1>5, <1>6, <1>7, <1>8, <1>9, <1>10, <1>11, <1>12
        DEF Next, RoleStep, Exchange, Finished

--------------------------------------------------------------------------------
(* The order of the writes: Ordered, NativeBeforeVault and VerifiedIsTrue.      *)

Sound == Ordered /\ NativeBeforeVault /\ VerifiedIsTrue

\* No task reorders the chain from the Document to the Vault manifest.
LEMMA SoundStep == TypeOK /\ Delivered /\ Sound /\ [Next]_vars => Sound'
<1> SUFFICES ASSUME TypeOK, Delivered, Sound, [Next]_vars PROVE Sound'
  OBVIOUS
<1> USE DEF Sound
<1>1. DeleteDocument \/ PurgeCustody => edits' # 0
  BY DEF DeleteDocument, PurgeCustody, TypeOK
\* All that is said is about a time without an operator's edits.
<1> DEFINE Facts == /\ Witnessed /\ WriteFollows
                    /\ (custody # None /\ mode[custody] # "none") => docs >= 1
                    /\ \A r \in Runs : result[r] = "verified" =>
                         custody # None /\ (mode[r] # "none" => docs >= 1)
<1>2. (edits = 0 => Facts) /\ ((edits' = 0 => Facts') => Sound')
  BY DEF Ordered, NativeBeforeVault, VerifiedIsTrue
<1>3. SUFFICES ASSUME edits = 0, edits' = 0, Facts PROVE Facts'
  <2>1. edits' = 0 => edits = 0
    BY <1>1 DEF Next, RoleStep, Exchange, Finished, Prepare, Execute, Deliver,
       ClearRequest, DesktopApply, Tick, NativePlan, Consume, ConsumeFails,
       VaultPlan, SendDocument, ServeDocument, ReadBack, SendVault, ServeVault,
       VaultConflict, NativeVerify, Publish, VaultVerifyFails, TaskFails, vars,
       providers
  <2> QED BY <1>2, <2>1
<1> USE DEF Witnessed, WriteFollows, TypeOK, Goto
<1>4. CASE Execute
  <2>1. /\ sent' = sent \cup
             {[request |-> requestFile, verified |-> docs = 1, at |-> clock]}
        /\ UNCHANGED <<docs, custody, pendingVault, op, mode, pc, native, result>>
    BY <1>4 DEF Execute, providers, inputs, facts
  <2>2. \A a \in sent' : a.verified => docs >= 1
    <3> DEFINE b == [request |-> requestFile, verified |-> docs = 1, at |-> clock]
    <3>1. b.verified => docs >= 1
      <4>1. b.verified <=> docs = 1
        BY Zenon
      <4>2. docs = 1 => docs >= 1
        OBVIOUS
      <4> HIDE DEF b
      <4> QED BY <4>1, <4>2
    <3>2. sent' = sent \cup {b}
      BY <2>1
    <3> HIDE DEF b
    <3> QED BY <1>3, <3>1, <3>2
  <2> QED BY <1>3, <2>1, <2>2
<1>5. ASSUME NEW q \in Requests, Prepare(q) PROVE Facts'
  BY <1>3, <1>5 DEF Prepare, providers, inputs, facts
<1>6. CASE Deliver \/ ClearRequest \/ DesktopApply \/ Tick
  BY <1>3, <1>6 DEF Deliver, ClearRequest, DesktopApply, Tick, providers, handoff,
                    inputs, facts
<1>7. ASSUME NEW r \in Runs, NativePlan(r) PROVE Facts'
  BY <1>3, <1>7 DEF NativePlan, Found, providers, handoff, inputs
<1>8. ASSUME NEW r \in Runs, Consume(r) PROVE Facts'
  <2>1. /\ native' = [native EXCEPT ![r] =
                        IF responseFile.verified THEN "verified" ELSE "absent"]
        /\ pc' = [pc EXCEPT ![r] = "vaultPlan"]
        /\ op[r] # "plan" => responseFile.verified
        /\ UNCHANGED <<docs, custody, pendingVault, sent, op, mode, result>>
    BY <1>8 DEF Consume, providers, handoff, inputs
  <2>2. responseFile.verified => docs >= 1
    BY <1>3, <1>8 DEF Delivered, Consume, Answers
  <2> QED BY <1>3, <2>1, <2>2
<1>9. ASSUME NEW r \in Runs, ConsumeFails(r) \/ VaultVerifyFails(r) \/ TaskFails(r)
      PROVE Facts'
  BY <1>3, <1>9 DEF ConsumeFails, VaultVerifyFails, TaskFails, providers, handoff,
                    inputs, facts
\* A Vault apply follows a plan: either nothing is asked of 1Password, or the
\* Document was seen.
<1>10. ASSUME NEW r \in Runs, VaultPlan(r) PROVE Facts'
  <2>1. /\ pc[r] = "vaultPlan"
        /\ pc'[r] = "vaultApply" /\ mode[r] # "none" => native[r] = "verified"
        /\ pc'[r] # "vaultPlan" /\ pc'[r] # "vaultApplying"
        /\ \A u \in Runs \ {r} : pc'[u] = pc[u]
        /\ UNCHANGED <<docs, custody, pendingVault, sent, op, mode, native, result>>
    BY <1>3, <1>10 DEF VaultPlan, AfterNative, providers, handoff, inputs
  <2> QED BY <1>3, <2>1
<1>11. ASSUME NEW r \in Runs, SendDocument(r) \/ ReadBack(r) PROVE Facts'
  BY <1>3, <1>11 DEF SendDocument, ReadBack, AfterNative, providers, handoff, inputs,
                     facts
<1>12. ASSUME NEW r \in Runs \cup {Desktop}, ServeDocument(r) PROVE Facts'
  BY <1>3, <1>12 DEF ServeDocument, handoff, inputs, facts
<1>13. ASSUME NEW r \in Runs, SendVault(r) \/ VaultConflict(r) PROVE Facts'
  BY <1>3, <1>13 DEF SendVault, VaultConflict, handoff, inputs, facts
<1>14. ASSUME NEW r \in Runs, ServeVault(r) PROVE Facts'
  <2>1. /\ r \in pendingVault /\ r # None
        /\ custody' = IF custody = None THEN r ELSE custody
        /\ mode[r] # "none" => docs >= 1
    BY <1>3, <1>14, RoleAssumption DEF ServeVault, RoleAssumption
  <2> QED BY <1>3, <1>14, <2>1 DEF ServeVault, handoff, inputs, facts
<1>15. ASSUME NEW r \in Runs, NativeVerify(r) PROVE Facts'
  BY <1>3, <1>15 DEF NativeVerify, Found, providers, handoff, inputs
<1>16. ASSUME NEW r \in Runs, Publish(r) PROVE Facts'
  <2>1. /\ vault'[r] = VaultFound
        /\ result'[r] = "verified" =>
             custody # None /\ (mode[r] # "none" => native[r] = "verified")
        /\ \A u \in Runs \ {r} : result'[u] = result[u]
        /\ pc' = [pc EXCEPT ![r] = "done"]
        /\ UNCHANGED <<docs, custody, pendingVault, sent, op, mode, native>>
    BY <1>16 DEF Publish, VaultFound, providers, handoff, inputs
  <2> QED BY <1>3, <2>1
<1>17. CASE UNCHANGED vars
  BY <1>3, <1>17 DEF vars, providers, handoff, inputs, facts
<1> QED BY <1>3, <1>1, <1>4, <1>5, <1>6, <1>7, <1>8, <1>9, <1>10, <1>11, <1>12, <1>13,
           <1>14, <1>15, <1>16, <1>17 DEF Next, RoleStep, Exchange, Finished

--------------------------------------------------------------------------------
\* The inductive invariant of the role.
THEOREM RoleInvariant == Spec => []RoleInv
<1>1. RoleInv /\ [Next]_vars => RoleInv'
  BY TypeStep, RecentStep, SoundStep DEF RoleInv, Recent, Sound
<1> QED BY InitHolds, <1>1, PTL DEF Spec

\* Every variable keeps its type, in every reachable state.
THEOREM TypeCorrect == Spec => []TypeOK
BY RoleInvariant, PTL DEF RoleInv

\* Vault never holds a package whose second copy was asked for and does not
\* exist: cac_custody.yml's order holds through overlapping and killed runs.
THEOREM VaultWaitsForTheCopy == Spec => []NativeBeforeVault
BY RoleInvariant, PTL DEF RoleInv

\* A published result that says "verified" is true of both providers.
THEOREM ResultsAreTrue == Spec => []VerifiedIsTrue
BY RoleInvariant, PTL DEF RoleInv

\* No run relies on a response whose look at 1Password is older than the longest
\* exchange and the clock skew that validate_request admits.
THEOREM ReceiptsAreRecent == Spec => []ReceiptIsRecent
BY RoleInvariant, PTL DEF RoleInv

--------------------------------------------------------------------------------
(* Running the role again: nothing is left that could make a task fail.         *)

\* Phases of an apply over ssh that finds the Document.
Rerunning == {"native", "vaultPlan", "vaultApply", "vaultApplying", "nativeVerify",
              "vaultVerify", "done"}

\* Run r is alone with the Document, and all that is under way is its own.
RerunInv(r) ==
  /\ mode[r] = "ssh" /\ op[r] = "apply"
  /\ docs = 1 /\ pendingDocs = {}
  /\ \A u \in Runs \ {r} : pc[u] \in {"done", "failed"} /\ u \notin pendingVault
  /\ r \in pendingVault => pc[r] = "vaultApplying"
  /\ pc[r] \in Rerunning
  /\ pc[r] # "native" => native[r] = "verified"
  /\ pc[r] \in {"vaultApply", "vaultApplying"} => custody = None
  /\ pc[r] \in {"nativeVerify", "vaultVerify", "done"} => custody # None
  /\ pc[r] = "done" => result[r] = "verified"

\* Every task of the run succeeds; only an operator can disturb it.
LEMMA RerunStep ==
  ASSUME TypeOK, [Next]_vars, NEW r \in Runs \ Faulty, RerunInv(r)
  PROVE  edits' > edits \/ (edits' = edits /\ RerunInv(r)')
<1> DEFINE Goal == edits' = edits /\ RerunInv(r)'
<1> USE RoleAssumption DEF TypeOK, RerunInv, Rerunning, RoleAssumption, Goto
<1>1. ASSUME NEW q \in Requests, Prepare(q) PROVE Goal
  BY <1>1 DEF Prepare, providers, inputs, facts
<1>2. CASE Execute \/ Deliver \/ ClearRequest \/ Tick
  BY <1>2 DEF Execute, Deliver, ClearRequest, Tick, providers, handoff, inputs, facts
<1>3. CASE DesktopApply
  BY <1>3 DEF DesktopApply
<1>4. CASE DeleteDocument \/ PurgeCustody
  BY <1>4 DEF DeleteDocument, PurgeCustody
<1>5. ASSUME NEW u \in Runs \cup {Desktop}, ServeDocument(u) PROVE FALSE
  BY <1>5 DEF ServeDocument
\* The other runs are over, and have left nothing under way.
<1>6. ASSUME NEW u \in Runs, RoleStep(u) \/ TaskFails(u) PROVE u = r
  <2>1. CASE TaskFails(u)
    BY <2>1 DEF TaskFails, Working
  <2>2. CASE ServeVault(u) \/ VaultConflict(u) \/ ServeDocument(u)
    BY <2>2 DEF ServeVault, VaultConflict, ServeDocument
  <2>3. CASE \/ NativePlan(u) \/ Consume(u) \/ ConsumeFails(u) \/ VaultPlan(u)
             \/ SendDocument(u) \/ ReadBack(u) \/ SendVault(u)
             \/ NativeVerify(u) \/ Publish(u) \/ VaultVerifyFails(u)
    BY <2>3 DEF NativePlan, Consume, ConsumeFails, VaultPlan, SendDocument, ReadBack,
       SendVault, NativeVerify, Publish, VaultVerifyFails
  <2> QED BY <1>6, <2>1, <2>2, <2>3 DEF RoleStep
<1>7. CASE NativePlan(r)
  BY <1>7 DEF NativePlan, Found, providers, inputs
<1>8. CASE VaultPlan(r)
  BY <1>8 DEF VaultPlan, VaultFound, AfterNative, providers, inputs
<1>9. CASE SendVault(r)
  BY <1>9 DEF SendVault, inputs, facts
<1>10. CASE ServeVault(r)
  <2>1. /\ pc[r] = "vaultApplying" /\ custody' = r /\ r # None
        /\ pc' = [pc EXCEPT ![r] = "nativeVerify"]
        /\ pendingVault' = pendingVault \ {r}
        /\ UNCHANGED <<docs, pendingDocs, edits, op, mode, native, result>>
    BY <1>10 DEF ServeVault, inputs, facts
  <2> QED BY <2>1
<1>11. CASE NativeVerify(r)
  BY <1>11 DEF NativeVerify, Found, providers, inputs
<1>12. CASE Publish(r)
  <2>1. /\ pc[r] = "vaultVerify" /\ custody # None /\ native[r] = "verified"
        /\ vault'[r] = "verified"
        /\ result' = [result EXCEPT ![r] = "verified"]
        /\ pc' = [pc EXCEPT ![r] = "done"]
        /\ UNCHANGED <<docs, pendingDocs, pendingVault, custody, edits, op, mode,
                       native>>
    BY <1>12 DEF Publish, VaultFound, providers, inputs
  <2> QED BY <2>1
\* What could go wrong does not happen: the Document is the only one, the run is
\* no reader of responses, and nobody takes an object before it.
<1>13. CASE VaultConflict(r)
  <2>1. pendingVault = {r} /\ custody = None
    BY <1>13 DEF VaultConflict
  <2> QED BY <1>13, <2>1 DEF VaultConflict
<1>14. CASE \/ Consume(r) \/ ConsumeFails(r) \/ SendDocument(r) \/ ReadBack(r)
            \/ VaultVerifyFails(r) \/ TaskFails(r)
  BY <1>14 DEF Consume, ConsumeFails, SendDocument, ReadBack, VaultVerifyFails,
     TaskFails
<1>15. CASE Finished \/ UNCHANGED vars
  BY <1>15 DEF Finished, vars, providers, inputs, facts
<1> QED BY <1>1, <1>2, <1>3, <1>4, <1>5, <1>6, <1>7, <1>8, <1>9, <1>10, <1>11, <1>12,
           <1>13, <1>14, <1>15 DEF Next, RoleStep, Exchange

\* Over whatever failed or killed runs left behind, an apply over ssh that has
\* the custody to itself can only end with a verified result.
THEOREM RerunsSucceed == Spec => RerunSucceeds
<1>1. ASSUME NEW r \in Runs \ Faulty, NEW n \in 0 .. MaxEdits
      PROVE  Spec => [](RerunStarts(r) /\ edits = n =>
                         [](edits = n => /\ pc[r] # "failed"
                                         /\ pc[r] = "done" => result[r] = "verified"))
  <2> DEFINE Safe == edits > n \/ (edits = n /\ RerunInv(r))
  <2>1. TypeOK /\ RerunStarts(r) /\ edits = n => Safe
    BY DEF RerunStarts, Quiet, RerunInv, Rerunning
  <2>2. TypeOK /\ Safe /\ [Next]_vars => Safe'
    <3> SUFFICES ASSUME TypeOK, Safe, [Next]_vars PROVE Safe'
      OBVIOUS
    <3>1. edits \in Nat /\ edits' \in Nat /\ n \in Nat
      BY TypeStep, RoleAssumption DEF TypeOK, RoleAssumption
    <3>2. edits' >= edits
      BY <3>1 DEF Next, RoleStep, Exchange, Finished, Prepare, Execute, Deliver,
         ClearRequest, DesktopApply, Tick, NativePlan, Consume, ConsumeFails,
         VaultPlan, SendDocument, ServeDocument, ReadBack, SendVault, ServeVault,
         VaultConflict, NativeVerify, Publish, VaultVerifyFails, TaskFails, vars,
         providers, DeleteDocument, PurgeCustody
    <3>3. CASE edits > n
      BY <3>1, <3>2, <3>3
    <3>4. CASE edits = n /\ RerunInv(r)
      BY <3>1, <3>4, RerunStep
    <3> QED BY <3>3, <3>4
  <2>3. Safe => (edits = n => /\ pc[r] # "failed"
                              /\ pc[r] = "done" => result[r] = "verified")
    <3> SUFFICES ASSUME Safe, edits = n
                 PROVE  pc[r] # "failed" /\ (pc[r] = "done" => result[r] = "verified")
      OBVIOUS
    <3>1. n \in Nat
      BY RoleAssumption DEF RoleAssumption
    <3> QED BY <3>1 DEF RerunInv, Rerunning
  <2> QED BY <2>1, <2>2, <2>3, TypeCorrect, PTL DEF Spec
<1> QED BY <1>1 DEF RerunSucceeds
================================================================================
