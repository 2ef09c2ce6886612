--------------------------- MODULE ApprovalProofs ---------------------------
(* Theorems about Approval, for every set of tasks, requests, replay       *)
(* identities and directories and for every bound.                         *)
EXTENDS Approval, TLAPS

\* What a task is handed is a well-formed approval.
LEMMA PresentableIsApproval ==
  ASSUME TypeOK
  PROVE  Presentable \subseteq Approvals
<1> USE ApprovalAssumption
<1>1. \A p \in signed : ApprovalOf(p) \in Approvals
  BY DEF TypeOK, Payloads, Approvals, ApprovalOf
<1>2. \A p \in signed :
        [ApprovalOf(p) EXCEPT !.expires = p.issued + MaxLifetime] \in Approvals
  BY DEF TypeOK, Payloads, Approvals, ApprovalOf
<1>3. QED
  BY <1>1, <1>2 DEF Presentable

\* Every variable keeps its type.
LEMMA TypeStep == TypeOK /\ [Next]_vars => TypeOK'
<1> SUFFICES ASSUME TypeOK, [Next]_vars
             PROVE  TypeOK'
  OBVIOUS
<1> USE ApprovalAssumption DEF TypeOK, Phases, Live, Goto, ledger, work
<1>1. CASE Tick
  BY <1>1 DEF Tick
<1>2. ASSUME NEW rid \in ReplayIds, NEW r \in Requests,
             NEW lifetime \in 1 .. MaxLifetime,
             NEW issued \in clock .. clock + MaxDrift,
             Sign(rid, r, issued, lifetime)
      PROVE  TypeOK'
  <2>1. [rid |-> rid, issued |-> issued, expires |-> issued + lifetime,
         request |-> r] \in Payloads
    BY DEF Payloads
  <2>2. QED
    BY <1>2, <2>1 DEF Sign
<1>3. CASE PowerLoss
  BY <1>3 DEF PowerLoss
<1>4. CASE ReplaceDirectory
  BY <1>4 DEF ReplaceDirectory
<1>5. ASSUME NEW t \in Tasks, NEW a \in Presentable, NormalizeFields(t, a)
      PROVE  TypeOK'
  <2>1. a \in Approvals
    BY PresentableIsApproval
  <2>2. QED
    BY <1>5, <2>1 DEF NormalizeFields
<1>6. ASSUME NEW t \in Tasks, VerifySignature(t)
      PROVE  TypeOK'
  BY <1>6 DEF VerifySignature
<1>7. ASSUME NEW t \in Tasks, LookForMarker(t)
      PROVE  TypeOK'
  BY <1>7 DEF LookForMarker
<1>8. ASSUME NEW t \in Tasks, CheckClaimTime(t)
      PROVE  TypeOK'
  BY <1>8 DEF CheckClaimTime
<1>9. ASSUME NEW t \in Tasks, OpenReplayDirectory(t)
      PROVE  TypeOK'
  BY <1>9 DEF OpenReplayDirectory
<1>10. ASSUME NEW t \in Tasks, CreateMarker(t)
       PROVE  TypeOK'
  <2>1. held[t] \in Approvals /\ held[t].rid \in ReplayIds
    BY <1>10 DEF CreateMarker, Approvals
  <2>2. QED
    BY <1>10, <2>1 DEF CreateMarker
<1>11. ASSUME NEW t \in Tasks, SyncMarker(t)
       PROVE  TypeOK'
  <2>1. held[t] \in Approvals /\ held[t].rid \in ReplayIds
    BY <1>11 DEF SyncMarker, Approvals
  <2>2. QED
    BY <1>11, <2>1 DEF SyncMarker
<1>12. ASSUME NEW t \in Tasks, Mutate(t) \/ Refuse(t) \/ Crash(t)
       PROVE  TypeOK'
  BY <1>12 DEF Mutate, Refuse, Crash
<1>13. CASE Finished \/ UNCHANGED vars
  BY <1>13 DEF Finished, vars
<1>14. QED
  BY <1>1, <1>2, <1>3, <1>4, <1>5, <1>6, <1>7, <1>8, <1>9, <1>10, <1>11,
     <1>12, <1>13 DEF Next, Environment, ClaimStep

\* Approval and directory of a task that is past normalization are typed.
LEMMA WorkTyped ==
  ASSUME TypeOK, NEW t \in Tasks, pc[t] \in Normalized
  PROVE  held[t] \in Approvals /\ held[t].rid \in ReplayIds /\ ident[t] \in Dirs
BY DEF TypeOK, Normalized, Approvals

\* The ledger part of the invariant: entries, their durability and owners.
LedgerInv ==
  OpenedIsValidated /\ DurableIsVisible /\ MarkerPresent /\ MarkerExclusive

\* The markers' invariant is kept by every step.
LEMMA LedgerStep ==
  TypeOK /\ LedgerInv /\ [Next]_vars => LedgerInv'
<1> SUFFICES ASSUME TypeOK, LedgerInv, [Next]_vars
             PROVE  LedgerInv'
  OBVIOUS
<1> USE DEF LedgerInv, OpenedIsValidated, DurableIsVisible, MarkerPresent, MarkerExclusive,
            TypeOK, Phases, Live, Goto, ledger, work,
            Normalized, Marked, Claimed
<1>1. CASE Tick
  BY <1>1 DEF Tick
<1>2. CASE \E rid \in ReplayIds, r \in Requests, lifetime \in 1 .. MaxLifetime,
              issued \in clock .. clock + MaxDrift : Sign(rid, r, issued, lifetime)
  BY <1>2 DEF Sign
<1>3. CASE PowerLoss
  BY <1>3 DEF PowerLoss
<1>4. CASE ReplaceDirectory
  BY <1>4 DEF ReplaceDirectory
<1>5. ASSUME NEW t \in Tasks, NEW a \in Presentable, NormalizeFields(t, a)
      PROVE  LedgerInv'
  BY <1>5 DEF NormalizeFields
<1>6. ASSUME NEW t \in Tasks, VerifySignature(t)
      PROVE  LedgerInv'
  BY <1>6 DEF VerifySignature
<1>7. ASSUME NEW t \in Tasks, LookForMarker(t)
      PROVE  LedgerInv'
  BY <1>7 DEF LookForMarker
<1>8. ASSUME NEW t \in Tasks, CheckClaimTime(t)
      PROVE  LedgerInv'
  BY <1>8 DEF CheckClaimTime
<1>9. ASSUME NEW t \in Tasks, OpenReplayDirectory(t)
      PROVE  LedgerInv'
  BY <1>9 DEF OpenReplayDirectory
<1>10. ASSUME NEW t \in Tasks, CreateMarker(t)
       PROVE  LedgerInv'
  <2>1. ident[t] \in Dirs /\ opened[t] = ident[t] /\ held[t].rid \in ReplayIds
    BY <1>10, WorkTyped DEF CreateMarker
  <2>2. OpenedIsValidated' /\ DurableIsVisible' /\ MarkerPresent'
    BY <1>10, <2>1 DEF CreateMarker
  <2>3. \A u \in Tasks : u # t /\ pc[u] \in Marked /\ ident[u] = ident[t]
          => held[u].rid # held[t].rid
    BY <1>10, <2>1 DEF CreateMarker
  <2>4. MarkerExclusive'
    BY <1>10, <2>3 DEF CreateMarker
  <2>5. QED
    BY <2>2, <2>4
<1>11. ASSUME NEW t \in Tasks, SyncMarker(t)
       PROVE  LedgerInv'
  <2>1. ident[t] \in Dirs /\ opened[t] = ident[t] /\ held[t].rid \in ReplayIds
    BY <1>11, WorkTyped DEF SyncMarker
  <2>2. held[t].rid \in markers[ident[t]]
    BY <1>11 DEF SyncMarker
  <2>3. QED
    BY <1>11, <2>1, <2>2 DEF SyncMarker
<1>12. ASSUME NEW t \in Tasks, Mutate(t)
       PROVE  LedgerInv'
  BY <1>12 DEF Mutate
<1>13. ASSUME NEW t \in Tasks, Refuse(t) \/ Crash(t)
       PROVE  LedgerInv'
  BY <1>13 DEF Refuse, Crash
<1>14. CASE Finished \/ UNCHANGED vars
  BY <1>14 DEF Finished, vars
<1>15. QED
  BY <1>1, <1>2, <1>3, <1>4, <1>5, <1>6, <1>7, <1>8, <1>9, <1>10, <1>11,
     <1>12, <1>13, <1>14 DEF Next, Environment, ClaimStep

\* The checks: none is undone by a later step of any task, by the clock or
\* by the environment.
LEMMA ChecksStep ==
  TypeOK /\ ChecksHold /\ [Next]_vars => ChecksHold'
<1> SUFFICES ASSUME TypeOK, ChecksHold, [Next]_vars
             PROVE  ChecksHold'
  OBVIOUS
<1> USE DEF ChecksHold, TypeOK, Phases, Live, Goto, ledger, work,
            Normalized, Verified, Checked
<1>1. CASE Tick
  BY <1>1 DEF Tick
<1>2. CASE \E rid \in ReplayIds, r \in Requests, lifetime \in 1 .. MaxLifetime,
              issued \in clock .. clock + MaxDrift : Sign(rid, r, issued, lifetime)
  BY <1>2 DEF Sign
<1>3. CASE PowerLoss \/ ReplaceDirectory
  BY <1>3 DEF PowerLoss, ReplaceDirectory
<1>4. ASSUME NEW t \in Tasks, NEW a \in Presentable, NormalizeFields(t, a)
      PROVE  ChecksHold'
  <2>1. a \in Approvals
    BY PresentableIsApproval
  <2>2. QED
    BY <1>4, <2>1 DEF NormalizeFields
<1>5. ASSUME NEW t \in Tasks, VerifySignature(t)
      PROVE  ChecksHold'
  BY <1>5 DEF VerifySignature
<1>6. ASSUME NEW t \in Tasks, CheckClaimTime(t)
      PROVE  ChecksHold'
  BY <1>6 DEF CheckClaimTime
<1>7. ASSUME NEW t \in Tasks,
             LookForMarker(t) \/ OpenReplayDirectory(t) \/ CreateMarker(t)
             \/ SyncMarker(t) \/ Mutate(t)
      PROVE  ChecksHold'
  BY <1>7 DEF LookForMarker, OpenReplayDirectory, CreateMarker, SyncMarker, Mutate
<1>8. ASSUME NEW t \in Tasks, Refuse(t) \/ Crash(t)
      PROVE  ChecksHold'
  BY <1>8 DEF Refuse, Crash
<1>9. CASE Finished \/ UNCHANGED vars
  BY <1>9 DEF Finished, vars
<1>10. QED
  BY <1>1, <1>2, <1>3, <1>4, <1>5, <1>6, <1>7, <1>8, <1>9
  DEF Next, Environment, ClaimStep

\* The inductive invariant holds before any task runs.
LEMMA InitInv == Init => ApprovalInv
<1> USE ApprovalAssumption
<1> SUFFICES ASSUME Init PROVE ApprovalInv
  OBVIOUS
<1>1. TypeOK
  BY DEF Init, TypeOK, Phases, Live
<1>2. /\ OpenedIsValidated /\ DurableIsVisible /\ MarkerPresent
      /\ MarkerExclusive /\ ChecksHold
  BY DEF Init, DurableIsVisible, MarkerPresent, MarkerExclusive, ChecksHold,
         OpenedIsValidated,
         Phases, Live, Normalized, Verified, Checked, Marked, Claimed
<1>3. QED
  BY <1>1, <1>2 DEF ApprovalInv

\* Every reachable state is well typed and satisfies the inductive invariant.
THEOREM ApprovalInvariant == Spec => []ApprovalInv
<1>1. ApprovalInv /\ [Next]_vars => ApprovalInv'
  BY TypeStep, LedgerStep, ChecksStep DEF ApprovalInv, LedgerInv
<1>2. QED
  BY InitInv, <1>1, PTL DEF Spec

\* The types of the protocol's state, and that every task past its
\* normalization holds an approval and the identity of a replay directory
\* (normalize_approval).
THEOREM TypeCorrect == Spec => []TypeOK
<1>1. ApprovalInv => TypeOK
  BY DEF ApprovalInv
<1>2. QED
  BY <1>1, ApprovalInvariant, PTL

\* One replay identity authorizes at most one mutation, for any number of
\* concurrent tasks, crashes and power losses (claim_approval).
THEOREM AtMostOneMutation == Spec => []OneMutationPerApproval
<1>1. ApprovalInv => OneMutationPerApproval
  BY DEF ApprovalInv, MarkerExclusive, OneMutationPerApproval, Marked
<1>2. QED
  BY ApprovalInvariant, <1>1, PTL

\* Nobody mutates without a signature over exactly its own request, nor
\* outside the window the clock check of claim_approval saw.
THEOREM OnlyAuthorizedMutations == Spec => []MutationWasAuthorized
<1>1. ApprovalInv => MutationWasAuthorized
  BY DEF ApprovalInv, ChecksHold, MutationWasAuthorized, Normalized, Verified,
         Checked, Phases, Live
<1>2. QED
  BY ApprovalInvariant, <1>1, PTL

\* The consumed marker is on disk before the mutating call is issued, so a
\* power loss after the mutation cannot return the approval.
THEOREM EvidenceIsDurable == Spec => []EvidenceOutlivesMutation
<1>1. ApprovalInv => EvidenceOutlivesMutation
  BY DEF ApprovalInv, MarkerPresent, EvidenceOutlivesMutation, Claimed
<1>2. QED
  BY ApprovalInvariant, <1>1, PTL

\* Approval implements OneTimeGrant: a step in which a task mutates spends a
\* grant nobody has spent, and every other step leaves actors and grants alone.
THEOREM ApprovalImplementsGrant == Spec => GrantSpec
<1>1. Init => Grant!Init
  BY DEF Init, Grant!Init, actors, spent
<1>2. ApprovalInv /\ [Next]_vars => [Grant!Next]_<<actors, spent>>
  <2> SUFFICES ASSUME ApprovalInv, [Next]_vars
               PROVE  Grant!Next \/ (actors' = actors /\ spent' = spent)
    OBVIOUS
  <2>1. ASSUME NEW t \in Tasks, Mutate(t)
        PROVE  Grant!Next
    <3> DEFINE g == <<ident[t], held[t].rid>>
    <3>1. g \in Dirs \X ReplayIds
      BY <2>1, WorkTyped DEF ApprovalInv, Mutate, Normalized, Phases, Live
    <3>2. pc \in [Tasks -> Phases]
      BY DEF ApprovalInv, TypeOK
    <3>3. actors' = actors \cup {t} /\ t \notin actors
      BY <2>1, <3>2 DEF Mutate, Goto, actors
    <3>4. spent' = spent \cup {g}
      BY <2>1, <3>3 DEF Mutate, spent, work
    <3>5. ASSUME NEW u \in actors
          PROVE  <<ident[u], held[u].rid>> # g
      <4>1. u # t /\ pc[u] \in Marked /\ pc[t] \in Marked
        BY <2>1, <3>3 DEF actors, Mutate, Marked
      <4>2. QED
        BY <4>1 DEF ApprovalInv, MarkerExclusive, actors
    <3>6. g \notin spent
      BY <3>5 DEF spent
    <3>7. QED
      BY <3>1, <3>3, <3>4, <3>6 DEF Grant!Next, Grant!Act
  <2>2. ASSUME ~(\E t \in Tasks : Mutate(t))
        PROVE  actors' = actors /\ spent' = spent
    <3>1. pc \in [Tasks -> Phases]
      BY DEF ApprovalInv, TypeOK
    <3>2. \A t \in Tasks : /\ (pc'[t] = "mutated") = (pc[t] = "mutated")
                           /\ pc[t] = "mutated" =>
                                held'[t] = held[t] /\ ident'[t] = ident[t]
      BY <2>2, <3>1 DEF Next, Environment, ClaimStep, vars, ledger, work, Goto,
         Tick, Sign, PowerLoss, ReplaceDirectory, NormalizeFields,
         VerifySignature, LookForMarker, CheckClaimTime, OpenReplayDirectory,
         CreateMarker, SyncMarker, Refuse, Refused, Crash, Finished, Live,
         ApprovalInv, TypeOK
    <3>3. actors' = actors
      BY <3>2 DEF actors
    <3>4. QED
      BY <3>2, <3>3 DEF spent, actors
  <2>3. QED
    BY <2>1, <2>2
<1>3. QED
  BY <1>1, <1>2, ApprovalInvariant, PTL DEF Spec, GrantSpec, Grant!Spec

-----------------------------------------------------------------------------
\* On an undisturbed controller no marker is ever without a task that uses it.
LEMMA UsedStep ==
  TypeOK /\ OpenedIsValidated /\ MarkersAreUsed /\ [Next]_vars => MarkersAreUsed'
<1> SUFFICES ASSUME TypeOK, OpenedIsValidated, MarkersAreUsed, [Next]_vars,
                    ~Disturbed
             PROVE  MarkersAreUsed'
  BY DEF MarkersAreUsed
<1> USE DEF MarkersAreUsed, TypeOK, Phases, Live, Normalized, Marked, Goto,
            ledger, work
<1>1. CASE Tick
  BY <1>1 DEF Tick
<1>2. CASE \E rid \in ReplayIds, r \in Requests, lifetime \in 1 .. MaxLifetime,
              issued \in clock .. clock + MaxDrift : Sign(rid, r, issued, lifetime)
  BY <1>2 DEF Sign
<1>3. ASSUME PowerLoss \/ ReplaceDirectory \/ \E t \in Tasks : Crash(t)
      PROVE  FALSE
  BY <1>3 DEF PowerLoss, ReplaceDirectory, Crash
<1>4. ASSUME NEW t \in Tasks, NEW a \in Presentable, NormalizeFields(t, a)
      PROVE  MarkersAreUsed'
  BY <1>4 DEF NormalizeFields
<1>5. ASSUME NEW t \in Tasks, VerifySignature(t) \/ LookForMarker(t)
      PROVE  MarkersAreUsed'
  BY <1>5 DEF VerifySignature, LookForMarker
<1>6. ASSUME NEW t \in Tasks, CheckClaimTime(t) \/ OpenReplayDirectory(t)
      PROVE  MarkersAreUsed'
  BY <1>6 DEF CheckClaimTime, OpenReplayDirectory
<1>7. ASSUME NEW t \in Tasks, CreateMarker(t)
      PROVE  MarkersAreUsed'
  <2>1. ident[t] \in Dirs /\ opened[t] = ident[t] /\ held[t].rid \in ReplayIds
    BY <1>7, WorkTyped DEF CreateMarker, OpenedIsValidated
  <2>2. /\ markers' = [markers EXCEPT ![ident[t]] = @ \cup {held[t].rid}]
        /\ pc' = [pc EXCEPT ![t] = "marked"]
        /\ UNCHANGED <<dir, held, ident>>
    BY <1>7, <2>1 DEF CreateMarker
  <2>3. ASSUME NEW d \in Dirs, NEW rid \in markers'[d]
        PROVE  \E u \in Tasks : pc'[u] \in Marked /\ held'[u].rid = rid
    <3>1. CASE rid \in markers[d]
      BY <2>2, <3>1
    <3>2. CASE rid \notin markers[d]
      BY <2>1, <2>2, <3>2
    <3>3. QED
      BY <3>1, <3>2
  <2>4. QED
    BY <1>7, <2>2, <2>3 DEF CreateMarker
<1>8. ASSUME NEW t \in Tasks, SyncMarker(t) \/ Mutate(t)
      PROVE  MarkersAreUsed'
  BY <1>8 DEF SyncMarker, Mutate
<1>9. ASSUME NEW t \in Tasks, Refuse(t)
      PROVE  MarkersAreUsed'
  BY <1>9 DEF Refuse, Refused
<1>10. CASE Finished \/ UNCHANGED vars
  BY <1>10 DEF Finished, vars
<1>11. QED
  BY <1>1, <1>2, <1>3, <1>4, <1>5, <1>6, <1>7, <1>8, <1>9, <1>10
  DEF Next, Environment, ClaimStep

\* Of the tasks that race for one approval on an undisturbed controller, those
\* that claim_approval refuses lost it to one that uses it: the safety half of
\* SomeContenderWins.
THEOREM NobodyLosesToNobody == Spec => LosersLoseToAWinner
<1> DEFINE Lost(t) == ~Disturbed /\ pc[t] \in Checked /\ pc'[t] = "failed"
           Winner(t) == \E u \in Tasks \ {t} :
                          pc'[u] \in Marked /\ held[u].rid = held[t].rid
<1>1. Init => MarkersAreUsed
  BY DEF Init, MarkersAreUsed, Normalized, Phases, Live
<1>2. ASSUME TypeOK, OpenedIsValidated, MarkersAreUsed, Next, NEW t \in Tasks, Lost(t)
      PROVE  Winner(t)
  <2>1. Refuse(t)
    <3>1. pc[t] # "failed" /\ pc[t] # "idle"
      BY <1>2 DEF Checked, Verified, Normalized
    <3>2. ASSUME NEW u \in Tasks, u # t, pc'[t] # pc[t]
          PROVE  /\ \A a \in Presentable : ~NormalizeFields(u, a)
                 /\ ~ClaimStep(u) /\ ~Mutate(u) /\ ~Refuse(u)
      BY <1>2, <3>2 DEF TypeOK, NormalizeFields, ClaimStep, VerifySignature, LookForMarker,
         CheckClaimTime, OpenReplayDirectory, CreateMarker, SyncMarker, Mutate,
         Refuse, Goto
    <3>3. ~PowerLoss /\ ~(\E u \in Tasks : Crash(u))
      BY <1>2 DEF PowerLoss, Crash
    <3>4. pc'[t] = "failed" /\ pc'[t] # pc[t]
      BY <1>2, <3>1
    <3>5. /\ \A a \in Presentable : ~NormalizeFields(t, a)
          /\ ~ClaimStep(t) /\ ~Mutate(t)
      BY <1>2, <3>4 DEF TypeOK, NormalizeFields, ClaimStep, VerifySignature,
         LookForMarker, CheckClaimTime, OpenReplayDirectory, CreateMarker,
         SyncMarker, Mutate, Goto
    <3>6. ~Tick /\ ~ReplaceDirectory /\ ~Finished
          /\ \A rid \in ReplayIds, r \in Requests, lifetime \in 1 .. MaxLifetime,
                issued \in clock .. clock + MaxDrift : ~Sign(rid, r, issued, lifetime)
      BY <3>4 DEF Tick, ReplaceDirectory, Finished, Sign, vars
    <3>7. QED
      BY <1>2, <3>2, <3>3, <3>4, <3>5, <3>6 DEF Next, Environment
  <2>2. ident[t] = dir /\ ident[t] \in Dirs
    BY <1>2, WorkTyped DEF MarkersAreUsed, Checked, Verified
  <2>3. pc[t] = "opened" /\ held[t].rid \in markers[ident[t]]
    BY <1>2, <2>1, <2>2
    DEF Refuse, Refused, Checked, Verified, Normalized, OpenedIsValidated
  <2>4. PICK u \in Tasks : pc[u] \in Marked /\ held[u].rid = held[t].rid
    BY <1>2, <2>2, <2>3 DEF MarkersAreUsed
  <2>5. u # t /\ pc'[u] = pc[u]
    BY <1>2, <2>1, <2>3, <2>4 DEF Marked, Refuse, Goto, TypeOK
  <2>6. QED
    BY <2>4, <2>5
<1>3. TypeOK /\ OpenedIsValidated /\ MarkersAreUsed /\ [Next]_vars =>
        [~Disturbed =>
           \A t \in Tasks : pc[t] \in Checked /\ pc'[t] = "failed" =>
             \E u \in Tasks \ {t} :
               pc'[u] \in Marked /\ held[u].rid = held[t].rid]_vars
  BY <1>2
<1>4. Spec => [](TypeOK /\ OpenedIsValidated)
  BY ApprovalInvariant, PTL DEF ApprovalInv
<1>5. QED
  BY <1>1, <1>3, <1>4, UsedStep, PTL DEF Spec, LosersLoseToAWinner
=============================================================================
