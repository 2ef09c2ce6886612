-------------------------- MODULE OnePasswordProofs --------------------------
(* Theorems about OnePasswordActions, for every set of tasks and requests.  *)
EXTENDS OnePasswordActions, ApprovalProofs

\* Seen from the approval, every step of an action is one of the approval's
\* steps or none.
LEMMA StepIsApprovalStep == [ItemsNext]_itemVars => [Next]_vars
<1> SUFFICES ASSUME [ItemsNext]_itemVars
             PROVE  Next \/ UNCHANGED vars
  BY DEF vars
<1>1. ASSUME NEW t \in Tasks, Approve(t)
      PROVE  Next
  BY <1>1 DEF Approve, Next, ClaimStep
<1>2. ASSUME NEW t \in Tasks, Claim(t)
      PROVE  Next
  BY <1>2 DEF Claim, Next, ClaimStep
<1>3. ASSUME NEW t \in Tasks, SendApproved(t) \/ RunSsh(t)
      PROVE  Next
  BY <1>3 DEF SendApproved, RunSsh, Next
<1>4. ASSUME NEW t \in Tasks, ApprovalFails(t)
      PROVE  Next
  BY <1>4 DEF ApprovalFails, Next
<1>5. CASE ControllerFails \/ Surroundings
  BY <1>5 DEF ControllerFails, Surroundings, Next, Environment
<1>6. CASE UNCHANGED vars
  BY <1>6
<1>7. QED
  BY <1>1, <1>2, <1>3, <1>4, <1>5, <1>6
  DEF ItemsNext, TaskStep, InspectAbsent, InspectPresent, ReadFields,
      AssertCurrentVersion, InspectAccess, SendImport, ReadSecret, CallFails,
      ServeCreate, ServeGrant, EditItem, DeleteItem, RevokeAccess,
      ItemsFinished, itemVars

\* The actions use their approvals as module Approval describes, so all that
\* is proved of an approval holds of every action of the collection.
THEOREM ImplementsApproval == ItemsSpec => Spec
<1>1. ItemsInit => Init
  BY DEF ItemsInit
<1>2. QED
  BY <1>1, StepIsApprovalStep, PTL DEF ItemsSpec, Spec

\* One approval authorizes at most one mutating call of the op command line
\* tool, whatever the kinds and the interleaving of the actions.
THEOREM OneCallPerApproval == ItemsSpec => []OneMutationPerApproval
BY ImplementsApproval, AtMostOneMutation, PTL

-----------------------------------------------------------------------------
\* No item exists and nothing was claimed at the start.
LEMMA CreatorsInit == ItemsInit => CreatorsMutated /\ OneItemPerTask
BY ActionsAssumption DEF ItemsInit, CreatorsMutated, OneItemPerTask

\* "mutated" is a task's last phase.
LEMMA MutatedStays ==
  ASSUME TypeOK, [Next]_vars, NEW t \in Tasks, pc[t] = "mutated"
  PROVE  pc'[t] = "mutated" /\ request' = request
BY DEF TypeOK, Next, Environment, Tick, Sign, PowerLoss, ReplaceDirectory,
   NormalizeFields, ClaimStep, VerifySignature, LookForMarker, CheckClaimTime,
   OpenReplayDirectory, CreateMarker, SyncMarker, Mutate, Refuse, Refused,
   Crash, Finished, Goto, Live, Phases, vars, ledger, work

\* What a task was asked to do never changes.
LEMMA RequestStays == [Next]_vars => request' = request
BY DEF Next, Environment, Tick, Sign, PowerLoss, ReplaceDirectory,
   NormalizeFields, ClaimStep, VerifySignature, LookForMarker, CheckClaimTime,
   OpenReplayDirectory, CreateMarker, SyncMarker, Mutate, Refuse, Crash,
   Finished, vars, ledger, work

\* An item has one creator, and the creator had mutated its approval.
LEMMA CreatorsStep ==
  TypeOK /\ CreatorsMutated /\ OneItemPerTask /\ [ItemsNext]_itemVars
    => (CreatorsMutated /\ OneItemPerTask)'
<1> SUFFICES ASSUME TypeOK, CreatorsMutated, OneItemPerTask,
                    [ItemsNext]_itemVars
             PROVE  (CreatorsMutated /\ OneItemPerTask)'
  OBVIOUS
<1>1. [Next]_vars
  BY StepIsApprovalStep
<1>2. /\ \A t \in Tasks : pc[t] = "mutated" => pc'[t] = "mutated"
      /\ \A t \in Tasks : Approved(t)' <=> Approved(t)
  BY <1>1, MutatedStays, RequestStays DEF Approved, Kind
<1> USE ActionsAssumption DEF CreatorsMutated, OneItemPerTask
<1>3. ASSUME NEW t \in Tasks, SendApproved(t)
      PROVE  (CreatorsMutated /\ OneItemPerTask)'
  <2>1. /\ inflight' = inflight \cup {t} /\ vault' = vault
        /\ pc[t] = "claimed" /\ pc' = [pc EXCEPT ![t] = "mutated"]
    BY <1>3 DEF SendApproved, Mutate, Goto, account
  <2>2. pc'[t] = "mutated"
    BY <2>1 DEF TypeOK
  <2>3. QED
    BY <1>2, <2>1, <2>2
<1>4. ASSUME NEW t \in Tasks, SendImport(t)
      PROVE  (CreatorsMutated /\ OneItemPerTask)'
  <2>1. /\ inflight' = inflight \cup {t} /\ vault' = vault
        /\ ~Approved(t)
    BY <1>4 DEF SendImport, Approved, account
  <2>2. QED
    BY <1>2, <2>1
<1>5. ASSUME NEW t \in Tasks, ServeCreate(t)
      PROVE  (CreatorsMutated /\ OneItemPerTask)'
  <2>1. /\ inflight' = inflight \ {t} /\ t \in inflight
        /\ \E j : j.by = t /\ vault' = vault \cup {j}
    <3> DEFINE j == [id |-> lastId + 1, title |-> Title(t), version |-> 1, by |-> t]
    <3>1. j.by = t
      OBVIOUS
    <3>2. vault' = vault \cup {j} /\ inflight' = inflight \ {t} /\ t \in inflight
      BY <1>5 DEF ServeCreate
    <3>3. QED
      BY <3>1, <3>2
  <2>2. PICK j : j.by = t /\ vault' = vault \cup {j}
    BY <2>1
  <2>3. CreatorsMutated'
    BY <1>2, <2>1, <2>2
  <2>4. OneItemPerTask'
    BY <1>2, <2>1, <2>2
  <2>5. QED
    BY <2>3, <2>4
<1>6. ASSUME NEW t \in Tasks, ServeGrant(t)
      PROVE  (CreatorsMutated /\ OneItemPerTask)'
  BY <1>2, <1>6 DEF ServeGrant
<1>7. ASSUME NEW i \in vault, EditItem(i)
      PROVE  (CreatorsMutated /\ OneItemPerTask)'
  <2>1. /\ inflight' = inflight
        /\ \E j : j.by = i.by /\ vault' = (vault \ {i}) \cup {j}
    <3> DEFINE j == [id |-> i.id, title |-> i.title, version |-> i.version + 1,
                     by |-> i.by]
    <3>1. j.by = i.by
      OBVIOUS
    <3>2. vault' = (vault \ {i}) \cup {j} /\ inflight' = inflight
      BY <1>7 DEF EditItem
    <3>3. QED
      BY <3>1, <3>2
  <2>2. PICK j : j.by = i.by /\ vault' = (vault \ {i}) \cup {j}
    BY <2>1
  <2>3. CreatorsMutated'
    BY <1>2, <2>1, <2>2
  <2>4. OneItemPerTask'
    BY <1>2, <2>1, <2>2
  <2>5. QED
    BY <2>3, <2>4
<1>8. ASSUME NEW i \in vault, DeleteItem(i)
      PROVE  (CreatorsMutated /\ OneItemPerTask)'
  BY <1>2, <1>8 DEF DeleteItem
<1>9. CASE UNCHANGED <<vault, inflight>>
  BY <1>2, <1>9
<1>10. QED
  BY <1>3, <1>4, <1>5, <1>6, <1>7, <1>8, <1>9
  DEF ItemsNext, TaskStep, InspectAbsent, InspectPresent, ReadFields,
      AssertCurrentVersion, InspectAccess, Approve, Claim, ReadSecret, RunSsh,
      CallFails, ApprovalFails, RevokeAccess, ControllerFails, Surroundings,
      ItemsFinished, itemVars, account

\* Behind every item that an approved action created, or may still create, is
\* a consumed approval on disk.
THEOREM ItemsHaveEvidence == ItemsSpec => []EveryItemHasEvidence
<1>1. CreatorsMutated /\ EvidenceOutlivesMutation => EveryItemHasEvidence
  BY DEF CreatorsMutated, EvidenceOutlivesMutation, EveryItemHasEvidence, Approved
<1>2. ApprovalInv => TypeOK
  BY DEF ApprovalInv
<1>3. QED
  BY <1>1, <1>2, ImplementsApproval, ApprovalInvariant, EvidenceIsDurable,
     CreatorsInit, CreatorsStep, PTL
  DEF ItemsSpec

\* One approval creates at most one item.
THEOREM OneItemForOneApproval == ItemsSpec => []OneItemPerApproval
<1>1. CreatorsMutated /\ OneItemPerTask /\ OneMutationPerApproval
        => OneItemPerApproval
  <2> SUFFICES ASSUME CreatorsMutated, OneItemPerTask, OneMutationPerApproval,
                      NEW i \in vault, NEW j \in vault,
                      i.by \in Tasks, j.by \in Tasks,
                      Approved(i.by), Approved(j.by),
                      i # j, ident[i.by] = ident[j.by]
               PROVE  held[i.by].rid # held[j.by].rid
    BY DEF OneItemPerApproval
  <2>1. i.by # j.by
    BY DEF OneItemPerTask
  <2>2. pc[i.by] = "mutated" /\ pc[j.by] = "mutated"
    BY DEF CreatorsMutated
  <2>3. QED
    BY <2>1, <2>2 DEF OneMutationPerApproval
<1>2. ApprovalInv => TypeOK
  BY DEF ApprovalInv
<1>3. QED
  BY <1>1, <1>2, ImplementsApproval, ApprovalInvariant, AtMostOneMutation,
     CreatorsInit, CreatorsStep, PTL
  DEF ItemsSpec

-----------------------------------------------------------------------------
\* The types of the items' state hold initially.
LEMMA ItemTypesInit == ItemsInit => ItemTypes /\ SecretIsClaimed /\ VersionsBound
BY ActionsAssumption
DEF ItemsInit, ItemTypes, VersionsBound, Stages, Outcomes, Unseen, Kind,
    SecretIsClaimed

\* Every step on the items keeps their types.
LEMMA ItemTypesStep ==
  TypeOK /\ ItemTypes /\ VersionsBound /\ [ItemsNext]_itemVars => ItemTypes'
<1> SUFFICES ASSUME TypeOK, ItemTypes, VersionsBound, [ItemsNext]_itemVars
             PROVE  ItemTypes'
  OBVIOUS
<1> USE ActionsAssumption DEF ItemTypes, account, progress, Stages, Outcomes,
        Stage, Report
<1>1. ASSUME NEW t \in Tasks, InspectAbsent(t)
      PROVE  ItemTypes'
  <2>1. stage' \in [Tasks -> Stages]
    BY <1>1 DEF InspectAbsent
  <2>2. round' \in [Tasks -> 1 .. 3]
    BY <1>1 DEF InspectAbsent
  <2>3. outcome' \in [Tasks -> Outcomes]
    BY <1>1 DEF InspectAbsent
  <2>4. UNCHANGED <<account, inflight, seen, fields, response, secret>>
    BY <1>1 DEF InspectAbsent
  <2>5. QED
    BY <2>1, <2>2, <2>3, <2>4
<1>2. ASSUME NEW t \in Tasks, InspectPresent(t)
      PROVE  ItemTypes'
  <2>1. PICK i \in vault :
          \/ /\ seen' = [seen EXCEPT ![t] = [id |-> i.id, version |-> i.version]]
             /\ stage' \in {[stage EXCEPT ![t] = "recheck"],
                            [stage EXCEPT ![t] = "fields"]}
          \/ stage' = [stage EXCEPT ![t] = "failed"] /\ UNCHANGED seen
    BY <1>2 DEF InspectPresent, Matches
  <2>2. [id |-> i.id, version |-> i.version] \in [id: Nat, version: Nat]
    OBVIOUS
  <2>3. seen' \in [Tasks -> [id: Nat, version: Nat]]
    BY <2>1, <2>2
  <2>4. stage' \in [Tasks -> Stages]
    BY <2>1
  <2>5. UNCHANGED <<account, inflight, round, fields, response, secret, outcome>>
    BY <1>2 DEF InspectPresent
  <2>6. QED
    BY <2>3, <2>4, <2>5
<1>3. ASSUME NEW t \in Tasks, ReadFields(t)
      PROVE  ItemTypes'
  BY <1>3 DEF ReadFields
<1>4. ASSUME NEW t \in Tasks, AssertCurrentVersion(t)
      PROVE  ItemTypes'
  <2>1. \E s \in Stages : stage' = [stage EXCEPT ![t] = s]
    BY <1>4 DEF AssertCurrentVersion, AfterInspection
  <2>2. outcome' = outcome \/ \E o \in Outcomes : outcome' = [outcome EXCEPT ![t] = o]
    BY <1>4 DEF AssertCurrentVersion, AfterInspection
  <2>3. UNCHANGED <<account, inflight, round, seen, fields, response, secret>>
    BY <1>4 DEF AssertCurrentVersion
  <2>4. QED
    BY <2>1, <2>2, <2>3
<1>5. ASSUME NEW t \in Tasks, InspectAccess(t)
      PROVE  ItemTypes'
  BY <1>5 DEF InspectAccess
<1>6. ASSUME NEW t \in Tasks, Approve(t) \/ Claim(t)
      PROVE  ItemTypes'
  BY <1>6 DEF Approve, Claim
<1>7. ASSUME NEW t \in Tasks, SendApproved(t) \/ SendImport(t)
      PROVE  ItemTypes'
  <2>1. /\ inflight' = inflight \cup {t}
        /\ stage' = [stage EXCEPT ![t] = "sent"]
        /\ UNCHANGED <<account, round, seen, fields, response, secret, outcome>>
    BY <1>7 DEF SendApproved, SendImport
  <2>2. QED
    BY <2>1
<1>8. ASSUME NEW t \in Tasks, NEW id \in Nat, Answer(t, id)
      PROVE  /\ stage' \in [Tasks -> Stages]
             /\ round' \in [Tasks -> 1 .. 3]
             /\ response' \in [Tasks -> Nat]
  <2>1. CASE stage[t] = "sent"
    <3>1. /\ stage' = [stage EXCEPT ![t] = "inspect"]
          /\ round' = [round EXCEPT ![t] = 3]
          /\ response' = [response EXCEPT ![t] = id]
      BY <1>8, <2>1 DEF Answer
    <3>2. QED
      BY <3>1
  <2>2. CASE stage[t] # "sent"
    BY <1>8, <2>2 DEF Answer
  <2>3. QED
    BY <2>1, <2>2
<1>9. ASSUME NEW t \in Tasks, ServeCreate(t)
      PROVE  ItemTypes'
  <2> DEFINE j == [id |-> lastId + 1, title |-> Title(t), version |-> 1, by |-> t]
  <2>1. Title(t) \in Titles
    BY <1>9, ActionsAssumption DEF Title, TypeOK
  <2>2. j \in [id: Nat \ {0}, title: Titles, version: Nat \ {0},
               by: Tasks \cup {Nobody}]
    BY <2>1
  <2>3. vault' = vault \cup {j} /\ lastId' = lastId + 1
    BY <1>9 DEF ServeCreate
  <2>4. \A i, k \in vault' : i.id = k.id => i = k
    BY <2>3 DEF VersionsBound
  <2>5. Answer(t, lastId + 1)
    BY <1>9 DEF ServeCreate
  <2>6. inflight' \subseteq Tasks
        /\ UNCHANGED <<access, edits, seen, fields, secret, outcome>>
    BY <1>9 DEF ServeCreate
  <2>7. QED
    BY <1>8, <2>2, <2>3, <2>4, <2>5, <2>6
<1>10. ASSUME NEW t \in Tasks, ServeGrant(t)
      PROVE  ItemTypes'
  <2>1. Title(t) \in Titles
    BY <1>10, ActionsAssumption DEF Title, TypeOK
  <2>2. Answer(t, 0)
    BY <1>10 DEF ServeGrant
  <2>3. QED
    BY <1>8, <1>10, <2>1, <2>2 DEF ServeGrant
<1>11. ASSUME NEW t \in Tasks, ReadSecret(t)
      PROVE  ItemTypes'
  BY <1>11 DEF ReadSecret
<1>12. ASSUME NEW t \in Tasks, RunSsh(t) \/ CallFails(t) \/ ApprovalFails(t)
      PROVE  ItemTypes'
  <2>1. /\ \E s \in Stages : stage' = [stage EXCEPT ![t] = s]
        /\ outcome' = outcome \/ outcome' = [outcome EXCEPT ![t] = "unlocked"]
        /\ UNCHANGED <<account, inflight, round, seen, fields, response, secret>>
    BY <1>12 DEF RunSsh, CallFails, ApprovalFails
  <2>2. QED
    BY <2>1
<1>13. ASSUME NEW i \in vault, EditItem(i) \/ DeleteItem(i)
      PROVE  ItemTypes'
  BY <1>13 DEF EditItem, DeleteItem
<1>14. ASSUME NEW title \in Titles, RevokeAccess(title)
      PROVE  ItemTypes'
  BY <1>14 DEF RevokeAccess
<1>15. CASE ControllerFails
  BY <1>15 DEF ControllerFails
<1>16. CASE Surroundings \/ ItemsFinished \/ UNCHANGED itemVars
  BY <1>16 DEF Surroundings, ItemsFinished, itemVars
<1>17. QED
  BY <1>1, <1>2, <1>3, <1>4, <1>5, <1>6, <1>7, <1>9, <1>10, <1>11,
     <1>12, <1>13, <1>14, <1>15, <1>16
  DEF ItemsNext, TaskStep

-----------------------------------------------------------------------------
\* No secret was read at the start.
LEMMA ConsumeInit == ItemsInit => ConsumeStages /\ SecretBound
BY ActionsAssumption DEF ItemsInit, ConsumeStages, SecretBound, Kind

\* The kind of a task's request never changes.
LEMMA KindStays ==
  ASSUME [ItemsNext]_itemVars
  PROVE  \A t \in Tasks : Kind(t)' = Kind(t) /\ Title(t)' = Title(t)
<1>1. request' = request
  BY StepIsApprovalStep, RequestStays
<1>2. QED
  BY <1>1 DEF Kind, Title

\* A consume reads its secret only after it was pinned and claimed.
LEMMA ConsumeStep ==
  ItemTypes /\ ConsumeStages /\ [ItemsNext]_itemVars => ConsumeStages'
<1> SUFFICES ASSUME ItemTypes, ConsumeStages, [ItemsNext]_itemVars
             PROVE  ConsumeStages'
  OBVIOUS
<1> \A t \in Tasks : Kind(t)' = Kind(t)
  BY KindStays
<1> USE DEF ItemTypes, ConsumeStages, account, progress, Stage, Report
<1>1. ASSUME NEW t \in Tasks, InspectAbsent(t)
      PROVE  ConsumeStages'
  <2>1. /\ UNCHANGED <<seen, fields, response, secret>>
        /\ \/ outcome' = outcome
           \/ outcome' = [outcome EXCEPT ![t] = "absent"]
    BY <1>1 DEF InspectAbsent
  <2>2. /\ \A u \in Tasks \ {t} : stage'[u] = stage[u] /\ round'[u] = round[u]
        /\ stage'[t] # "armed"
    <3>1. \/ stage' = stage
          \/ stage' = [stage EXCEPT ![t] = "ready"]
          \/ stage' = [stage EXCEPT ![t] = "reported"]
          \/ stage' = [stage EXCEPT ![t] = "failed"]
      BY <1>1 DEF InspectAbsent
    <3>2. round' = round \/ round' = [round EXCEPT ![t] = 2]
      BY <1>1 DEF InspectAbsent
    <3>3. stage[t] = "inspect"
      BY <1>1 DEF InspectAbsent, Inspecting
    <3>4. QED
      BY <3>1, <3>2, <3>3
  <2>3. Kind(t) = "consume" => stage'[t] = "failed" /\ round' = round
    BY <1>1 DEF InspectAbsent, MustBeAbsent, Approved
  <2>4. outcome'[t] # "none" => stage'[t] = "reported"
    <3>1. stage[t] = "inspect" /\ outcome[t] = "none"
      BY <1>1 DEF InspectAbsent, Inspecting
    <3>2. outcome' = outcome \/ stage' = [stage EXCEPT ![t] = "reported"]
      BY <1>1 DEF InspectAbsent
    <3>3. QED
      BY <3>1, <3>2
  <2>5. \A u \in Tasks \ {t} : outcome'[u] = outcome[u]
    BY <2>1
  <2>6. QED
    BY <2>2, <2>3, <2>4, <2>5
<1>2. ASSUME NEW t \in Tasks, InspectPresent(t)
      PROVE  ConsumeStages'
  BY <1>2 DEF InspectPresent, Inspecting
<1>3. ASSUME NEW t \in Tasks, ReadFields(t)
      PROVE  ConsumeStages'
  BY <1>3 DEF ReadFields
<1>4. ASSUME NEW t \in Tasks, AssertCurrentVersion(t)
      PROVE  ConsumeStages'
  BY <1>4 DEF AssertCurrentVersion, AfterInspection
<1>5. ASSUME NEW t \in Tasks, InspectAccess(t)
      PROVE  ConsumeStages'
  BY <1>5 DEF InspectAccess
<1>6. ASSUME NEW t \in Tasks, SendApproved(t) \/ SendImport(t)
      PROVE  ConsumeStages'
  BY <1>6 DEF SendApproved, SendImport, Approved
<1>7. ASSUME NEW t \in Tasks, ServeCreate(t) \/ ServeGrant(t)
      PROVE  ConsumeStages'
  <2>1. \/ UNCHANGED <<stage, round>>
        \/ /\ stage[t] = "sent"
           /\ stage' = [stage EXCEPT ![t] = "inspect"]
           /\ round' = [round EXCEPT ![t] = 3]
    BY <1>7 DEF ServeCreate, ServeGrant, Answer
  <2>2. outcome' = outcome
    BY <1>7 DEF ServeCreate, ServeGrant
  <2>3. QED
    BY <2>1, <2>2
<1>8. ASSUME NEW t \in Tasks, ReadSecret(t)
      PROVE  ConsumeStages'
  BY <1>8 DEF ReadSecret
<1>9. ASSUME NEW t \in Tasks, RunSsh(t)
      PROVE  ConsumeStages'
  BY <1>9 DEF RunSsh
<1>10. ASSUME NEW t \in Tasks, CallFails(t) \/ ApprovalFails(t)
      PROVE  ConsumeStages'
  BY <1>10 DEF CallFails, Calling, Inspecting, ApprovalFails, Busy
<1>11. CASE ControllerFails
  BY <1>11 DEF ControllerFails, Busy
<1>12. CASE UNCHANGED <<stage, round, outcome>>
  BY <1>12
<1>13. QED
  BY <1>1, <1>2, <1>3, <1>4, <1>5, <1>6, <1>7, <1>8, <1>9, <1>10, <1>11, <1>12
  DEF ItemsNext, TaskStep, Approve, Claim, EditItem, DeleteItem, RevokeAccess,
      Surroundings, ItemsFinished, itemVars

\* A secret is read by a task that had claimed its approval.
LEMMA ClaimedStep ==
  TypeOK /\ ItemTypes /\ ConsumeStages /\ SecretIsClaimed /\ [ItemsNext]_itemVars
    => SecretIsClaimed'
<1> SUFFICES ASSUME TypeOK, ItemTypes, ConsumeStages, SecretIsClaimed,
                    [ItemsNext]_itemVars
             PROVE  SecretIsClaimed'
  OBVIOUS
<1> \A t \in Tasks : Kind(t)' = Kind(t)
  BY KindStays
<1> USE DEF ItemTypes, TypeOK, ConsumeStages, SecretIsClaimed, account, progress,
        Stage, Report, Busy, vars
<1>1. ASSUME NEW t \in Tasks, InspectAbsent(t)
      PROVE  SecretIsClaimed'
  BY <1>1 DEF InspectAbsent, Inspecting
<1>2. ASSUME NEW t \in Tasks, InspectPresent(t) \/ ReadFields(t)
      PROVE  SecretIsClaimed'
  BY <1>2 DEF InspectPresent, Inspecting, ReadFields
<1>3. ASSUME NEW t \in Tasks, AssertCurrentVersion(t)
      PROVE  SecretIsClaimed'
  BY <1>3 DEF AssertCurrentVersion, AfterInspection
<1>4. ASSUME NEW t \in Tasks, InspectAccess(t)
      PROVE  SecretIsClaimed'
  BY <1>4 DEF InspectAccess
<1>5. ASSUME NEW t \in Tasks, Approve(t)
      PROVE  SecretIsClaimed'
  <2>1. /\ round[t] = 2 /\ UNCHANGED <<stage, round>>
        /\ \A u \in Tasks \ {t} : pc'[u] = pc[u]
    BY <1>5
    DEF Approve, NormalizeFields, VerifySignature, LookForMarker, Goto
  <2>2. QED
    BY <2>1
<1>6. ASSUME NEW t \in Tasks, Claim(t)
      PROVE  SecretIsClaimed'
  <2>1. /\ stage[t] = "ready" /\ UNCHANGED <<stage, round>>
        /\ \A u \in Tasks \ {t} : pc'[u] = pc[u]
    BY <1>6
    DEF Claim, CheckClaimTime, OpenReplayDirectory, CreateMarker, SyncMarker, Goto
  <2>2. QED
    BY <2>1
<1>7. ASSUME NEW t \in Tasks, SendApproved(t) \/ SendImport(t)
      PROVE  SecretIsClaimed'
  BY <1>7 DEF SendApproved, SendImport, Approved, Mutate, Goto
<1>8. ASSUME NEW t \in Tasks, ServeCreate(t) \/ ServeGrant(t)
      PROVE  SecretIsClaimed'
  <2>1. /\ \/ UNCHANGED <<stage, round>>
           \/ /\ stage[t] = "sent"
              /\ stage' = [stage EXCEPT ![t] = "inspect"]
              /\ round' = [round EXCEPT ![t] = 3]
        /\ pc' = pc
    BY <1>8 DEF ServeCreate, ServeGrant, Answer
  <2>2. QED
    BY <2>1
<1>9. ASSUME NEW t \in Tasks, ReadSecret(t)
      PROVE  SecretIsClaimed'
  BY <1>9 DEF ReadSecret
<1>10. ASSUME NEW t \in Tasks, RunSsh(t) \/ CallFails(t) \/ ApprovalFails(t)
      PROVE  SecretIsClaimed'
  <2>1. /\ stage'[t] \in {"reported", "failed"} /\ round' = round
        /\ \A u \in Tasks \ {t} : pc'[u] = pc[u] /\ stage'[u] = stage[u]
    BY <1>10
    DEF RunSsh, CallFails, ApprovalFails, Mutate, Refuse, Crash, Goto
  <2>2. QED
    BY <2>1
<1>11. CASE ControllerFails
  BY <1>11 DEF ControllerFails
<1>12. CASE Surroundings
  BY <1>12 DEF Surroundings, Tick, Sign, ReplaceDirectory
<1>13. CASE UNCHANGED <<stage, round, pc>>
  BY <1>13
<1>14. QED
  BY <1>1, <1>2, <1>3, <1>4, <1>5, <1>6, <1>7, <1>8, <1>9, <1>10, <1>11, <1>12,
     <1>13
  DEF ItemsNext, TaskStep, EditItem, DeleteItem, RevokeAccess, ItemsFinished,
      itemVars

-----------------------------------------------------------------------------
(* Versions: what is read later is not older.                               *)

\* Versions only grow, so a task never saw a version of the future.
LEMMA VersionsStep ==
  ItemTypes /\ VersionsBound /\ [ItemsNext]_itemVars => VersionsBound'
<1> SUFFICES ASSUME ItemTypes, VersionsBound, [ItemsNext]_itemVars
             PROVE  VersionsBound'
  OBVIOUS
<1> \A t \in Tasks : Kind(t)' = Kind(t)
  BY KindStays
<1> USE DEF ItemTypes, VersionsBound, account, progress, Stage, Report
<1>1. ASSUME NEW t \in Tasks, InspectAbsent(t)
      PROVE  VersionsBound'
  <2>1. /\ stage'[t] \notin {"fields", "recheck"}
        /\ \A u \in Tasks \ {t} : stage'[u] = stage[u] /\ round'[u] = round[u]
        /\ UNCHANGED <<vault, lastId, seen, fields>>
    <3>1. \/ stage' = stage
          \/ stage' = [stage EXCEPT ![t] = "ready"]
          \/ stage' = [stage EXCEPT ![t] = "reported"]
          \/ stage' = [stage EXCEPT ![t] = "failed"]
      BY <1>1 DEF InspectAbsent
    <3>2. round' = round \/ round' = [round EXCEPT ![t] = 2]
      BY <1>1 DEF InspectAbsent
    <3>3. stage[t] = "inspect" /\ UNCHANGED <<vault, lastId, seen, fields>>
      BY <1>1 DEF InspectAbsent, Inspecting
    <3>4. QED
      BY <3>1, <3>2, <3>3
  <2>2. QED
    BY <2>1
<1>2. ASSUME NEW t \in Tasks, InspectPresent(t)
      PROVE  VersionsBound'
  <2>1. PICK i \in vault :
          \/ /\ seen' = [seen EXCEPT ![t] = [id |-> i.id, version |-> i.version]]
             /\ stage' = [stage EXCEPT ![t] =
                  IF Kind(t) = "import" /\ round[t] = 1
                  THEN "recheck" ELSE "fields"]
          \/ stage' = [stage EXCEPT ![t] = "failed"] /\ UNCHANGED seen
    BY <1>2 DEF InspectPresent, Matches
  <2>2. UNCHANGED <<vault, lastId, round, fields>>
    BY <1>2 DEF InspectPresent
  <2>3. CASE stage' = [stage EXCEPT ![t] = "failed"] /\ UNCHANGED seen
    BY <2>2, <2>3
  <2>4. ASSUME seen' = [seen EXCEPT ![t] = [id |-> i.id, version |-> i.version]],
               stage' = [stage EXCEPT ![t] =
                  IF Kind(t) = "import" /\ round[t] = 1
                  THEN "recheck" ELSE "fields"]
        PROVE  VersionsBound'
    <3>1. /\ seen'[t].id = i.id /\ seen'[t].version = i.version
          /\ \A u \in Tasks \ {t} : seen'[u] = seen[u] /\ stage'[u] = stage[u]
          /\ stage'[t] = "recheck" => Kind(t) = "import" /\ round[t] = 1
      BY <2>4
    <3>2. \A k \in vault : k.id = i.id => i.version <= k.version
      OBVIOUS
    <3>3. QED
      BY <2>2, <3>1, <3>2
  <2>5. QED
    BY <2>1, <2>3, <2>4
<1>3. ASSUME NEW t \in Tasks, ReadFields(t)
      PROVE  VersionsBound'
  <2>1. stage[t] = "fields" /\ UNCHANGED <<vault, lastId, round, seen>>
    BY <1>3 DEF ReadFields
  <2>2. CASE stage' = [stage EXCEPT ![t] = "failed"] /\ UNCHANGED fields
    BY <2>1, <2>2
  <2>3. ASSUME NEW i \in vault, i.id = seen[t].id,
               fields' = [fields EXCEPT ![t] = i.version],
               stage' = [stage EXCEPT ![t] = "recheck"]
        PROVE  VersionsBound'
    <3>1. /\ fields'[t] = i.version /\ seen[t].version <= i.version
          /\ \A u \in Tasks \ {t} : fields'[u] = fields[u] /\ stage'[u] = stage[u]
      BY <2>1, <2>3
    <3>2. \A k \in vault : k.id = i.id => i.version <= k.version
      OBVIOUS
    <3>3. QED
      BY <2>1, <2>3, <3>1, <3>2
  <2>4. QED
    BY <1>3, <2>2, <2>3 DEF ReadFields
<1>4. ASSUME NEW t \in Tasks, AssertCurrentVersion(t)
      PROVE  VersionsBound'
  <2>1. \E s \in {"ready", "armed", "reported", "failed"} :
          stage' = [stage EXCEPT ![t] = s]
    BY <1>4 DEF AssertCurrentVersion, AfterInspection
  <2>2. UNCHANGED <<vault, lastId, round, seen, fields>>
    BY <1>4 DEF AssertCurrentVersion
  <2>3. QED
    BY <2>1, <2>2
<1>5. ASSUME NEW t \in Tasks, InspectAccess(t)
      PROVE  VersionsBound'
  <2>1. \E s \in {"ready", "again", "reported", "failed"} :
          stage' = [stage EXCEPT ![t] = s]
    BY <1>5 DEF InspectAccess
  <2>2. UNCHANGED <<vault, lastId, round, seen, fields>>
    BY <1>5 DEF InspectAccess
  <2>3. QED
    BY <2>1, <2>2
<1>6. ASSUME NEW t \in Tasks,
             \/ SendApproved(t) \/ SendImport(t) \/ RunSsh(t)
             \/ CallFails(t) \/ ApprovalFails(t)
      PROVE  VersionsBound'
  <2>1. \E s \in {"sent", "reported", "failed"} :
          stage' = [stage EXCEPT ![t] = s]
    BY <1>6 DEF SendApproved, SendImport, RunSsh, CallFails, ApprovalFails
  <2>2. UNCHANGED <<vault, lastId, round, seen, fields>>
    BY <1>6 DEF SendApproved, SendImport, RunSsh, CallFails, ApprovalFails
  <2>3. QED
    BY <2>1, <2>2
<1>7. ASSUME NEW t \in Tasks, NEW id, Answer(t, id)
      PROVE  /\ stage'[t] \in {"fields", "recheck"}
                  => stage'[t] = stage[t] /\ round'[t] = round[t]
             /\ \A u \in Tasks \ {t} :
                  stage'[u] = stage[u] /\ round'[u] = round[u]
  BY <1>7 DEF Answer
<1>8. ASSUME NEW t \in Tasks, ServeCreate(t)
      PROVE  VersionsBound'
  <2> DEFINE j == [id |-> lastId + 1, title |-> Title(t), version |-> 1, by |-> t]
  <2>1. /\ vault' = vault \cup {j} /\ lastId' = lastId + 1
        /\ Answer(t, lastId + 1) /\ UNCHANGED <<seen, fields>>
    BY <1>8 DEF ServeCreate
  <2>2. j.id = lastId + 1
    OBVIOUS
  <2> HIDE DEF j
  <2>3. QED
    BY <1>7, <2>1, <2>2
<1>9. ASSUME NEW t \in Tasks, ServeGrant(t)
      PROVE  VersionsBound'
  <2>1. Answer(t, 0) /\ UNCHANGED <<vault, lastId, seen, fields>>
    BY <1>9 DEF ServeGrant
  <2>2. QED
    BY <1>7, <2>1
<1>10. ASSUME NEW t \in Tasks, ReadSecret(t)
      PROVE  VersionsBound'
  BY <1>10 DEF ReadSecret
<1>11. ASSUME NEW i \in vault, EditItem(i)
      PROVE  VersionsBound'
  <2> DEFINE j == [id |-> i.id, title |-> i.title, version |-> i.version + 1,
                   by |-> i.by]
  <2>1. /\ vault' = (vault \ {i}) \cup {j}
        /\ UNCHANGED <<lastId, stage, round, seen, fields>>
    BY <1>11 DEF EditItem
  <2>2. j.id = i.id /\ j.version = i.version + 1
    OBVIOUS
  <2> HIDE DEF j
  <2>3. QED
    BY <2>1, <2>2
<1>12. ASSUME NEW i \in vault, DeleteItem(i)
      PROVE  VersionsBound'
  BY <1>12 DEF DeleteItem
<1>13. CASE ControllerFails
  BY <1>13 DEF ControllerFails
<1>14. CASE UNCHANGED <<vault, lastId, stage, round, seen, fields>>
  BY <1>14
<1>15. QED
  BY <1>1, <1>2, <1>3, <1>4, <1>5, <1>6, <1>8, <1>9, <1>10, <1>11, <1>12,
     <1>13, <1>14
  DEF ItemsNext, TaskStep, Approve, Claim, RevokeAccess, Surroundings,
      ItemsFinished, itemVars

\* What the secret's lower bound and the pin checked after it add up to.
LEMMA SecretStep ==
  ItemTypes /\ VersionsBound /\ ConsumeStages /\ SecretBound
  /\ [ItemsNext]_itemVars => SecretBound'
<1> SUFFICES ASSUME ItemTypes, VersionsBound, ConsumeStages, SecretBound,
                    [ItemsNext]_itemVars
             PROVE  SecretBound'
  OBVIOUS
<1> \A t \in Tasks : Kind(t)' = Kind(t)
  BY KindStays
<1> USE DEF ItemTypes, SecretBound, Pin, account, progress, Stage, Report
<1>1. ASSUME NEW t \in Tasks, InspectAbsent(t)
      PROVE  SecretBound'
  <2>1. /\ \A u \in Tasks \ {t} : stage'[u] = stage[u] /\ round'[u] = round[u]
        /\ Kind(t) = "consume" => stage'[t] = "failed" /\ round' = round
        /\ UNCHANGED <<vault, secret>>
    <3>1. \/ stage' = stage
          \/ stage' = [stage EXCEPT ![t] = "ready"]
          \/ stage' = [stage EXCEPT ![t] = "reported"]
          \/ stage' = [stage EXCEPT ![t] = "failed"]
      BY <1>1 DEF InspectAbsent
    <3>2. round' = round \/ round' = [round EXCEPT ![t] = 2]
      BY <1>1 DEF InspectAbsent
    <3>3. Kind(t) = "consume" => stage'[t] = "failed" /\ round' = round
      BY <1>1 DEF InspectAbsent, MustBeAbsent, Approved
    <3>4. UNCHANGED <<vault, secret>>
      BY <1>1 DEF InspectAbsent
    <3>5. QED
      BY <3>1, <3>2, <3>3, <3>4
  <2>2. QED
    BY <2>1
<1>2. ASSUME NEW t \in Tasks, InspectPresent(t)
      PROVE  SecretBound'
  <2>1. UNCHANGED <<vault, round, secret>>
    BY <1>2 DEF InspectPresent
  <2>2. /\ \A u \in Tasks \ {t} : stage'[u] = stage[u]
        /\ \/ stage'[t] = "failed"
           \/ \E i \in vault : Acceptable(t, i)
    BY <1>2 DEF InspectPresent, Matches
  <2>3. Kind(t) = "consume" /\ round[t] = 3 /\ stage'[t] # "failed"
          => secret[t] = Pin.version
    BY <2>2 DEF Acceptable
  <2>4. QED
    BY <2>1, <2>2, <2>3
<1>3. ASSUME NEW t \in Tasks, ReadFields(t)
      PROVE  SecretBound'
  <2>1. stage[t] = "fields" /\ UNCHANGED <<vault, round, secret>>
    BY <1>3 DEF ReadFields
  <2>2. \A u \in Tasks \ {t} : stage'[u] = stage[u]
    BY <1>3 DEF ReadFields
  <2>3. QED
    BY <2>1, <2>2
<1>4. ASSUME NEW t \in Tasks, AssertCurrentVersion(t)
      PROVE  SecretBound'
  <2>1. stage[t] = "recheck" /\ UNCHANGED <<vault, round, secret>>
    BY <1>4 DEF AssertCurrentVersion
  <2>2. \A u \in Tasks \ {t} : stage'[u] = stage[u]
    BY <1>4 DEF AssertCurrentVersion, AfterInspection
  <2>3. QED
    BY <2>1, <2>2
<1>5. ASSUME NEW t \in Tasks,
             \/ InspectAccess(t) \/ SendApproved(t) \/ SendImport(t)
             \/ CallFails(t) \/ ApprovalFails(t) \/ RunSsh(t)
      PROVE  SecretBound'
  <2>1. \E s \in {"ready", "again", "sent", "reported", "failed"} :
          stage' = [stage EXCEPT ![t] = s]
    BY <1>5 DEF InspectAccess, SendApproved, SendImport, CallFails,
                ApprovalFails, RunSsh
  <2>2. UNCHANGED <<vault, round, secret>>
    BY <1>5 DEF InspectAccess, SendApproved, SendImport, CallFails,
                ApprovalFails, RunSsh
  <2>3. QED
    BY <2>1, <2>2
<1>6. ASSUME NEW t \in Tasks, NEW id, Answer(t, id)
      PROVE  /\ Kind(t) = "consume" => UNCHANGED <<stage, round>>
             /\ \A u \in Tasks \ {t} :
                  stage'[u] = stage[u] /\ round'[u] = round[u]
  BY <1>6 DEF Answer, ConsumeStages
<1>7. ASSUME NEW t \in Tasks, ServeCreate(t)
      PROVE  SecretBound'
  <2> DEFINE j == [id |-> lastId + 1, title |-> Title(t), version |-> 1, by |-> t]
  <2>1. vault' = vault \cup {j} /\ Answer(t, lastId + 1) /\ UNCHANGED secret
    BY <1>7 DEF ServeCreate
  <2>2. j.id # 1
    BY DEF VersionsBound
  <2> HIDE DEF j
  <2>3. QED
    BY <1>6, <2>1, <2>2
<1>8. ASSUME NEW t \in Tasks, ServeGrant(t)
      PROVE  SecretBound'
  <2>1. Answer(t, 0) /\ UNCHANGED <<vault, secret>>
    BY <1>8 DEF ServeGrant
  <2>2. QED
    BY <1>6, <2>1
<1>9. ASSUME NEW t \in Tasks, ReadSecret(t)
      PROVE  SecretBound'
  <2>1. PICK i \in vault : i.id = 1 /\ secret' = [secret EXCEPT ![t] = i.version]
    BY <1>9 DEF ReadSecret
  <2>2. /\ round' = [round EXCEPT ![t] = 3]
        /\ stage' = [stage EXCEPT ![t] = "inspect"] /\ UNCHANGED vault
    BY <1>9 DEF ReadSecret
  <2>3. i.version >= 1 /\ \A k \in vault : k.id = 1 => k = i
    BY <2>1
  <2>4. QED
    BY <2>1, <2>2, <2>3
<1>10. ASSUME NEW i \in vault, EditItem(i)
      PROVE  SecretBound'
  <2> DEFINE j == [id |-> i.id, title |-> i.title, version |-> i.version + 1,
                   by |-> i.by]
  <2>1. vault' = (vault \ {i}) \cup {j} /\ UNCHANGED <<stage, round, secret>>
    BY <1>10 DEF EditItem
  <2>2. j.id = i.id /\ j.version = i.version + 1
    OBVIOUS
  <2> HIDE DEF j
  <2>3. QED
    BY <2>1, <2>2
<1>11. ASSUME NEW i \in vault, DeleteItem(i)
      PROVE  SecretBound'
  BY <1>11 DEF DeleteItem
<1>12. CASE ControllerFails
  BY <1>12 DEF ControllerFails
<1>13. CASE UNCHANGED <<vault, stage, round, secret>>
  BY <1>13
<1>14. QED
  BY <1>1, <1>2, <1>3, <1>4, <1>5, <1>7, <1>8, <1>9, <1>10, <1>11, <1>12, <1>13
  DEF ItemsNext, TaskStep, Approve, Claim, RevokeAccess, Surroundings,
      ItemsFinished, itemVars

\* A task that reported does not look again.
LEMMA ReportIsFinal ==
  ASSUME ItemTypes, ConsumeStages, [ItemsNext]_itemVars,
         NEW t \in Tasks, stage[t] = "reported"
  PROVE  /\ outcome'[t] = outcome[t] /\ seen'[t] = seen[t]
         /\ fields'[t] = fields[t] /\ secret'[t] = secret[t]
<1> USE DEF ItemTypes, account, progress, Stage, Report
<1>1. ASSUME NEW u \in Tasks, TaskStep(u)
      PROVE  \/ UNCHANGED <<outcome, seen, fields, secret>>
             \/ /\ stage[u] # "reported"
                /\ \A v \in Tasks \ {u} :
                     /\ outcome'[v] = outcome[v] /\ seen'[v] = seen[v]
                     /\ fields'[v] = fields[v] /\ secret'[v] = secret[v]
  <2>1. CASE InspectAbsent(u)
    BY <2>1 DEF InspectAbsent, Inspecting
  <2>2. CASE InspectPresent(u)
    BY <2>2 DEF InspectPresent, Inspecting
  <2>3. CASE ReadFields(u)
    BY <2>3 DEF ReadFields
  <2>4. CASE AssertCurrentVersion(u)
    BY <2>4 DEF AssertCurrentVersion, AfterInspection
  <2>5. CASE InspectAccess(u)
    BY <2>5 DEF InspectAccess
  <2>6. CASE ReadSecret(u)
    BY <2>6 DEF ReadSecret
  <2>7. CASE RunSsh(u)
    BY <2>7 DEF RunSsh
  <2>8. CASE UNCHANGED <<outcome, seen, fields, secret>>
    BY <2>8
  <2>9. QED
    BY <1>1, <2>1, <2>2, <2>3, <2>4, <2>5, <2>6, <2>7, <2>8
    DEF TaskStep, Approve, Claim, SendApproved, SendImport, CallFails,
        ApprovalFails
<1>2. CASE UNCHANGED <<outcome, seen, fields, secret>>
  BY <1>2
<1>3. QED
  BY <1>1, <1>2
  DEF ItemsNext, ServeCreate, ServeGrant, EditItem, DeleteItem, RevokeAccess,
      ControllerFails, Surroundings, ItemsFinished, itemVars

ReportsInv ==
  /\ ItemTypes /\ VersionsBound /\ ConsumeStages
  /\ SecretIsClaimed /\ SecretBound /\ SecretIsPinned /\ ReportedVersionWasRead

\* Nothing was reported at the start.
LEMMA ReportsInit == ItemsInit => ReportsInv
BY ItemTypesInit, ConsumeInit
DEF ReportsInv, SecretIsPinned, ReportedVersionWasRead, ItemsInit

\* The step that reports: one of the other tasks' reports is final.
LEMMA ReportsStep ==
  TypeOK /\ ReportsInv /\ [ItemsNext]_itemVars => ReportsInv'
<1> SUFFICES ASSUME TypeOK, ReportsInv, [ItemsNext]_itemVars
             PROVE  ReportsInv'
  OBVIOUS
<1> USE DEF ReportsInv
<1>1. (ItemTypes /\ VersionsBound /\ ConsumeStages /\ SecretIsClaimed
        /\ SecretBound)'
  BY ItemTypesStep, VersionsStep, ConsumeStep, ClaimedStep, SecretStep
<1>2. \A t \in Tasks : Kind(t)' = Kind(t)
  BY KindStays
<1>3. ASSUME NEW t \in Tasks, outcome'[t] # outcome[t]
      PROVE  /\ secret'[t] = secret[t] /\ fields'[t] = fields[t]
             /\ seen'[t] = seen[t]
             /\ \/ outcome'[t] = "unlocked" /\ stage[t] = "armed"
                \/ /\ AssertCurrentVersion(t)
                   /\ outcome'[t] # "unlocked"
                \/ outcome'[t] \notin {"unlocked", "created", "exists"}
  <2>1. PICK u \in Tasks : TaskStep(u)
    BY <1>3
    DEF ItemsNext, ServeCreate, ServeGrant, EditItem, DeleteItem, RevokeAccess,
        ControllerFails, Surroundings, ItemsFinished, itemVars, progress
  <2> USE DEF ItemTypes, progress, Stage, Report
  <2>2. CASE InspectAbsent(u)
    BY <1>3, <2>2 DEF InspectAbsent
  <2>3. CASE AssertCurrentVersion(u)
    BY <1>3, <2>3 DEF AssertCurrentVersion, AfterInspection
  <2>4. CASE InspectAccess(u)
    BY <1>3, <2>4 DEF InspectAccess
  <2>5. CASE RunSsh(u)
    BY <1>3, <2>5 DEF RunSsh
  <2>6. CASE UNCHANGED outcome
    BY <1>3, <2>6
  <2>7. QED
    BY <2>1, <2>2, <2>3, <2>4, <2>5, <2>6
    DEF TaskStep, InspectPresent, ReadFields, Approve, Claim, SendApproved,
        SendImport, ReadSecret, CallFails, ApprovalFails
<1>4. SecretIsPinned'
  <2> SUFFICES ASSUME NEW t \in Tasks, outcome'[t] = "unlocked"
               PROVE  secret'[t] = Pin.version
    BY DEF SecretIsPinned, Pin
  <2>1. CASE outcome[t] = "unlocked"
    BY <2>1, ReportIsFinal DEF ConsumeStages, SecretIsPinned
  <2>2. CASE outcome[t] # "unlocked"
    BY <1>3, <2>2 DEF ConsumeStages, SecretBound
  <2>3. QED
    BY <2>1, <2>2
<1>5. ReportedVersionWasRead'
  <2> SUFFICES ASSUME NEW t \in Tasks, outcome'[t] \in {"created", "exists"},
                      ~(Kind(t) = "import" /\ outcome'[t] = "exists")
               PROVE  fields'[t] = seen'[t].version
    BY <1>2 DEF ReportedVersionWasRead
  <2>1. CASE outcome'[t] = outcome[t]
    BY <2>1, ReportIsFinal DEF ConsumeStages, ReportedVersionWasRead
  <2>2. CASE outcome'[t] # outcome[t]
    <3>1. AssertCurrentVersion(t) /\ seen'[t] = seen[t] /\ fields'[t] = fields[t]
      BY <1>3, <2>2
    <3>2. outcome'[t] = IF round[t] = 3 THEN "created" ELSE "exists"
      BY <2>2, <3>1 DEF AssertCurrentVersion, AfterInspection, Report, ItemTypes
    <3>3. PICK i \in vault : i.id = seen[t].id /\ i.version = seen[t].version
      BY <2>2, <3>1 DEF AssertCurrentVersion, Matches
    <3>4. stage[t] = "recheck" /\ ~(Kind(t) = "import" /\ round[t] = 1)
      BY <3>1, <3>2 DEF AssertCurrentVersion
    <3>5. seen[t].version <= fields[t] /\ fields[t] <= i.version
      BY <3>3, <3>4 DEF VersionsBound
    <3>6. fields[t] \in Nat /\ i.version \in Nat
      BY DEF ItemTypes
    <3>7. QED
      BY <3>1, <3>3, <3>5, <3>6
  <2>3. QED
    BY <2>1, <2>2
<1>6. QED
  BY <1>1, <1>4, <1>5

\* Every variable of the actions keeps its type, and no secret was read before
\* its approval was claimed.
THEOREM ItemsTypeCorrect == ItemsSpec => []ItemsTypeOK
<1>1. ApprovalInv => TypeOK
  BY DEF ApprovalInv
<1>2. ReportsInv /\ TypeOK => ItemsTypeOK
  BY DEF ReportsInv, ItemsTypeOK
<1>3. QED
  BY <1>1, <1>2, ImplementsApproval, ApprovalInvariant, ReportsInit, ReportsStep,
     PTL DEF ItemsSpec

\* What is reported with an item version was read from that version.
THEOREM ReportsAreCurrent == ItemsSpec => []ReportedVersionWasRead
<1>1. ApprovalInv => TypeOK
  BY DEF ApprovalInv
<1>2. ReportsInv => ReportedVersionWasRead
  BY DEF ReportsInv
<1>3. QED
  BY <1>1, <1>2, ImplementsApproval, ApprovalInvariant, ReportsInit, ReportsStep,
     PTL DEF ItemsSpec

\* The secret that reaches the SSH consumer is that of the pinned version.
THEOREM UnlocksWithPinnedSecret == ItemsSpec => []SecretIsPinned
<1>1. ApprovalInv => TypeOK
  BY DEF ApprovalInv
<1>2. ReportsInv => SecretIsPinned
  BY DEF ReportsInv
<1>3. QED
  BY <1>1, <1>2, ImplementsApproval, ApprovalInvariant, ReportsInit, ReportsStep,
     PTL DEF ItemsSpec

-----------------------------------------------------------------------------
(* Two creators of one title: the readback tells them apart.               *)

\* Nothing was created at the start.
LEMMA CreationInit == ItemsInit => KindsKeepTo /\ ReadbackFindsOwn
BY ActionsAssumption
DEF ItemsInit, KindsKeepTo, ReadbackFindsOwn, FoundOwn, Creating, Kind

\* Only creators and grants send calls, and only creators report creation.
LEMMA KindsStep ==
  TypeOK /\ ItemTypes /\ KindsKeepTo /\ [ItemsNext]_itemVars => KindsKeepTo'
<1> SUFFICES ASSUME TypeOK, ItemTypes, KindsKeepTo, [ItemsNext]_itemVars
             PROVE  KindsKeepTo'
  OBVIOUS
<1> \A t \in Tasks : Kind(t)' = Kind(t) /\ Creating(t)' = Creating(t)
  BY KindStays DEF Creating
<1> USE DEF ItemTypes, KindsKeepTo, account, progress, Stage, Report
<1>1. ASSUME NEW t \in Tasks, InspectAbsent(t)
      PROVE  KindsKeepTo'
  <2>1. \/ stage' = stage
        \/ \E s \in {"ready", "reported", "failed"} :
             stage' = [stage EXCEPT ![t] = s]
    BY <1>1 DEF InspectAbsent
  <2>2. \/ round' = round
        \/ round[t] = 1 /\ round' = [round EXCEPT ![t] = 2]
    BY <1>1 DEF InspectAbsent
  <2>3. outcome' = outcome \/ outcome' = [outcome EXCEPT ![t] = "absent"]
    BY <1>1 DEF InspectAbsent
  <2>4. inflight' = inflight
    BY <1>1 DEF InspectAbsent
  <2>5. ASSUME NEW u \in Tasks
        PROVE  /\ round[u] = 3 <=> round'[u] = 3
               /\ stage'[u] \in {"fields", "recheck"} =>
                    stage[u] \in {"fields", "recheck"}
               /\ outcome'[u] = "created" => outcome[u] = "created"
    BY <2>1, <2>2, <2>3
  <2>6. QED
    BY <2>4, <2>5
<1>2. ASSUME NEW t \in Tasks, InspectPresent(t) \/ ReadFields(t)
      PROVE  KindsKeepTo'
  <2>1. Kind(t) # "grant"
    BY <1>2 DEF InspectPresent, Inspecting, ReadFields
  <2>2. /\ \A u \in Tasks \ {t} : stage'[u] = stage[u]
        /\ UNCHANGED <<inflight, round, outcome>>
    BY <1>2 DEF InspectPresent, ReadFields
  <2>3. QED
    BY <2>1, <2>2
<1>3. ASSUME NEW t \in Tasks, AssertCurrentVersion(t)
      PROVE  KindsKeepTo'
  <2>1. \E s \in {"ready", "armed", "reported", "failed"} :
          stage' = [stage EXCEPT ![t] = s]
    BY <1>3 DEF AssertCurrentVersion, AfterInspection
  <2>2. stage[t] = "recheck" /\ UNCHANGED <<inflight, round>>
    BY <1>3 DEF AssertCurrentVersion
  <2>3. \/ outcome' = outcome
        \/ outcome' = [outcome EXCEPT ![t] = "exists"]
        \/ /\ Kind(t) # "consume" /\ round[t] = 3
           /\ outcome' = [outcome EXCEPT ![t] = "created"]
    BY <1>3 DEF AssertCurrentVersion, AfterInspection
  <2>4. Kind(t) \in Kinds
    BY ActionsAssumption DEF Kind, TypeOK
  <2>5. Kind(t) # "consume" /\ round[t] = 3 => Creating(t)
    BY <2>2, <2>4 DEF Creating, Kinds
  <2>6. \A u \in Tasks :
          /\ stage'[u] \in {"fields", "recheck"} =>
               stage[u] \in {"fields", "recheck"}
          /\ outcome'[u] = "created" =>
               outcome[u] = "created" \/ (Creating(u) /\ round[u] = 3)
    BY <2>1, <2>3, <2>5
  <2>7. QED
    BY <2>2, <2>6
<1>4. ASSUME NEW t \in Tasks, InspectAccess(t)
      PROVE  KindsKeepTo'
  <2>1. \E s \in {"ready", "again", "reported", "failed"} :
          stage' = [stage EXCEPT ![t] = s]
    BY <1>4 DEF InspectAccess
  <2>2. \/ outcome' = outcome
        \/ outcome' = [outcome EXCEPT ![t] = "granted"]
        \/ outcome' = [outcome EXCEPT ![t] = "unchanged"]
    BY <1>4 DEF InspectAccess
  <2>3. UNCHANGED <<inflight, round>>
    BY <1>4 DEF InspectAccess
  <2>4. QED
    BY <2>1, <2>2, <2>3
<1>5. ASSUME NEW t \in Tasks, SendApproved(t) \/ SendImport(t)
      PROVE  KindsKeepTo'
  BY <1>5 DEF SendApproved, SendImport, Creating
<1>6. ASSUME NEW t \in Tasks, ServeCreate(t) \/ ServeGrant(t)
      PROVE  KindsKeepTo'
  <2>1. \/ UNCHANGED <<stage, round>>
        \/ /\ stage' = [stage EXCEPT ![t] = "inspect"]
           /\ round' = [round EXCEPT ![t] = 3]
    BY <1>6 DEF ServeCreate, ServeGrant, Answer
  <2>2. t \in inflight /\ inflight' = inflight \ {t} /\ outcome' = outcome
    BY <1>6 DEF ServeCreate, ServeGrant
  <2>3. Kind(t) # "verify"
    BY <2>2 DEF Creating
  <2>4. QED
    BY <2>1, <2>2, <2>3
<1>7. ASSUME NEW t \in Tasks, ReadSecret(t)
      PROVE  KindsKeepTo'
  BY <1>7 DEF ReadSecret, Creating
<1>8. ASSUME NEW t \in Tasks, RunSsh(t) \/ CallFails(t) \/ ApprovalFails(t)
      PROVE  KindsKeepTo'
  <2>1. \E s \in {"reported", "failed"} : stage' = [stage EXCEPT ![t] = s]
    BY <1>8 DEF RunSsh, CallFails, ApprovalFails
  <2>2. \/ outcome' = outcome
        \/ outcome' = [outcome EXCEPT ![t] = "unlocked"]
    BY <1>8 DEF RunSsh, CallFails, ApprovalFails
  <2>3. UNCHANGED <<inflight, round>>
    BY <1>8 DEF RunSsh, CallFails, ApprovalFails
  <2>4. QED
    BY <2>1, <2>2, <2>3
<1>9. CASE ControllerFails
  BY <1>9 DEF ControllerFails
<1>10. CASE UNCHANGED <<inflight, stage, round, outcome>>
  BY <1>10
<1>11. QED
  BY <1>1, <1>2, <1>3, <1>4, <1>5, <1>6, <1>7, <1>8, <1>9, <1>10
  DEF ItemsNext, TaskStep, Approve, Claim, EditItem, DeleteItem, RevokeAccess,
      Surroundings, ItemsFinished, itemVars

\* Without edits items only come, and each comes from a call under way.
LEMMA VaultGrows ==
  ASSUME ItemTypes, [ItemsNext]_itemVars, edits' = 0
  PROVE  edits = 0 /\ vault \subseteq vault'
<1> USE DEF ItemTypes
<1>1. ASSUME NEW i \in vault, EditItem(i) \/ DeleteItem(i)
      PROVE  FALSE
  BY <1>1 DEF EditItem, DeleteItem
<1>2. ASSUME NEW title \in Titles, RevokeAccess(title)
      PROVE  FALSE
  BY <1>2 DEF RevokeAccess
<1>3. ASSUME NEW t \in Tasks, ServeCreate(t) \/ ServeGrant(t)
      PROVE  edits' = edits /\ vault \subseteq vault'
  BY <1>3 DEF ServeCreate, ServeGrant
<1>4. ASSUME NEW t \in Tasks, TaskStep(t)
      PROVE  UNCHANGED <<edits, vault>>
  BY <1>4
  DEF TaskStep, InspectAbsent, InspectPresent, ReadFields, AssertCurrentVersion,
      InspectAccess, Approve, Claim, SendApproved, SendImport, ReadSecret,
      RunSsh, CallFails, ApprovalFails, account
<1>5. QED
  BY <1>1, <1>2, <1>3, <1>4
  DEF ItemsNext, ControllerFails, Surroundings, ItemsFinished, itemVars, account

\* A creator whose answer arrived has its item there.
LEMMA AnswerBringsItem ==
  ASSUME ItemTypes, KindsKeepTo, ReadbackFindsOwn, [ItemsNext]_itemVars,
         edits' = 0, NEW t \in Tasks, Creating(t), round'[t] = 3
  PROVE  \E i \in vault' : IsOwn(i, t)
<1> edits = 0 /\ vault \subseteq vault'
  BY VaultGrows
<1> USE DEF ItemTypes, account, progress, Stage, Report
<1>1. CASE round[t] = 3
  BY <1>1 DEF ReadbackFindsOwn
<1>2. CASE round[t] # 3
  <2>1. ASSUME NEW u \in Tasks, InspectAbsent(u)
        PROVE  FALSE
    <3>1. round' = round \/ round' = [round EXCEPT ![u] = 2]
      BY <2>1 DEF InspectAbsent
    <3>2. QED
      BY <1>2, <3>1
  <2>2. ASSUME NEW u \in Tasks, ReadSecret(u)
        PROVE  FALSE
    BY <1>2, <2>2 DEF ReadSecret, Creating
  <2>3. ASSUME NEW u \in Tasks, ServeGrant(u)
        PROVE  FALSE
    BY <1>2, <2>3 DEF ServeGrant, Answer, Creating
  <2>4. ASSUME NEW u \in Tasks, ServeCreate(u)
        PROVE  \E i \in vault' : IsOwn(i, t)
    <3>1. u = t
      BY <1>2, <2>4 DEF ServeCreate, Answer
    <3>2. [id |-> lastId + 1, title |-> Title(t), version |-> 1, by |-> t] \in vault'
      BY <2>4, <3>1 DEF ServeCreate
    <3>3. QED
      BY <3>2 DEF IsOwn
  <2>5. CASE UNCHANGED round
    BY <1>2, <2>5
  <2>6. QED
    BY <2>1, <2>2, <2>3, <2>4, <2>5
    DEF ItemsNext, TaskStep, InspectPresent, ReadFields, AssertCurrentVersion,
        InspectAccess, Approve, Claim, SendApproved, SendImport, RunSsh,
        CallFails, ApprovalFails, EditItem, DeleteItem, RevokeAccess,
        ControllerFails, Surroundings, ItemsFinished, itemVars
<1>3. QED
  BY <1>1, <1>2

\* A creator finds its own item when it inspects, and stays with it.
LEMMA FoundStays ==
  ASSUME TypeOK, ItemTypes, ConsumeStages, KindsKeepTo, [ItemsNext]_itemVars,
         NEW t \in Tasks, Creating(t), FoundOwn(t)'
  PROVE  \/ FoundOwn(t) /\ seen'[t] = seen[t]
         \/ /\ round[t] = 3 /\ vault' = vault
            /\ \E i \in vault : Matches(t) = {i} /\ seen'[t].id = i.id
<1> Kind(t)' = Kind(t) /\ Creating(t)' = Creating(t)
  BY KindStays DEF Creating
<1> USE DEF ItemTypes, FoundOwn, account, progress, Stage, Report
<1>1. ASSUME NEW u \in Tasks, InspectAbsent(u)
      PROVE  FoundOwn(t) /\ seen'[t] = seen[t]
  <2>1. \/ stage' = stage
        \/ \E s \in {"ready", "reported", "failed"} :
             stage' = [stage EXCEPT ![u] = s]
    BY <1>1 DEF InspectAbsent
  <2>2. round' = round \/ round' = [round EXCEPT ![u] = 2]
    BY <1>1 DEF InspectAbsent
  <2>3. outcome' = outcome \/ outcome' = [outcome EXCEPT ![u] = "absent"]
    BY <1>1 DEF InspectAbsent
  <2>4. seen' = seen
    BY <1>1 DEF InspectAbsent
  <2>5. round[t] = 3
    BY <2>2
  <2>6. QED
    BY <2>1, <2>3, <2>4, <2>5
<1>2. ASSUME NEW u \in Tasks, InspectPresent(u)
      PROVE  \/ FoundOwn(t) /\ seen'[t] = seen[t]
             \/ /\ round[t] = 3 /\ vault' = vault
                /\ \E i \in vault : Matches(t) = {i} /\ seen'[t].id = i.id
  <2>1. UNCHANGED <<vault, round, outcome>> /\ stage[u] = "inspect"
    BY <1>2 DEF InspectPresent, Inspecting
  <2>2. CASE u # t
    <3>1. stage'[t] = stage[t] /\ seen'[t] = seen[t]
      BY <1>2, <2>2 DEF InspectPresent
    <3>2. QED
      BY <2>1, <3>1
  <2>3. CASE u = t
    <3>1. outcome[t] # "created"
      BY <2>1, <2>3 DEF ConsumeStages
    <3>2. stage'[t] # "failed"
      BY <2>1, <3>1
    <3>3. PICK i \in vault :
            /\ Matches(t) = {i}
            /\ seen' = [seen EXCEPT ![t] = [id |-> i.id, version |-> i.version]]
      BY <1>2, <2>3, <3>2 DEF InspectPresent, Matches
    <3>4. QED
      BY <2>1, <3>3
  <2>4. QED
    BY <2>2, <2>3
<1>3. ASSUME NEW u \in Tasks, ReadFields(u)
      PROVE  FoundOwn(t) /\ seen'[t] = seen[t]
  <2>1. stage[u] = "fields" /\ UNCHANGED <<round, seen, outcome>>
    BY <1>3 DEF ReadFields
  <2>2. u # t => stage'[t] = stage[t]
    BY <1>3 DEF ReadFields
  <2>3. QED
    BY <2>1, <2>2
<1>4. ASSUME NEW u \in Tasks, AssertCurrentVersion(u)
      PROVE  FoundOwn(t) /\ seen'[t] = seen[t]
  <2>1. stage[u] = "recheck" /\ UNCHANGED <<round, seen>>
    BY <1>4 DEF AssertCurrentVersion
  <2>2. u # t => stage'[t] = stage[t] /\ outcome'[t] = outcome[t]
    BY <1>4 DEF AssertCurrentVersion, AfterInspection
  <2>3. QED
    BY <2>1, <2>2
<1>5. ASSUME NEW u \in Tasks,
             \/ InspectAccess(u) \/ SendApproved(u) \/ SendImport(u)
             \/ RunSsh(u) \/ CallFails(u) \/ ApprovalFails(u)
      PROVE  FoundOwn(t) /\ seen'[t] = seen[t]
  <2>1. \E s \in {"ready", "again", "sent", "reported", "failed"} :
          stage' = [stage EXCEPT ![u] = s]
    BY <1>5 DEF InspectAccess, SendApproved, SendImport, RunSsh, CallFails,
                ApprovalFails
  <2>2. \/ outcome' = outcome
        \/ \E o \in {"granted", "unchanged", "unlocked"} :
             outcome' = [outcome EXCEPT ![u] = o]
    BY <1>5 DEF InspectAccess, SendApproved, SendImport, RunSsh, CallFails,
                ApprovalFails
  <2>3. UNCHANGED <<round, seen>>
    BY <1>5 DEF InspectAccess, SendApproved, SendImport, RunSsh, CallFails,
                ApprovalFails
  <2>4. QED
    BY <2>1, <2>2, <2>3
<1>6. ASSUME NEW u \in Tasks, ServeCreate(u) \/ ServeGrant(u)
      PROVE  FoundOwn(t) /\ seen'[t] = seen[t]
  <2>1. \/ UNCHANGED <<stage, round>>
        \/ /\ stage[u] = "sent"
           /\ stage' = [stage EXCEPT ![u] = "inspect"]
           /\ round' = [round EXCEPT ![u] = 3]
    BY <1>6 DEF ServeCreate, ServeGrant, Answer
  <2>2. UNCHANGED <<seen, outcome>>
    BY <1>6 DEF ServeCreate, ServeGrant
  <2>3. outcome[t] = "created" => stage[t] = "reported"
    BY DEF ConsumeStages
  <2>4. QED
    BY <2>1, <2>2, <2>3
<1>7. ASSUME NEW u \in Tasks, ReadSecret(u)
      PROVE  FoundOwn(t) /\ seen'[t] = seen[t]
  BY <1>7 DEF ReadSecret, Creating
<1>8. CASE ControllerFails
  BY <1>8 DEF ControllerFails
<1>9. CASE UNCHANGED <<stage, round, outcome, seen>>
  BY <1>9
<1>10. QED
  BY <1>1, <1>2, <1>3, <1>4, <1>5, <1>6, <1>7, <1>8, <1>9
  DEF ItemsNext, TaskStep, Approve, Claim, EditItem, DeleteItem, RevokeAccess,
      Surroundings, ItemsFinished, itemVars

\* A title that two items have stops whoever looks second.
LEMMA OwnStep ==
  TypeOK /\ ItemTypes /\ ConsumeStages /\ KindsKeepTo /\ ReadbackFindsOwn
  /\ [ItemsNext]_itemVars => ReadbackFindsOwn'
<1> SUFFICES ASSUME TypeOK, ItemTypes, ConsumeStages, KindsKeepTo,
                    ReadbackFindsOwn, [ItemsNext]_itemVars, edits' = 0
             PROVE  ReadbackFindsOwn'
  BY DEF ReadbackFindsOwn
<1> edits = 0 /\ vault \subseteq vault'
  BY VaultGrows
<1>1. \A t \in Tasks : Creating(t)' = Creating(t) /\ Title(t)' = Title(t)
  BY KindStays DEF Creating
<1>2. ASSUME NEW t \in Tasks, Creating(t), round'[t] = 3
      PROVE  \E i \in vault' : IsOwn(i, t)'
  BY <1>1, <1>2, AnswerBringsItem DEF IsOwn
<1>3. ASSUME NEW t \in Tasks, FoundOwn(t)'
      PROVE  Creating(t)
  BY <1>1, <1>3 DEF FoundOwn
\* What the inspection finds is the task's own item.
<1>4. ASSUME NEW t \in Tasks, NEW i \in vault, Creating(t), round[t] = 3,
             Matches(t) = {i}
      PROVE  IsOwn(i, t)
  <2>1. PICK j \in vault : IsOwn(j, t)
    BY <1>4 DEF ReadbackFindsOwn
  <2>2. QED
    BY <1>4, <2>1 DEF Matches, IsOwn
<1>5. ASSUME NEW t \in Tasks, FoundOwn(t)'
      PROVE  \E i \in vault' : i.id = seen'[t].id /\ IsOwn(i, t)'
  <2>1. CASE FoundOwn(t) /\ seen'[t] = seen[t]
    BY <1>1, <2>1 DEF ReadbackFindsOwn, IsOwn
  <2>2. CASE /\ round[t] = 3 /\ vault' = vault
             /\ \E i \in vault : Matches(t) = {i} /\ seen'[t].id = i.id
    BY <1>1, <1>3, <1>4, <1>5, <2>2 DEF IsOwn
  <2>3. QED
    BY <1>3, <1>5, <2>1, <2>2, FoundStays
<1>6. ASSUME NEW t \in Tasks, NEW u \in Tasks \ {t}, FoundOwn(t)', FoundOwn(u)
      PROVE  Title(u) # Title(t)
  <2>1. CASE FoundOwn(t)
    BY <1>6, <2>1 DEF ReadbackFindsOwn
  <2>2. CASE round[t] = 3 /\ \E i \in vault : Matches(t) = {i}
    <3>1. PICK i \in vault : Matches(t) = {i}
      BY <2>2
    <3>2. IsOwn(i, t)
      BY <1>3, <1>4, <1>6, <2>2, <3>1
    <3>3. PICK j \in vault : IsOwn(j, u)
      BY <1>6 DEF ReadbackFindsOwn
    <3>4. i # j
      BY <3>2, <3>3 DEF IsOwn
    <3>5. QED
      BY <3>1, <3>3, <3>4 DEF Matches, IsOwn
  <2>3. QED
    BY <1>3, <1>6, <2>1, <2>2, FoundStays
<1>7. ASSUME NEW t \in Tasks, NEW u \in Tasks \ {t}, FoundOwn(t)', FoundOwn(u)'
      PROVE  Title(u) # Title(t)
  <2>1. CASE FoundOwn(u)
    BY <1>6, <1>7, <2>1
  <2>2. CASE FoundOwn(t)
    BY <1>6, <1>7, <2>2
  <2>3. CASE /\ round[t] = 3 /\ \E i \in vault : Matches(t) = {i}
             /\ round[u] = 3 /\ \E i \in vault : Matches(u) = {i}
    <3>1. PICK i \in vault : Matches(t) = {i}
      BY <2>3
    <3>2. PICK j \in vault : Matches(u) = {j}
      BY <2>3
    <3>3. IsOwn(i, t) /\ IsOwn(j, u)
      BY <1>3, <1>4, <1>7, <2>3, <3>1, <3>2
    <3>4. i # j
      BY <3>3 DEF IsOwn
    <3>5. QED
      BY <3>1, <3>3, <3>4 DEF Matches, IsOwn
  <2>4. QED
    BY <1>3, <1>7, <2>1, <2>2, <2>3, FoundStays
<1>8. QED
  BY <1>1, <1>2, <1>3, <1>5, <1>7 DEF ReadbackFindsOwn, FoundOwn

\* Two creators of one title do not both report success, and who does reports
\* the item that its own call created, for any number of tasks and titles.
THEOREM CreatorsAreExclusive == ItemsSpec => []CreationIsExclusive
<1> DEFINE IInv == ReportsInv /\ KindsKeepTo /\ ReadbackFindsOwn
<1>1. ApprovalInv => TypeOK
  BY DEF ApprovalInv
<1>2. ItemsInit => IInv
  BY ReportsInit, CreationInit
<1>3. TypeOK /\ IInv /\ [ItemsNext]_itemVars => IInv'
  BY ReportsStep, KindsStep, OwnStep DEF ReportsInv
<1>4. IInv => CreationIsExclusive
  BY DEF KindsKeepTo, ReadbackFindsOwn, CreationIsExclusive, FoundOwn, IsOwn
<1>5. QED
  BY <1>1, <1>2, <1>3, <1>4, ImplementsApproval, ApprovalInvariant,
     PTL DEF ItemsSpec
=============================================================================
