-------------------------- MODULE OnePasswordActions --------------------------
(***************************************************************************)
(* The action plugins that change 1Password, around the approval that      *)
(* module Approval models.  A request has one of these kinds:              *)
(*   create    onepassword_secret_item, onepassword_ssh_key_item: apply    *)
(*   document  luks_header_onepassword.onepassword_custody: apply          *)
(*   import    onepassword_ssh_key_import: apply; it asks for no approval  *)
(*   verify    the read-only operations of the four above                  *)
(*   grant     onepassword_vault_co_manager: apply                         *)
(*   consume   onepassword_ssh_secret_stdin                                *)
(* Each step below is one call of the op command line tool, so other tasks *)
(* and people who use 1Password act between any two of them.  A call may   *)
(* time out with its outcome unknown; nothing is tried twice.              *)
(***************************************************************************)
EXTENDS Approval

CONSTANTS Titles,       \* item titles; the target vault's name for a grant
          KindOf,       \* the kind of each request
          TitleOf,      \* the title each request is about
          PriorTitle,   \* the title of the item that is there beforehand
          MaxEdits,     \* bound: what people do to the items
          Nobody        \* no task: created by a person

Kinds == {"create", "document", "import", "verify", "grant", "consume"}

ASSUME ActionsAssumption ==
  /\ KindOf \in [Requests -> Kinds]
  /\ TitleOf \in [Requests -> Titles]
  /\ PriorTitle \in Titles
  /\ MaxEdits \in Nat
  /\ Nobody \notin Tasks

VARIABLES vault,     \* the items: id, title, version and who created them
          lastId,    \* 1Password never uses an id twice
          access,    \* the vaults on which the target user has the permissions
          edits,     \* what people have done so far (bound)
          inflight,  \* tasks whose mutating call 1Password has not served yet
          stage,     \* where each task is in its own steps
          round,     \* which inspection: 1 before, 2 after the approval was
                     \* normalized, 3 after the mutation (consume: the secret)
          seen,      \* the id and version the inspection found
          fields,    \* the version of the fields it read, 0 if it read none
          response,  \* the id the create call returned
          secret,    \* the version of the secret that was read, 0 if none was
          outcome    \* what each task reported

account == <<vault, lastId, access, edits>>
progress == <<stage, round, seen, fields, response, secret, outcome>>
itemVars == <<vars, account, inflight, progress>>

Kind(t) == KindOf[request[t]]
Title(t) == TitleOf[request[t]]
Approved(t) == Kind(t) \in {"create", "document"}
Matches(t) == {i \in vault : i.title = Title(t)}
Unseen == [id |-> 0, version |-> 0]

\* The item that a consume request pins.
Pin == [id |-> 1, version |-> 1]

Stages == {"inspect", "again", "fields", "recheck", "ready", "armed", "sent",
           "reported", "failed"}
Outcomes == {"none", "absent", "exists", "created", "granted", "unchanged",
             "unlocked"}

Busy(t) == stage[t] \notin {"reported", "failed"}
Stage(t, s) == stage' = [stage EXCEPT ![t] = s]
Report(t, o) == Stage(t, "reported") /\ outcome' = [outcome EXCEPT ![t] = o]

\* No approval is normalized before the first inspection, where there is one.
ItemsInit ==
  /\ Init
  /\ vault = {[id |-> 1, title |-> PriorTitle, version |-> 1, by |-> Nobody]}
  /\ lastId = 1
  /\ access = {}
  /\ edits = 0
  /\ inflight = {}
  /\ stage = [t \in Tasks |-> "inspect"]
  /\ round = [t \in Tasks |->
                IF Kind(t) \in {"document", "import", "verify"} THEN 1 ELSE 2]
  /\ seen = [t \in Tasks |-> Unseen]
  /\ fields = [t \in Tasks |-> 0]
  /\ response = [t \in Tasks |-> 0]
  /\ secret = [t \in Tasks |-> 0]
  /\ outcome = [t \in Tasks |-> "none"]

-----------------------------------------------------------------------------
(* The inspection of an item: op item list, op item get, op item list.     *)

Inspecting(t) ==
  /\ stage[t] = "inspect"
  /\ Kind(t) # "grant"
  /\ round[t] = 2 => pc[t] = "normalized"

MustBeAbsent(t) == round[t] = 2 /\ Approved(t)

\* Variant, for the mutation runs: the pinned version is not compared.
AcceptableAnyVersion(t, i) ==
  /\ ~MustBeAbsent(t)
  /\ Kind(t) = "consume" => i.id = Pin.id
  /\ Kind(t) = "document" /\ round[t] = 3 => i.id = response[t]

\* Pins are checked where the request has them, and the id that the call
\* returned where it is known.
Acceptable(t, i) ==
  /\ ~MustBeAbsent(t)
  /\ Kind(t) = "consume" => i.id = Pin.id /\ i.version = Pin.version
  /\ Kind(t) = "document" /\ round[t] = 3 => i.id = response[t]

InspectAbsent(t) ==
  /\ Inspecting(t)
  /\ Matches(t) = {}
  /\ \/ MustBeAbsent(t) /\ Stage(t, "ready") /\ UNCHANGED <<round, outcome>>
     \/ /\ round[t] = 1 /\ Kind(t) = "document"
        /\ round' = [round EXCEPT ![t] = 2]
        /\ UNCHANGED <<stage, outcome>>
     \/ /\ round[t] = 1 /\ Kind(t) = "import"
        /\ Stage(t, "ready") /\ UNCHANGED <<round, outcome>>
     \/ /\ round[t] = 1 /\ Kind(t) = "verify"
        /\ Report(t, "absent") /\ UNCHANGED round
     \/ /\ round[t] = 3 \/ Kind(t) = "consume"
        /\ Stage(t, "failed") /\ UNCHANGED <<round, outcome>>
  /\ UNCHANGED <<vars, account, inflight, seen, fields, response, secret>>

\* Variant, for the mutation runs: any of several matching items will do.
InspectFirstMatch(t) ==
  /\ Inspecting(t)
  /\ \E i \in Matches(t) :
       IF Acceptable(t, i)
       THEN /\ seen' = [seen EXCEPT ![t] = [id |-> i.id, version |-> i.version]]
            /\ Stage(t, "fields")
       ELSE Stage(t, "failed") /\ UNCHANGED seen
  /\ UNCHANGED <<vars, account, inflight, round, fields, response, secret, outcome>>

\* A title that is not unique fails every operation.  An item that
\* the desktop application imported is bound to the local key without
\* reading it.
InspectPresent(t) ==
  /\ Inspecting(t)
  /\ \E i \in Matches(t) :
       IF Matches(t) = {i} /\ Acceptable(t, i)
       THEN /\ seen' = [seen EXCEPT ![t] = [id |-> i.id, version |-> i.version]]
            /\ Stage(t, IF Kind(t) = "import" /\ round[t] = 1
                        THEN "recheck" ELSE "fields")
       ELSE Stage(t, "failed") /\ UNCHANGED seen
  /\ UNCHANGED <<vars, account, inflight, round, fields, response, secret, outcome>>

\* op item get, or op document get.
ReadFields(t) ==
  /\ stage[t] = "fields"
  /\ IF \E i \in vault : i.id = seen[t].id
     THEN /\ \E i \in vault :
               i.id = seen[t].id /\ fields' = [fields EXCEPT ![t] = i.version]
          /\ Stage(t, "recheck")
     ELSE Stage(t, "failed") /\ UNCHANGED fields
  /\ UNCHANGED <<vars, account, inflight, round, seen, response, secret, outcome>>

\* What a task does once its inspection found what it wanted.
AfterInspection(t) ==
  \/ /\ Kind(t) = "consume"
     /\ Stage(t, IF round[t] = 2 THEN "ready" ELSE "armed")
     /\ UNCHANGED outcome
  \/ /\ Kind(t) # "consume"
     /\ Report(t, IF round[t] = 3 THEN "created" ELSE "exists")

\* Variant, for the mutation runs: the revision is not looked at again.
AssertItemExists(t) ==
  /\ stage[t] = "recheck"
  /\ IF \E i \in vault : i.id = seen[t].id
     THEN AfterInspection(t)
     ELSE Stage(t, "failed") /\ UNCHANGED outcome
  /\ UNCHANGED <<vars, account, inflight, round, seen, fields, response, secret>>

\* The fields belong to the version that is going to be reported.
AssertCurrentVersion(t) ==
  /\ stage[t] = "recheck"
  /\ IF \E i \in Matches(t) :
          /\ i.id = seen[t].id /\ i.version = seen[t].version
          /\ Kind(t) = "document" => Matches(t) = {i}
     THEN AfterInspection(t)
     ELSE Stage(t, "failed") /\ UNCHANGED outcome
  /\ UNCHANGED <<vars, account, inflight, round, seen, fields, response, secret>>

\* The Co-Manager action looks at the permissions instead, and twice before
\* it spends its approval.
InspectAccess(t) ==
  /\ Kind(t) = "grant" /\ stage[t] \in {"inspect", "again"}
  /\ round[t] = 2 => pc[t] = "normalized"
  /\ \/ /\ Title(t) \in access
        /\ Report(t, IF round[t] = 3 THEN "granted" ELSE "unchanged")
     \/ /\ Title(t) \notin access
        /\ Stage(t, IF round[t] = 3 THEN "failed"
                    ELSE IF stage[t] = "again" THEN "ready" ELSE "again")
        /\ UNCHANGED outcome
  /\ UNCHANGED <<vars, account, inflight, round, seen, fields, response, secret>>

-----------------------------------------------------------------------------
(* The approval, and the mutation.                                         *)

\* normalize_approval.
Approve(t) ==
  /\ stage[t] = "inspect" /\ round[t] = 2
  /\ \/ \E a \in Presentable : NormalizeFields(t, a)
     \/ VerifySignature(t) \/ LookForMarker(t)
  /\ UNCHANGED <<account, inflight, progress>>

\* claim_approval, immediately before the mutation.  The consumer still has
\* to read its secret then.
Claim(t) ==
  /\ stage[t] = "ready"
  /\ \/ CheckClaimTime(t) \/ OpenReplayDirectory(t)
     \/ CreateMarker(t) \/ SyncMarker(t)
  /\ UNCHANGED <<account, inflight, progress>>

\* Variant, for the mutation runs: the call is issued when the marker was
\* created, and the evidence is made durable afterwards.
SendApprovedEarly(t) ==
  /\ stage[t] = "ready" /\ Kind(t) \in {"create", "document", "grant"}
  /\ pc[t] \in {"marked", "claimed"} /\ Goto(t, "mutated")
  /\ inflight' = inflight \cup {t}
  /\ Stage(t, "sent")
  /\ UNCHANGED <<clock, signed, ledger, request, work, account, round, seen,
                 fields, response, secret, outcome>>

\* op item create, op document create or op vault user grant.
SendApproved(t) ==
  /\ stage[t] = "ready" /\ Kind(t) \in {"create", "document", "grant"}
  /\ Mutate(t)
  /\ inflight' = inflight \cup {t}
  /\ Stage(t, "sent")
  /\ UNCHANGED <<account, round, seen, fields, response, secret, outcome>>

SendImport(t) ==
  /\ stage[t] = "ready" /\ Kind(t) = "import"
  /\ inflight' = inflight \cup {t}
  /\ Stage(t, "sent")
  /\ UNCHANGED <<vars, account, round, seen, fields, response, secret, outcome>>

\* 1Password serves a call.  A task that is still waiting goes on with its
\* readback.
Answer(t, id) ==
  IF stage[t] = "sent"
  THEN /\ Stage(t, "inspect")
       /\ round' = [round EXCEPT ![t] = 3]
       /\ response' = [response EXCEPT ![t] = id]
  ELSE UNCHANGED <<stage, round, response>>

\* Variant, for the mutation runs: a lost answer is met by a second attempt.
ServeCreateAgain(t) ==
  /\ t \in inflight /\ Kind(t) # "grant"
  /\ inflight' \in {inflight, inflight \ {t}}
  /\ lastId' = lastId + 1
  /\ vault' = vault \cup
       {[id |-> lastId + 1, title |-> Title(t), version |-> 1, by |-> t]}
  /\ IF t \in inflight' THEN UNCHANGED <<stage, round, response>>
     ELSE Answer(t, lastId + 1)
  /\ lastId < 1 + 2 * Cardinality(Tasks)
  /\ UNCHANGED <<vars, access, edits, seen, fields, secret, outcome>>

ServeCreate(t) ==
  /\ t \in inflight /\ Kind(t) # "grant"
  /\ inflight' = inflight \ {t}
  /\ lastId' = lastId + 1
  /\ vault' = vault \cup
       {[id |-> lastId + 1, title |-> Title(t), version |-> 1, by |-> t]}
  /\ Answer(t, lastId + 1)
  /\ UNCHANGED <<vars, access, edits, seen, fields, secret, outcome>>

ServeGrant(t) ==
  /\ t \in inflight /\ Kind(t) = "grant"
  /\ inflight' = inflight \ {t}
  /\ access' = access \cup {Title(t)}
  /\ Answer(t, 0)
  /\ UNCHANGED <<vars, vault, lastId, edits, seen, fields, secret, outcome>>

\* A call fails or times out.  The command line tool is gone; what it sent
\* may still be served.
Calling(t) ==
  \/ Inspecting(t)
  \/ Kind(t) = "grant" /\ stage[t] = "inspect" /\ pc[t] \in {"normalized", "mutated"}
  \/ stage[t] \in {"again", "fields", "recheck", "armed", "sent"}
  \/ Kind(t) = "consume" /\ stage[t] = "ready" /\ pc[t] = "claimed"

CallFails(t) ==
  /\ Calling(t)
  /\ Stage(t, "failed")
  /\ UNCHANGED <<vars, account, inflight, round, seen, fields, response, secret,
                 outcome>>

-----------------------------------------------------------------------------
(* The SSH consumer of a secret.                                           *)

\* Variant, for the mutation runs: the secret is read before the claim.
ReadSecretUnclaimed(t) ==
  /\ Kind(t) = "consume" /\ stage[t] = "ready" /\ pc[t] = "normalized"
  /\ \E i \in vault :
       i.id = Pin.id /\ secret' = [secret EXCEPT ![t] = i.version]
  /\ round' = [round EXCEPT ![t] = 3]
  /\ Stage(t, "inspect")
  /\ UNCHANGED <<vars, account, inflight, seen, fields, response, outcome>>

\* op read, after the approval was claimed; a new inspection follows.
ReadSecret(t) ==
  /\ Kind(t) = "consume" /\ stage[t] = "ready" /\ pc[t] = "claimed"
  /\ \E i \in vault :
       i.id = Pin.id /\ secret' = [secret EXCEPT ![t] = i.version]
  /\ round' = [round EXCEPT ![t] = 3]
  /\ Stage(t, "inspect")
  /\ UNCHANGED <<vars, account, inflight, seen, fields, response, outcome>>

\* _run_ssh writes the secret to the pinned remote command.
RunSsh(t) ==
  /\ stage[t] = "armed"
  /\ Mutate(t)
  /\ Report(t, "unlocked")
  /\ UNCHANGED <<account, inflight, round, seen, fields, response, secret>>

-----------------------------------------------------------------------------
(* Everybody else.                                                         *)

EditItem(i) ==
  /\ edits < MaxEdits
  /\ edits' = edits + 1
  /\ vault' = (vault \ {i}) \cup
       {[id |-> i.id, title |-> i.title, version |-> i.version + 1, by |-> i.by]}
  /\ UNCHANGED <<vars, lastId, access, inflight, progress>>

DeleteItem(i) ==
  /\ edits < MaxEdits
  /\ edits' = edits + 1
  /\ vault' = vault \ {i}
  /\ UNCHANGED <<vars, lastId, access, inflight, progress>>

RevokeAccess(title) ==
  /\ edits < MaxEdits /\ title \in access
  /\ edits' = edits + 1
  /\ access' = access \ {title}
  /\ UNCHANGED <<vars, vault, lastId, inflight, progress>>

\* A refused approval, or a process that dies, ends the action.
ApprovalFails(t) ==
  /\ Busy(t)
  /\ Refuse(t) \/ Crash(t)
  /\ stage[t] = "ready" \/ (stage[t] = "inspect" /\ round[t] = 2)
  /\ Stage(t, "failed")
  /\ UNCHANGED <<account, inflight, round, seen, fields, response, secret, outcome>>

\* Every task of the controller dies with it.
ControllerFails ==
  /\ PowerLoss
  /\ stage' = [t \in Tasks |-> IF Busy(t) THEN "failed" ELSE stage[t]]
  /\ UNCHANGED <<account, inflight, round, seen, fields, response, secret, outcome>>

Surroundings ==
  /\ \/ Tick
     \/ \E rid \in ReplayIds, r \in Requests, lifetime \in 1 .. MaxLifetime,
           issued \in clock .. clock + MaxDrift : Sign(rid, r, issued, lifetime)
     \/ ReplaceDirectory
  /\ UNCHANGED <<account, inflight, progress>>

ItemsFinished ==
  /\ \A t \in Tasks : ~Busy(t)
  /\ UNCHANGED itemVars

TaskStep(t) ==
  \/ InspectAbsent(t) \/ InspectPresent(t) \/ ReadFields(t)
  \/ AssertCurrentVersion(t) \/ InspectAccess(t)
  \/ Approve(t) \/ Claim(t) \/ SendApproved(t) \/ SendImport(t)
  \/ ReadSecret(t) \/ RunSsh(t)
  \/ CallFails(t) \/ ApprovalFails(t)

ItemsNext ==
  \/ \E t \in Tasks : TaskStep(t) \/ ServeCreate(t) \/ ServeGrant(t)
  \/ \E i \in vault : EditItem(i) \/ DeleteItem(i)
  \/ \E title \in Titles : RevokeAccess(title)
  \/ ControllerFails \/ Surroundings
  \/ ItemsFinished

ItemsSpec == ItemsInit /\ [][ItemsNext]_itemVars
-----------------------------------------------------------------------------
ItemTypes ==
  /\ vault \subseteq [id: Nat \ {0}, title: Titles, version: Nat \ {0},
                      by: Tasks \cup {Nobody}]
  /\ \A i, j \in vault : i.id = j.id => i = j
  /\ lastId \in Nat /\ edits \in Nat
  /\ access \subseteq Titles
  /\ inflight \subseteq Tasks
  /\ stage \in [Tasks -> Stages]
  /\ round \in [Tasks -> 1 .. 3]
  /\ seen \in [Tasks -> [id: Nat, version: Nat]]
  /\ fields \in [Tasks -> Nat]
  /\ response \in [Tasks -> Nat]
  /\ secret \in [Tasks -> Nat]
  /\ outcome \in [Tasks -> Outcomes]

\* No secret is at hand before the approval was claimed.
SecretIsClaimed ==
  \A t \in Tasks :
    Kind(t) = "consume" /\ round[t] = 3 /\ Busy(t) => pc[t] = "claimed"

ItemsTypeOK == TypeOK /\ ItemTypes /\ SecretIsClaimed

\* Two operators who create the same title at the same time do not both
\* report success, and who reports success reports the item that its own call
\* created, though the command line tool did not tell its id (readback of
\* onepassword_secret_item, onepassword_ssh_key_item, luks_header_onepassword).
CreationIsExclusive ==
  edits = 0 => \A t \in Tasks : outcome[t] = "created" =>
    /\ \E i \in vault : i.id = seen[t].id /\ i.by = t
    /\ \A u \in Tasks \ {t} : outcome[u] = "created" => Title(u) # Title(t)

\* What is reported with an item version was read from that version, however
\* the item was edited between the calls of the inspection.
ReportedVersionWasRead ==
  \A t \in Tasks :
    /\ outcome[t] \in {"created", "exists"}
    /\ ~(Kind(t) = "import" /\ outcome[t] = "exists")
    => fields[t] = seen[t].version

\* The secret that reaches the SSH consumer is the secret of the pinned item
\* version, though the secret itself carries no version: an edit between the
\* claim, the read and the revalidation stops the action.
SecretIsPinned ==
  \A t \in Tasks : outcome[t] = "unlocked" => secret[t] = Pin.version

\* Behind every item that an approved action created, or may still create
\* because its call is under way, is a consumed approval on disk.
EveryItemHasEvidence ==
  \A t \in Tasks :
    /\ Approved(t)
    /\ t \in inflight \/ \E i \in vault : i.by = t
    => held[t].rid \in durable[ident[t]]

\* One approval creates at most one item, also when a call's outcome is
\* unknown, it is served late, or the controller dies.
OneItemPerApproval ==
  \A i, j \in {k \in vault : k.by \in Tasks /\ Approved(k.by)} :
    i # j /\ ident[i.by] = ident[j.by] => held[i.by].rid # held[j.by].rid

-----------------------------------------------------------------------------
(* The inductive strengthening of the properties above, in named parts.    *)

\* A create call is under way, or was served, only after its task mutated.
CreatorsMutated ==
  \A t \in Tasks :
    Approved(t) /\ (t \in inflight \/ \E i \in vault : i.by = t)
      => pc[t] = "mutated"

OneItemPerTask ==
  \A t \in Tasks : Approved(t) =>
    /\ t \in inflight => \A i \in vault : i.by # t
    /\ \A i, j \in vault : i.by = t /\ j.by = t => i = j

\* Versions only grow, and an id is never used twice: what an inspection
\* found is a lower bound of the item's version, and so is what it read.
VersionsBound ==
  /\ \A i \in vault : i.id <= lastId
  /\ lastId >= 1
  /\ \A t \in Tasks :
       /\ stage[t] \in {"fields", "recheck"} =>
            /\ seen[t].id <= lastId
            /\ \A i \in vault : i.id = seen[t].id => seen[t].version <= i.version
       /\ stage[t] = "recheck" /\ ~(Kind(t) = "import" /\ round[t] = 1) =>
            /\ seen[t].version <= fields[t]
            /\ \A i \in vault : i.id = seen[t].id => fields[t] <= i.version

SecretBound ==
  \A t \in Tasks : Kind(t) = "consume" /\ round[t] = 3 =>
    /\ secret[t] >= 1
    /\ \A i \in vault : i.id = Pin.id => secret[t] <= i.version
    /\ stage[t] \in {"fields", "recheck", "armed"} => secret[t] = Pin.version

\* A report is final, and a consume request has stages of its own.
ConsumeStages ==
  \A t \in Tasks :
    /\ stage[t] = "armed" => Kind(t) = "consume"
    /\ outcome[t] # "none" => stage[t] = "reported"
    /\ Kind(t) = "consume" =>
         /\ round[t] \in {2, 3}
         /\ stage[t] \notin {"sent", "again"}
         /\ stage[t] = "ready" => round[t] = 2
         /\ stage[t] = "armed" => round[t] = 3

\* The kinds that put an item into the vault, and how far the others can get.
Creating(t) == Kind(t) \in {"create", "document", "import"}

KindsKeepTo ==
  \A t \in Tasks :
    /\ t \in inflight => Creating(t) \/ Kind(t) = "grant"
    /\ Kind(t) = "verify" => round[t] # 3
    /\ Kind(t) = "grant" => stage[t] \notin {"fields", "recheck"}
    /\ outcome[t] = "created" => Creating(t) /\ round[t] = 3

\* A creator whose readback found one item of its title.
FoundOwn(t) ==
  /\ Creating(t) /\ round[t] = 3
  /\ stage[t] \in {"fields", "recheck"} \/ outcome[t] = "created"

IsOwn(i, t) == i.by = t /\ i.title = Title(t)

\* While nobody edits the vault a creator that got its answer has its item
\* there, so the one item its readback finds is its own, and the only one.
ReadbackFindsOwn ==
  edits = 0 =>
    \A t \in Tasks :
      /\ Creating(t) /\ round[t] = 3 => \E i \in vault : IsOwn(i, t)
      /\ FoundOwn(t) => \E i \in vault : i.id = seen[t].id /\ IsOwn(i, t)
      /\ \A u \in Tasks \ {t} :
           FoundOwn(t) /\ FoundOwn(u) => Title(u) # Title(t)
=============================================================================
