----------------------------- MODULE CustodyRole -----------------------------
(***************************************************************************)
(* The role luks_header_custody_cac: it publishes one LUKS header package  *)
(* to Vault and, where 1Password custody is enabled, only after a second   *)
(* copy exists there.  The copy is a Document whose title contains the     *)
(* checksum of the package, so here Documents are counted.                 *)
(*                                                                         *)
(* A run reaches 1Password in one of three modes:                          *)
(*   none     1Password custody is not enabled                             *)
(*   ssh      the module runs on a desktop; the run creates the Document   *)
(*   handoff  a desktop without Ansible executes an exported request, and  *)
(*            the run consumes its response, which may be old              *)
(*                                                                         *)
(* The two providers are taken as the steps that modules HeaderCustody and *)
(* OnePasswordActions show them to be: one read or one write each, a write *)
(* being served later than it was sent.                                    *)
(***************************************************************************)
EXTENDS Integers, FiniteSets

CONSTANTS Runs,        \* executions of the role for one package
          Desktop,     \* the desktop's own apply, with its own approval
          Exchanges,   \* (execution_id, nonce) pairs of the native handoff
          MaxLifetime, \* 900 seconds: the longest exchange
          MaxSkew,     \* 60 seconds
          MaxTime,     \* bound: the clock stops here
          MaxEdits,    \* bound: steps of an operator who deletes custody
          MaxSent,     \* bound: how many different responses the desktop writes
          Faulty,      \* runs whose tasks may fail, and which may be killed
          None         \* no file, no run

ASSUME RoleAssumption ==
  /\ Desktop \notin Runs /\ None \notin Runs
  /\ MaxLifetime \in Nat \ {0} /\ MaxSkew \in Nat
  /\ MaxTime \in Nat /\ MaxEdits \in Nat /\ MaxSent \in Nat
  /\ Faulty \subseteq Runs

Operations == {"plan", "apply", "verify"}
Modes == {"none", "ssh", "handoff"}

VARIABLES clock,
          docs,         \* how many Documents have the package's title
          pendingDocs,  \* creations that 1Password has not served yet
          custody,      \* the run that committed the Vault manifest, or None
          pendingVault, \* Vault applies that are under way
          edits,        \* what the operator has done so far (bound)
          issued,       \* when each exchange was issued ...
          expires,      \* ... and when it ends
          requestFile,  \* the exported request
          responseFile, \* the response that the run will find
          sent,         \* responses of the desktop
          op, mode, exchange, \* what each run was asked to do
          pc,           \* the next task of each run
          native,       \* was the Document found, by the run's last look
          vault,        \* was the manifest found, by the run's last look
          receipt,      \* when the Document was looked at
          consumed,     \* when the run consumed the response
          result        \* luks_header_custody_cac_result.verified

providers == <<docs, pendingDocs, custody, pendingVault, edits>>
handoff == <<issued, expires, requestFile, responseFile, sent>>
inputs == <<op, mode, exchange>>
facts == <<native, vault, receipt, consumed, result>>
vars == <<clock, providers, handoff, inputs, pc, facts>>

Working == {"native", "vaultPlan", "create", "creating", "readback",
            "vaultApply", "vaultApplying", "nativeVerify", "vaultVerify"}
Phases == Working \cup {"done", "failed"}

Goto(r, phase) == pc' = [pc EXCEPT ![r] = phase]

\* The request a run consumes: it never asks for a creation.
Request(r) ==
  [exchange |-> exchange[r],
   operation |-> IF op[r] = "plan" THEN "plan" ELSE "verify"]

Requests == [exchange: Exchanges, operation: {"plan", "verify"}]
Responses == [request: Requests, verified: BOOLEAN, at: Nat]

Init ==
  /\ clock = 0
  /\ docs = 0 /\ pendingDocs = {}
  /\ custody = None /\ pendingVault = {}
  /\ edits = 0
  /\ issued \in [Exchanges -> 0 .. MaxTime]
  /\ \E l \in 1 .. MaxLifetime + 1 :
       expires = [e \in Exchanges |-> issued[e] + l]
  /\ requestFile = None /\ responseFile = None /\ sent = {}
  /\ op \in [Runs -> Operations]
  /\ mode \in [Runs -> Modes]
  /\ exchange \in [Runs -> Exchanges]
  /\ pc = [r \in Runs |-> IF mode[r] = "none" THEN "vaultPlan" ELSE "native"]
  /\ native = [r \in Runs |-> "unknown"]
  /\ vault = [r \in Runs |-> "unknown"]
  /\ receipt = [r \in Runs |-> 0]
  /\ consumed = [r \in Runs |-> 0]
  /\ result = [r \in Runs |-> "none"]

Tick ==
  /\ clock < MaxTime
  /\ clock' = clock + 1
  /\ UNCHANGED <<providers, handoff, inputs, pc, facts>>

-----------------------------------------------------------------------------
(* The handoff.                                                            *)

\* Variant, for the mutation runs: the expiry is not looked at.
ValidUnexpired(q) ==
  /\ expires[q.exchange] - issued[q.exchange] \in 1 .. MaxLifetime
  /\ issued[q.exchange] - clock <= MaxSkew

\* validate_request.
Valid(q) ==
  /\ expires[q.exchange] - issued[q.exchange] \in 1 .. MaxLifetime
  /\ issued[q.exchange] - clock <= MaxSkew
  /\ clock < expires[q.exchange]

\* The prepare operation.  The exported request is immutable.
Prepare(q) ==
  /\ Valid(q)
  /\ requestFile = None
  /\ requestFile' = q
  /\ UNCHANGED <<clock, providers, issued, expires, responseFile, sent, inputs,
                 pc, facts>>

\* The adapter on the desktop.  It may be run more than once.
Execute ==
  /\ requestFile # None
  /\ Valid(requestFile)
  /\ Cardinality(sent) < MaxSent
  /\ docs <= 1
  /\ requestFile.operation = "verify" => docs = 1
  /\ sent' = sent \cup
       {[request |-> requestFile, verified |-> docs = 1, at |-> clock]}
  /\ UNCHANGED <<clock, providers, issued, expires, requestFile, responseFile,
                 inputs, pc, facts>>

\* The transport writes a response to the response path, in any order.
Deliver ==
  /\ \E a \in sent : responseFile' = a
  /\ UNCHANGED <<clock, providers, issued, expires, requestFile, sent, inputs,
                 pc, facts>>

\* Both paths are freed for another exchange.
ClearRequest ==
  /\ requestFile # None
  /\ requestFile' = None
  /\ UNCHANGED <<clock, providers, issued, expires, responseFile, sent, inputs,
                 pc, facts>>

\* The desktop creates the Document, with an apply request of its own.
DesktopApply ==
  /\ docs = 0 /\ Desktop \notin pendingDocs
  /\ pendingDocs' = pendingDocs \cup {Desktop}
  /\ UNCHANGED <<clock, docs, custody, pendingVault, edits, handoff, inputs, pc,
                 facts>>

-----------------------------------------------------------------------------
(* A run of the role.                                                      *)

Found == IF docs = 1 THEN "verified" ELSE "absent"
VaultFound == IF custody # None THEN "verified" ELSE "absent"

\* Variant, for the mutation runs: an apply refuses a Document that is there.
NativePlanOnlyAbsent(r) ==
  /\ pc[r] = "native" /\ mode[r] = "ssh"
  /\ \/ /\ docs = 0 \/ (docs = 1 /\ op[r] # "apply")
        /\ native' = [native EXCEPT ![r] = Found]
        /\ Goto(r, "vaultPlan")
     \/ /\ docs > 1 \/ (docs = 1 /\ op[r] = "apply")
        /\ Goto(r, "failed") /\ UNCHANGED native
  /\ UNCHANGED <<clock, providers, handoff, inputs, vault, receipt, consumed,
                 result>>

\* A title that is not unique fails every inspection.
NativePlan(r) ==
  /\ pc[r] = "native" /\ mode[r] = "ssh"
  /\ \/ /\ docs <= 1
        /\ native' = [native EXCEPT ![r] = Found]
        /\ Goto(r, "vaultPlan")
     \/ docs > 1 /\ Goto(r, "failed") /\ UNCHANGED native
  /\ UNCHANGED <<clock, providers, handoff, inputs, vault, receipt, consumed,
                 result>>

Answers(a, r) ==
  /\ requestFile = Request(r)
  /\ Valid(Request(r))
  /\ a # None /\ a.request = Request(r)

\* Variant, for the mutation runs: the response is not tied to the request.
ConsumeAnyResponse(r) ==
  /\ pc[r] = "native" /\ mode[r] = "handoff"
  /\ requestFile = Request(r) /\ Valid(Request(r)) /\ responseFile # None
  /\ op[r] # "plan" => responseFile.verified
  /\ native' = [native EXCEPT ![r] =
                  IF responseFile.verified THEN "verified" ELSE "absent"]
  /\ receipt' = [receipt EXCEPT ![r] = responseFile.at]
  /\ consumed' = [consumed EXCEPT ![r] = clock]
  /\ Goto(r, "vaultPlan")
  /\ UNCHANGED <<clock, providers, handoff, inputs, vault, result>>

\* The consume operation, and the assertion that follows it: before any Vault
\* write the Document was verified.
Consume(r) ==
  /\ pc[r] = "native" /\ mode[r] = "handoff"
  /\ Answers(responseFile, r)
  /\ op[r] # "plan" => responseFile.verified
  /\ native' = [native EXCEPT ![r] =
                  IF responseFile.verified THEN "verified" ELSE "absent"]
  /\ receipt' = [receipt EXCEPT ![r] = responseFile.at]
  /\ consumed' = [consumed EXCEPT ![r] = clock]
  /\ Goto(r, "vaultPlan")
  /\ UNCHANGED <<clock, providers, handoff, inputs, vault, result>>

ConsumeFails(r) ==
  /\ pc[r] = "native" /\ mode[r] = "handoff"
  /\ ~(Answers(responseFile, r) /\ (op[r] # "plan" => responseFile.verified))
  /\ Goto(r, "failed")
  /\ UNCHANGED <<clock, providers, handoff, inputs, facts>>

\* The task after those of 1Password, when Vault was found so.
AfterNative(r, found) ==
  IF op[r] = "apply" /\ found # "verified" THEN "vaultApply" ELSE "nativeVerify"

\* Variant, for the mutation runs: Vault is written first.
VaultPlanFirst(r) ==
  /\ pc[r] = "vaultPlan"
  /\ vault' = [vault EXCEPT ![r] = VaultFound]
  /\ Goto(r, AfterNative(r, VaultFound))
  /\ UNCHANGED <<clock, providers, handoff, inputs, native, receipt, consumed,
                 result>>

VaultPlan(r) ==
  /\ pc[r] = "vaultPlan"
  /\ vault' = [vault EXCEPT ![r] = VaultFound]
  /\ Goto(r, IF mode[r] = "ssh" /\ op[r] = "apply" /\ native[r] # "verified"
             THEN "create" ELSE AfterNative(r, VaultFound))
  /\ UNCHANGED <<clock, providers, handoff, inputs, native, receipt, consumed,
                 result>>

\* The create action inspects again; a Document that has appeared meanwhile is
\* read back instead.
SendDocument(r) ==
  /\ pc[r] = "create"
  /\ \/ docs = 0 /\ pendingDocs' = pendingDocs \cup {r} /\ Goto(r, "creating")
     \/ docs = 1 /\ Goto(r, "readback") /\ UNCHANGED pendingDocs
     \/ docs > 1 /\ Goto(r, "failed") /\ UNCHANGED pendingDocs
  /\ UNCHANGED <<clock, docs, custody, pendingVault, edits, handoff, inputs,
                 facts>>

ServeDocument(r) ==
  /\ r \in pendingDocs
  /\ pendingDocs' = pendingDocs \ {r}
  /\ docs' = docs + 1
  /\ IF r \in Runs /\ pc[r] = "creating" THEN Goto(r, "readback")
     ELSE UNCHANGED pc
  /\ UNCHANGED <<clock, custody, pendingVault, edits, handoff, inputs, facts>>

\* The Document must be there, and be the only one of its title.
ReadBack(r) ==
  /\ pc[r] = "readback"
  /\ pc' = [pc EXCEPT ![r] =
              IF docs = 1 THEN AfterNative(r, vault[r]) ELSE "failed"]
  /\ UNCHANGED <<clock, providers, handoff, inputs, facts>>

SendVault(r) ==
  /\ pc[r] = "vaultApply"
  /\ pendingVault' = pendingVault \cup {r}
  /\ Goto(r, "vaultApplying")
  /\ UNCHANGED <<clock, docs, pendingDocs, custody, edits, handoff, inputs, facts>>

\* Vault serves the last create of an apply, also when the run that sent it was
\* killed.  An apply that finds every object in place has nothing to create.
ServeVault(r) ==
  /\ r \in pendingVault
  /\ pendingVault' = pendingVault \ {r}
  /\ custody' = IF custody = None THEN r ELSE custody
  /\ IF pc[r] = "vaultApplying" THEN Goto(r, "nativeVerify") ELSE UNCHANGED pc
  /\ UNCHANGED <<clock, docs, pendingDocs, edits, handoff, inputs, facts>>

\* Another publisher of the package took an object first, and this one's create
\* was refused.
VaultConflict(r) ==
  /\ r \in pendingVault
  /\ custody # None \/ pendingVault # {r}
  /\ pendingVault' = pendingVault \ {r}
  /\ IF pc[r] = "vaultApplying" THEN Goto(r, "failed") ELSE UNCHANGED pc
  /\ UNCHANGED <<clock, docs, pendingDocs, custody, edits, handoff, inputs, facts>>

\* After the writes the ssh modes look at the Document again; the others keep
\* what they have.
NativeVerify(r) ==
  /\ pc[r] = "nativeVerify"
  /\ \/ mode[r] # "ssh" /\ Goto(r, "vaultVerify") /\ UNCHANGED native
     \/ /\ mode[r] = "ssh"
        /\ docs = 1 \/ (op[r] = "plan" /\ docs = 0)
        /\ native' = [native EXCEPT ![r] = Found]
        /\ Goto(r, "vaultVerify")
     \/ /\ mode[r] = "ssh"
        /\ docs > 1 \/ (op[r] # "plan" /\ docs = 0)
        /\ Goto(r, "failed") /\ UNCHANGED native
  /\ UNCHANGED <<clock, providers, handoff, inputs, vault, receipt, consumed,
                 result>>

\* Variant, for the mutation runs: the result is about Vault alone.
PublishVaultOnly(r) ==
  /\ pc[r] = "vaultVerify"
  /\ op[r] = "plan" \/ custody # None
  /\ vault' = [vault EXCEPT ![r] = VaultFound]
  /\ result' = [result EXCEPT ![r] =
       IF vault'[r] = "verified" THEN "verified" ELSE "incomplete"]
  /\ Goto(r, "done")
  /\ UNCHANGED <<clock, providers, handoff, inputs, native, receipt, consumed>>

\* Variant, for the mutation runs: 1Password is not optional in the result.
PublishRaw(r) ==
  /\ pc[r] = "vaultVerify"
  /\ op[r] = "plan" \/ custody # None
  /\ vault' = [vault EXCEPT ![r] = VaultFound]
  /\ result' = [result EXCEPT ![r] = native[r]]
  /\ Goto(r, "done")
  /\ UNCHANGED <<clock, providers, handoff, inputs, native, receipt, consumed>>

\* The final readback of Vault, and the published result.
Publish(r) ==
  /\ pc[r] = "vaultVerify"
  /\ op[r] = "plan" \/ custody # None
  /\ vault' = [vault EXCEPT ![r] = VaultFound]
  /\ result' = [result EXCEPT ![r] =
       IF vault'[r] = "verified" /\ (mode[r] = "none" \/ native[r] = "verified")
       THEN "verified" ELSE "incomplete"]
  /\ Goto(r, "done")
  /\ UNCHANGED <<clock, providers, handoff, inputs, native, receipt, consumed>>

VaultVerifyFails(r) ==
  /\ pc[r] = "vaultVerify"
  /\ op[r] # "plan" /\ custody = None
  /\ Goto(r, "failed")
  /\ UNCHANGED <<clock, providers, handoff, inputs, facts>>

\* A task fails, with an outcome that may be unknown, or the run is killed.
\* Nothing is undone and nothing is retried.
TaskFails(r) ==
  /\ r \in Faulty
  /\ pc[r] \in Working
  /\ Goto(r, "failed")
  /\ UNCHANGED <<clock, providers, handoff, inputs, facts>>

-----------------------------------------------------------------------------
(* An operator who deletes Documents or purges the Vault path.             *)

DeleteDocument ==
  /\ edits < MaxEdits /\ docs > 0
  /\ edits' = edits + 1
  /\ docs' = docs - 1
  /\ UNCHANGED <<clock, pendingDocs, custody, pendingVault, handoff, inputs, pc,
                 facts>>

PurgeCustody ==
  /\ edits < MaxEdits /\ custody # None
  /\ edits' = edits + 1
  /\ custody' = None
  /\ UNCHANGED <<clock, docs, pendingDocs, pendingVault, handoff, inputs, pc,
                 facts>>

-----------------------------------------------------------------------------
RoleStep(r) ==
  \/ NativePlan(r) \/ Consume(r) \/ ConsumeFails(r)
  \/ VaultPlan(r)
  \/ SendDocument(r) \/ ServeDocument(r) \/ ReadBack(r)
  \/ SendVault(r) \/ ServeVault(r) \/ VaultConflict(r)
  \/ NativeVerify(r) \/ Publish(r) \/ VaultVerifyFails(r)

Exchange ==
  \/ \E q \in Requests : Prepare(q)
  \/ Execute \/ Deliver \/ ClearRequest
  \/ DesktopApply \/ ServeDocument(Desktop)

Finished ==
  /\ \A r \in Runs : pc[r] \in {"done", "failed"}
  /\ UNCHANGED vars

Next ==
  \/ \E r \in Runs : RoleStep(r) \/ TaskFails(r)
  \/ Exchange
  \/ Tick \/ DeleteDocument \/ PurgeCustody
  \/ Finished

Spec == Init /\ [][Next]_vars

\* A play goes on from task to task, and the providers answer.  Nothing forces
\* the desktop or the clock.
FairSpec == Spec /\ \A r \in Runs : WF_vars(RoleStep(r))

-----------------------------------------------------------------------------
TypeOK ==
  /\ clock \in Nat /\ docs \in Nat /\ edits \in Nat
  /\ pendingDocs \subseteq Runs \cup {Desktop}
  /\ custody \in Runs \cup {None} /\ pendingVault \subseteq Runs
  /\ issued \in [Exchanges -> Nat] /\ expires \in [Exchanges -> Nat]
  /\ requestFile \in Requests \cup {None}
  /\ sent \subseteq Responses /\ responseFile \in Responses \cup {None}
  /\ op \in [Runs -> Operations] /\ mode \in [Runs -> Modes]
  /\ exchange \in [Runs -> Exchanges]
  /\ pc \in [Runs -> Phases]
  /\ native \in [Runs -> {"unknown", "verified", "absent"}]
  /\ vault \in [Runs -> {"unknown", "verified", "absent"}]
  /\ receipt \in [Runs -> Nat] /\ consumed \in [Runs -> Nat]
  /\ result \in [Runs -> {"none", "verified", "incomplete"}]

\* No package is committed to Vault before its second copy exists, whichever
\* runs of the role overlap, fail or leave writes under way: the order of the
\* tasks of cac_custody.yml, and the assertion after the handoff.
NativeBeforeVault ==
  (edits = 0 /\ custody # None /\ mode[custody] # "none") => docs >= 1

\* A result that says "verified" is true of both providers.
VerifiedIsTrue ==
  edits = 0 => \A r \in Runs : result[r] = "verified" =>
    /\ custody # None
    /\ mode[r] # "none" => docs >= 1

\* The handoff's verification is not repeated after the writes, so it must not
\* be old: what a run relies on was looked at no longer ago than an exchange
\* may last, though responses are delivered late, again or for another request.
ReceiptIsRecent ==
  \A r \in Runs :
    mode[r] = "handoff" /\ pc[r] \notin {"native", "failed"} =>
      consumed[r] - receipt[r] < MaxLifetime + MaxSkew

\* A half-finished custody is completed by running the role again: an apply
\* over ssh that starts when nothing else is going on ends with a verified
\* result, at whatever task the earlier runs failed and whatever they left in
\* Vault, if exactly one Document exists.
Quiet(r) ==
  /\ \A u \in Runs \ {r} : pc[u] \in {"done", "failed"}
  /\ pendingVault = {} /\ pendingDocs = {} /\ docs = 1

RerunStarts(r) ==
  pc[r] = "native" /\ mode[r] = "ssh" /\ op[r] = "apply" /\ Quiet(r)

RerunCompletes ==
  \A r \in Runs \ Faulty : RerunStarts(r) ~> result[r] = "verified"

\* The safety half of the same promise, whatever operators deleted before: none
\* of its tasks fails, and if it ends then with a verified result, for as long
\* as nothing more is deleted.
RerunSucceeds ==
  \A r \in Runs \ Faulty, n \in 0 .. MaxEdits :
    [](RerunStarts(r) /\ edits = n =>
         [](edits = n => /\ pc[r] # "failed"
                         /\ pc[r] = "done" => result[r] = "verified"))
=============================================================================
