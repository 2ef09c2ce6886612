------------------------------ MODULE Approval ------------------------------
(***************************************************************************)
(* The one-time approvals that every mutating 1Password action consumes.   *)
(*                                                                         *)
(* An Approval Authority signs a payload.  A controller task presents the  *)
(* approval, onepassword_boundary.normalize_approval validates it, and     *)
(* claim_approval consumes it immediately before the mutation by creating  *)
(* the file "<replay digest>.used" in the pinned replay directory.         *)
(* Several tasks, of one play or of several ansible-playbook processes,    *)
(* run these steps at the same time.                                       *)
(***************************************************************************)
EXTENDS Integers, FiniteSets

CONSTANTS Tasks,        \* invocations of a mutating action plugin
          Requests,     \* (operation, target, binding) triples
          ReplayIds,    \* (authority, execution_id, nonce): the replay digest
          Dirs,         \* (device, inode) identities of a replay directory
          MaxLifetime,  \* _MAX_APPROVAL_SECONDS
          MaxSkew,      \* _MAX_CLOCK_SKEW_SECONDS
          MaxDrift,     \* how far the signer's clock may run ahead
          MaxTime,      \* bound: the controller's clock stops here
          MaxSigned,    \* bound: payloads the authority signs
          Disturbed,    \* TRUE: crashes, power losses, directory changes
          NoApproval,   \* "nothing presented yet"
          NoDir         \* "no directory identity read yet"

ASSUME ApprovalAssumption ==
  /\ MaxLifetime \in Nat \ {0}
  /\ MaxSkew \in Nat
  /\ MaxDrift \in Nat
  /\ MaxTime \in Nat
  /\ MaxSigned \in Nat
  /\ Disturbed \in BOOLEAN
  /\ NoDir \notin Dirs

VARIABLES clock,      \* the controller's UTC clock
          signed,     \* payloads that carry a valid signature
          dir,        \* the directory now at the pinned path
          markers,    \* directory entries: markers[d] \subseteq ReplayIds
          durable,    \* the entries that have been fsynced
          pc,         \* where each task is
          request,    \* what each task was asked to do
          held,       \* the approval each task presented
          ident,      \* the directory identity each task validated
          opened,     \* the directory each task's claim has open
          checkedAt   \* when each task's claim checked the clock

ledger == <<dir, markers, durable>>
work == <<held, ident, opened, checkedAt>>
vars == <<clock, signed, ledger, pc, request, work>>

-----------------------------------------------------------------------------
(* An approval names neither the operation nor its target: those come from *)
(* the task that presents it and only the signed payload ties them.        *)

Approvals == [rid: ReplayIds, issued: Nat, expires: Nat]

Payload(a, r) ==
  [rid |-> a.rid, issued |-> a.issued, expires |-> a.expires, request |-> r]

Payloads == [rid: ReplayIds, issued: Nat, expires: Nat, request: Requests]

ApprovalOf(p) == [rid |-> p.rid, issued |-> p.issued, expires |-> p.expires]

BoundedLifetime(a) == (a.expires - a.issued) \in 1 .. MaxLifetime

InWindow(a, now) == a.issued - now <= MaxSkew /\ now < a.expires

\* What reaches a task: an approval as signed, or one whose expiry was
\* edited afterwards.
Presentable ==
  {ApprovalOf(p) : p \in signed} \cup
  {[ApprovalOf(p) EXCEPT !.expires = p.issued + MaxLifetime] : p \in signed}

\* The phases of one task, in order.
\*   idle        arguments not looked at
\*   fields      fields and authority normalized, directory identity read
\*   verified    ssh-keygen accepted the signature
\*   normalized  no marker seen; the action now inspects its target
\*   checked     claim_approval found the clock inside the window
\*   opened      the replay directory is open and still the same one
\*   marked      O_CREAT|O_EXCL created the marker
\*   claimed     evidence and directory entry are on disk
\*   mutated     the mutating call was issued
\*   failed      an error was raised, or the process died
Live == {"idle", "fields", "verified", "normalized", "checked", "opened",
         "marked", "claimed"}
Phases == Live \cup {"mutated", "failed"}

Goto(t, phase) == pc' = [pc EXCEPT ![t] = phase]

-----------------------------------------------------------------------------
Init ==
  /\ clock = 0
  /\ signed = {}
  /\ dir \in Dirs
  /\ markers = [d \in Dirs |-> {}]
  /\ durable = [d \in Dirs |-> {}]
  /\ pc = [t \in Tasks |-> "idle"]
  /\ request \in [Tasks -> Requests]
  /\ held = [t \in Tasks |-> NoApproval]
  /\ ident = [t \in Tasks |-> NoDir]
  /\ opened = [t \in Tasks |-> NoDir]
  /\ checkedAt = [t \in Tasks |-> 0]

Tick ==
  /\ clock < MaxTime
  /\ clock' = clock + 1
  /\ UNCHANGED <<signed, ledger, pc, request, work>>

\* The signer stamps its own clock, which may run ahead of the controller's.
\* The authority is independent of the consumers: nothing they can observe
\* keeps it from signing one replay identity for two requests.
Sign(rid, r, issued, lifetime) ==
  /\ Cardinality(signed) < MaxSigned
  /\ signed' = signed \cup
       {[rid |-> rid, issued |-> issued, expires |-> issued + lifetime,
         request |-> r]}
  /\ UNCHANGED <<clock, ledger, pc, request, work>>

\* Variant, for the mutation runs: the directory identity is not recorded.
NormalizeFieldsWithoutIdentity(t, a) ==
  /\ pc[t] = "idle"
  /\ BoundedLifetime(a)
  /\ InWindow(a, clock)
  /\ held' = [held EXCEPT ![t] = a]
  /\ Goto(t, "fields")
  /\ UNCHANGED <<clock, signed, ledger, request, ident, opened, checkedAt>>

\* normalize_approval up to the clock check.
NormalizeFields(t, a) ==
  /\ pc[t] = "idle"
  /\ BoundedLifetime(a)
  /\ InWindow(a, clock)
  /\ held' = [held EXCEPT ![t] = a]
  /\ ident' = [ident EXCEPT ![t] = dir]
  /\ Goto(t, "fields")
  /\ UNCHANGED <<clock, signed, ledger, request, opened, checkedAt>>

\* The signature must cover this task's own operation, target and binding;
\* _revalidate_authority reads the directory identity again.
VerifySignature(t) ==
  /\ pc[t] = "fields"
  /\ Payload(held[t], request[t]) \in signed
  /\ dir = ident[t]
  /\ Goto(t, "verified")
  /\ UNCHANGED <<clock, signed, ledger, request, work>>

LookForMarker(t) ==
  /\ pc[t] = "verified"
  /\ held[t].rid \notin markers[dir]
  /\ Goto(t, "normalized")
  /\ UNCHANGED <<clock, signed, ledger, request, work>>

\* Variant: the claim trusts the clock check made at normalization.
CheckClaimTimeOnce(t) ==
  /\ pc[t] = "normalized"
  /\ checkedAt' = [checkedAt EXCEPT ![t] = clock]
  /\ Goto(t, "checked")
  /\ UNCHANGED <<clock, signed, ledger, request, held, ident, opened>>

CheckClaimTime(t) ==
  /\ pc[t] = "normalized"
  /\ InWindow(held[t], clock)
  /\ checkedAt' = [checkedAt EXCEPT ![t] = clock]
  /\ Goto(t, "checked")
  /\ UNCHANGED <<clock, signed, ledger, request, held, ident, opened>>

\* Variant: the identity of what was opened is not compared.
OpenReplayDirectoryUnchecked(t) ==
  /\ pc[t] = "checked"
  /\ opened' = [opened EXCEPT ![t] = dir]
  /\ Goto(t, "opened")
  /\ UNCHANGED <<clock, signed, ledger, request, held, ident, checkedAt>>

\* Whatever is at the pinned path by now is opened; it must be the directory
\* that was validated.
OpenReplayDirectory(t) ==
  /\ pc[t] = "checked"
  /\ dir = ident[t]
  /\ opened' = [opened EXCEPT ![t] = dir]
  /\ Goto(t, "opened")
  /\ UNCHANGED <<clock, signed, ledger, request, held, ident, checkedAt>>

\* Variant: the marker is opened with O_CREAT but without O_EXCL.
CreateMarkerShared(t) ==
  /\ pc[t] = "opened"
  /\ markers' = [markers EXCEPT ![opened[t]] = @ \cup {held[t].rid}]
  /\ Goto(t, "marked")
  /\ UNCHANGED <<clock, signed, dir, durable, request, work>>

\* The marker is created through the open descriptor, whatever is at the
\* path by then.
CreateMarker(t) ==
  /\ pc[t] = "opened"
  /\ held[t].rid \notin markers[opened[t]]
  /\ markers' = [markers EXCEPT ![opened[t]] = @ \cup {held[t].rid}]
  /\ Goto(t, "marked")
  /\ UNCHANGED <<clock, signed, dir, durable, request, work>>

SyncMarker(t) ==
  /\ pc[t] = "marked"
  /\ durable' = [durable EXCEPT ![opened[t]] = @ \cup {held[t].rid}]
  /\ Goto(t, "claimed")
  /\ UNCHANGED <<clock, signed, dir, markers, request, work>>

\* Variant: the approval is looked up once more after it was claimed.
MutateIfStillUnused(t) ==
  /\ pc[t] = "claimed"
  /\ held[t].rid \notin markers[opened[t]]
  /\ Goto(t, "mutated")
  /\ UNCHANGED <<clock, signed, ledger, request, work>>

Mutate(t) ==
  /\ pc[t] = "claimed"
  /\ Goto(t, "mutated")
  /\ UNCHANGED <<clock, signed, ledger, request, work>>

\* The checks above, failing: each raises AnsibleActionFail.
Refused(t) ==
  \/ pc[t] = "idle" /\ \E a \in Presentable :
       ~(BoundedLifetime(a) /\ InWindow(a, clock))
  \/ pc[t] = "fields" /\ ( \/ Payload(held[t], request[t]) \notin signed
                           \/ dir # ident[t] )
  \/ pc[t] = "verified" /\ held[t].rid \in markers[dir]
  \/ pc[t] = "normalized" /\ ~InWindow(held[t], clock)
  \/ pc[t] = "checked" /\ dir # ident[t]
  \/ pc[t] = "opened" /\ held[t].rid \in markers[opened[t]]

Refuse(t) ==
  /\ Refused(t)
  /\ Goto(t, "failed")
  /\ UNCHANGED <<clock, signed, ledger, request, work>>

\* Any system call may fail and the process may be killed anywhere.  A
\* marker that was created stays.
Crash(t) ==
  /\ Disturbed
  /\ pc[t] \in Live
  /\ Goto(t, "failed")
  /\ UNCHANGED <<clock, signed, ledger, request, work>>

\* The controller loses power: every task dies, and of the entries that were
\* not fsynced any subset survives.
PowerLoss ==
  /\ Disturbed
  /\ \E kept \in [Dirs -> SUBSET ReplayIds] :
       /\ \A d \in Dirs : durable[d] \subseteq kept[d] /\ kept[d] \subseteq markers[d]
       /\ markers' = kept
       /\ durable' = kept
  /\ pc' = [t \in Tasks |-> IF pc[t] \in Live THEN "failed" ELSE pc[t]]
  /\ UNCHANGED <<clock, signed, dir, request, work>>

\* Another directory is moved to the pinned path.
ReplaceDirectory ==
  /\ Disturbed
  /\ \E d \in Dirs \ {dir} : dir' = d
  /\ UNCHANGED <<clock, signed, markers, durable, pc, request, work>>

Finished == (\A t \in Tasks : pc[t] \notin Live) /\ UNCHANGED vars

ClaimStep(t) ==
  \/ VerifySignature(t) \/ LookForMarker(t) \/ CheckClaimTime(t)
  \/ OpenReplayDirectory(t) \/ CreateMarker(t) \/ SyncMarker(t)

Environment ==
  \/ Tick
  \/ \E rid \in ReplayIds, r \in Requests, lifetime \in 1 .. MaxLifetime,
        issued \in clock .. clock + MaxDrift : Sign(rid, r, issued, lifetime)
  \/ PowerLoss
  \/ ReplaceDirectory

Next ==
  \/ Environment
  \/ \E t \in Tasks :
       \/ \E a \in Presentable : NormalizeFields(t, a)
       \/ ClaimStep(t) \/ Mutate(t) \/ Refuse(t) \/ Crash(t)
  \/ Finished

Spec == Init /\ [][Next]_vars

\* A task is a straight-line Python function whose subprocesses have a
\* timeout: once started it takes its next step.  Nothing forces a task to
\* start, the clock to advance or the authority to sign.
FairSpec ==
  Spec /\ \A t \in Tasks :
            WF_vars(pc[t] # "idle" /\ (ClaimStep(t) \/ Mutate(t) \/ Refuse(t)))

-----------------------------------------------------------------------------
TypeOK ==
  /\ clock \in Nat
  /\ signed \subseteq Payloads
  /\ dir \in Dirs
  /\ markers \in [Dirs -> SUBSET ReplayIds]
  /\ durable \in [Dirs -> SUBSET ReplayIds]
  /\ pc \in [Tasks -> Phases]
  /\ request \in [Tasks -> Requests]
  /\ held \in [Tasks -> Approvals \cup {NoApproval}]
  /\ ident \in [Tasks -> Dirs \cup {NoDir}]
  /\ opened \in [Tasks -> Dirs \cup {NoDir}]
  /\ checkedAt \in [Tasks -> Nat]
  /\ \A t \in Tasks : pc[t] \notin {"idle", "failed"} =>
       held[t] \in Approvals /\ ident[t] \in Dirs

\* An approval authorizes at most one mutation: two tasks that validated the
\* same replay directory never both act on the same replay identity, whatever
\* their interleaving, though processes die, the controller loses the directory
\* entries it had not fsynced, and the directory at the pinned path is moved
\* away and back between the validation and the claim (claim_approval).
OneMutationPerApproval ==
  \A t, u \in Tasks :
    /\ t # u
    /\ pc[t] = "mutated" /\ pc[u] = "mutated"
    /\ ident[t] = ident[u]
    => held[t].rid # held[u].rid

\* Whoever mutates holds an approval that was signed for exactly its own
\* operation, target and binding, with a lifetime of at most fifteen minutes,
\* and the claim saw the clock inside the approval's window.
MutationWasAuthorized ==
  \A t \in Tasks : pc[t] = "mutated" =>
    /\ Payload(held[t], request[t]) \in signed
    /\ BoundedLifetime(held[t])
    /\ InWindow(held[t], checkedAt[t])

\* The evidence of a consumed approval survives a power loss that comes after
\* the mutation: the marker was fsynced before the mutating call was issued.
EvidenceOutlivesMutation ==
  \A t \in Tasks : pc[t] = "mutated" => held[t].rid \in durable[ident[t]]

\* When several tasks race for one approval on an undisturbed controller and
\* one of them has passed the clock check of claim_approval, some task gets
\* to use that approval: the race is never lost by everyone.
SomeContenderWins ==
  \A rid \in ReplayIds :
    (\E t \in Tasks : pc[t] = "checked" /\ held[t].rid = rid)
      ~> (\E t \in Tasks : pc[t] = "mutated" /\ held[t].rid = rid)

\* Phases after a check has passed.
Normalized == Phases \ {"idle", "failed"}
Verified == Normalized \ {"fields"}
Checked == Verified \ {"verified", "normalized"}
Marked == {"marked", "claimed", "mutated"}
Claimed == {"claimed", "mutated"}

\* The safety half of the same promise: a task that has passed that clock check
\* is refused only because another one, which holds the same approval, has
\* created the marker and goes on to its mutation.  Nobody loses to a marker
\* that nobody will use, or to itself.
LosersLoseToAWinner ==
  [][~Disturbed =>
       \A t \in Tasks : pc[t] \in Checked /\ pc'[t] = "failed" =>
         \E u \in Tasks \ {t} : pc'[u] \in Marked /\ held[u].rid = held[t].rid]_vars

-----------------------------------------------------------------------------
(* The inductive strengthening of the properties above, in named parts.    *)

\* Undisturbed, the directory stays the one that every task validated, and
\* every marker was made by a task that is still going to use it.
MarkersAreUsed ==
  ~Disturbed =>
    /\ \A t \in Tasks : pc[t] \in Normalized => ident[t] = dir
    /\ \A d \in Dirs : \A rid \in markers[d] :
         \E t \in Tasks : pc[t] \in Marked /\ held[t].rid = rid

\* A durable entry is an entry.
DurableIsVisible == \A d \in Dirs : durable[d] \subseteq markers[d]

\* Between its creation and the end of the task the marker is there, and
\* from the end of claim_approval on it is on disk.
MarkerPresent ==
  \A t \in Tasks :
    /\ pc[t] \in Marked => held[t].rid \in markers[ident[t]]
    /\ pc[t] \in Claimed => held[t].rid \in durable[ident[t]]

\* The marker is looked for and created in the directory that was validated.
OpenedIsValidated ==
  \A t \in Tasks : pc[t] \in {"opened"} \cup Marked => opened[t] = ident[t]

\* The marker has one owner among the tasks that are past O_EXCL.
MarkerExclusive ==
  \A t, u \in Tasks :
    t # u /\ pc[t] \in Marked /\ pc[u] \in Marked /\ ident[t] = ident[u]
      => held[t].rid # held[u].rid

\* What each check established stays established.
ChecksHold ==
  \A t \in Tasks :
    /\ pc[t] \in Normalized => BoundedLifetime(held[t])
    /\ pc[t] \in Verified => Payload(held[t], request[t]) \in signed
    /\ pc[t] \in Checked => InWindow(held[t], checkedAt[t])

ApprovalInv ==
  /\ TypeOK /\ OpenedIsValidated /\ DurableIsVisible /\ MarkerPresent
  /\ MarkerExclusive /\ ChecksHold

-----------------------------------------------------------------------------
(* What claim_approval promises, as OneTimeGrant states it.                *)

actors == {t \in Tasks : pc[t] = "mutated"}
spent == {<<ident[t], held[t].rid>> : t \in actors}

Grant == INSTANCE OneTimeGrant WITH Grants <- Dirs \X ReplayIds

GrantSpec == Grant!Spec
=============================================================================
