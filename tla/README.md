# Verification of the lit.foundational collection

TLA+ specifications of the controller-side protocols of the Ansible collection
`lit.foundational`, the TLC configurations that check them on small instances,
and TLAPS proofs of their main properties for every instance. Paths are relative
to the root of the repository. `PROJECT.json` gives the lines each definition
was translated from, the mutants that show that each property can fail, and the
list of hazards.

    tlc -workers 2 -config MCApproval.cfg MCApproval     # check one instance
    tlapm ApprovalProofs.tla                             # check the proofs

Contents: [the system](#1-the-system), [hazards](#2-what-is-hard-here),
[modules](#3-the-modules-and-the-code), [runs](#4-the-runs),
[proofs](#5-what-is-proved), [limits](#6-what-is-not-modelled),
[what could come next](#7-what-could-come-next).

## 1. The system

An Ansible controller runs plays. Most of the 26 roles are declarative wrappers
around vendor modules or programs. The collection's own logic, the part that
handles secrets once and for all, is in 13 action plugins, 5 module utilities
and the roles that put them in order.

| part | source | state it keeps | operations |
| --- | --- | --- | --- |
| Approvals | `plugins/module_utils/onepassword_boundary.py`, `plugins/action/onepassword_approval.py` | a replay directory with one marker file per consumed approval; the authority's signing key in an agent | sign, normalize (validate), claim (consume) |
| 1Password items | `plugins/action/onepassword_secret_item.py`, `onepassword_ssh_key_item.py`, `onepassword_ssh_key_import.py` | items of a 1Password vault | plan, apply, read-only operations |
| Co-Manager | `plugins/action/onepassword_vault_co_manager.py` | a user's permissions on a vault | plan, apply |
| SSH consumer | `plugins/action/onepassword_ssh_secret_stdin.py` | none of its own; sends one pinned secret to one remote command | consume |
| Documents on the controller | `plugins/action/ansible_vault_secret_document.py`, `ansible_vault_document.py` | one immutable encrypted file per path | ensure, ensure_exact, check mode |
| Header custody in Vault | `plugins/module_utils/luks_header_custody.py`, `plugins/modules/luks_header_custody.py` | KV version 2 objects: chunks and a manifest | plan, apply, verify, read |
| Header custody in 1Password | `plugins/module_utils/luks_header_onepassword.py` | one Document per package | plan, apply, verify, read |
| Native handoff | `plugins/module_utils/luks_header_native_handoff.py`, `plugins/action/luks_header_native_handoff.py`, `scripts/luks-header-native-custody.py` | a request file and a response file | prepare, execute (on the desktop), consume |
| Custody role | `roles/luks_header_custody_cac` | facts of one run; the result it publishes | plan, apply, verify, in three modes |
| Header packages, escrow, restore drill | `plugins/action/luks_header_custody_package.py`, `luks_header_custody_prepare.py`, `luks_header_escrow_read.py`, `plugins/modules/luks_header_restore_drill.py`, `roles/luks_header_escrow`, `roles/luks_header_restore_drill` | package files; temporary files on the managed host; a loop device | package, back up, read, drill |
| Secret resolution | `roles/secret_resolver`, `secret_backend`, `secret_kv` | facts; KV entries | resolve through a chain of providers, persist |
| Root of trust | `plugins/filter/root_of_trust.py`, `roles/root_of_trust_validate` | none | verdict from observations |
| Hetzner | `roles/hetzner_cloud`, `hetzner_installimage`, `hetzner_rescue_validate`, `hetzner_robot_cac`, `hetzner_robot_ops` | servers and their configuration at the provider | reconcile, install, validate, reset |
| Terraform, certificates, VMware, Redfish, network, containers | the other roles | external | wrappers |
| Review materializer | `scripts/materialize-exact-revision-review.py` | one review directory with a patch and its metadata | materialize, bind, verify |
| Release tooling | the other `scripts/`, `.github/workflows/` | a git repository, release evidence | build, check, publish |

How they interact:

- Every action that changes 1Password normalizes an approval, inspects its
  target, claims the approval and only then issues its one mutating call; the
  approval is bound to the operation, the target and the action's pins by the
  signed payload. Only the import of a key that the operator has already
  confirmed on the desktop goes without one.
- The custody role calls the Vault provider and the 1Password provider, in an
  order that makes Vault the last to be written, directly, over ssh to a
  desktop, or by exchanging files with a desktop that has no Ansible.
- Header packages are stored on the controller by the same store that keeps
  the generated secrets.
- The secret resolver asks its providers one after the other and writes what it
  has generated, or migrates, to a Vault document that other runs share. Its
  results go to other roles as facts; it does not call the parts above.
- The review materializer stands alone: its three modes meet in one directory.
- Nothing is rolled back and hardly anything is retried by the code: an operator
  runs the play again, and it must find its way from whatever is there. Only the
  materializer takes back what it has published when a later step of it fails.

What makes each part correct, in a sentence:

| part | correct when |
| --- | --- |
| Approvals | an approval is used once, for what was signed, within its window, and its use leaves durable evidence |
| 1Password items | an item with an ambiguous title is never reported, what is reported with a version was read from it, and an approval makes one item |
| SSH consumer | the secret that leaves is the pinned one, and was not read before the approval was spent |
| Documents | all tasks end up with the same document; no partial document is visible, and none that was reported is lost |
| Vault custody | the manifest is there only with every chunk; nothing damaged is called verified |
| Native handoff | a response counts only for its own, unexpired request |
| Custody role | Vault is committed after the second copy; a verified result is true; a second run completes what a first began |
| Escrow | the temporary header is removed on every path; the document read back is the one that was written |
| Secret resolution | all runs end up with the secret that Vault holds; a write changes one key, and replaces a value only where that is allowed |
| Review materializer | what it publishes was current after its diff was complete; a verified review binds assets that existed together; its cleanup never destroys another run's review and tries to remove everything of its own |

## 2. What is hard here

Plays overlap: several hosts of one play, several `ansible-playbook` processes
and several operators work on the same path, package, approval and vault. Every
call to 1Password, to Vault or to the file system is a step of its own between
those of the others. The list of hazards in `PROJECT.json` names the lines. In
short:

- **Check, then act.** The absence of a marker, of an item, of a KV object or of
  a document is looked at, and relied on later.
- **Unknown outcomes.** A create call that timed out may be served later, when
  its sender has given up.
- **Crashes.** The controller may lose power between a write and its fsync, or
  a process may be killed between `os.link` and `os.unlink`.
- **Versions.** Items are edited by people between the calls of one inspection;
  secrets carry no version.
- **Time.** Approvals and exchanges expire while a task is inspecting.
- **Out-of-band delivery.** Response files arrive late, again, or for another
  exchange.
- **Half-done custody.** One provider was written and the other was not.
- **Whole-document writes.** A key is added by writing the whole document that was
  read before.
- **Reading one by one.** Six assets are hashed one after the other while they
  may be edited; a pull request moves while its objects are fetched.

## 3. The modules and the code

    OneTimeGrant        DocumentConsensus          abstract specifications
         ^               ^           ^
     Approval     VaultDocument  HeaderCustody     one protocol each
         ^ EXTENDS                   :
    OnePasswordActions ........... CustodyRole     compositions

    SecretResolver     ReviewWorkspace             protocols of their own

An arrow is a refinement that is both checked and proved. `CustodyRole` takes
the two providers in an abstract form: one look and one write each, where a
write is served later than it is sent, or never. `HeaderCustody` justifies that
for Vault (it implements a write-once register, and refuses an apply only if
another one overtook it), and `OnePasswordActions` for 1Password (the kind
`document`).

Each module `M` has an `MCM` with its TLC instances and, except for the two
abstract ones, a module of proofs. Definitions that begin with "Variant" in
their comment are plausible mistakes; no specification uses them.

### Approval

A *task* is one invocation of a mutating action plugin.

| TLA+ | code |
| --- | --- |
| `signed` | payloads for which the authority has made a signature (`onepassword_approval.py`) |
| `dir`, `markers`, `durable` | the directory (device, inode) at the pinned path, its `.used` files, those that were fsynced |
| `NormalizeFields`, `VerifySignature`, `LookForMarker` | `normalize_approval`: fields, lifetime and clock; `ssh-keygen -Y verify` and the second look at the authority; the marker must not exist |
| `CheckClaimTime`, `OpenReplayDirectory`, `CreateMarker`, `SyncMarker` | `claim_approval`: clock again, `O_DIRECTORY`/`O_NOFOLLOW` open compared with the recorded identity (`opened`), `O_CREAT\|O_EXCL` in what was opened, fsync of file and directory |
| `Mutate` | the caller's next statement |
| `Refuse`, `Crash`, `PowerLoss`, `ReplaceDirectory` | every check that raises; a system call that fails or a kill; loss of a subset of the entries that were not fsynced; a directory moved to the pinned path |

The digest of authority, execution id and nonce is one value, `ReplayIds`. An
approval is presented as it was signed or with its expiry edited. The promise of
single use is one per directory: an administrator who puts another directory at
the pinned path before a task normalizes its approval gives it an empty ledger,
so `OneMutationPerApproval` compares tasks that validated the same one.
`OneTimeGrant` says the same without files, clocks or crashes.

### VaultDocument

A *task* is one call of `ensure` or `ensure_exact` for one path. The file a task
writes is named after the task.

| TLA+ | code |
| --- | --- |
| `target`, `temps` | the names in the directory; `LinkCount` is `st_nlink` |
| `content`, `flushed`, `diskTarget`, `diskTemps`, `parent` | what the page cache holds and what is on disk |
| `StatFound`, `StatFirst`, `StatConfirm`, `StatRace` | the stat of `_read_existing`, as its callers react to it |
| `ReadDocument`, `ReadFails` | open, fstat, read, the second stat, decryption and validation, as one step: it reads one inode, whose content is never changed after it was linked |
| `OpenTemp`, `WriteTemp`, `SyncTemp`, `LinkNoReplace`, `UnlinkTemp`, `SyncDirectory` | `_exclusive_create`, one system call that others can observe per step |
| `RaiseError` | any failure of these; the `finally` clause tries to remove the temporary name and passes over its own failure |
| `Kill`, `PowerLoss`, `Remove` | SIGKILL; power loss; an operator deletes the document |

`DocumentConsensus` is the promise: a value is chosen once, and everybody decides
for it. It is implemented twice. While the power stays on, the chosen value is the
file at the path and every task decides. With power losses it is the file at the
path *on disk*, and only tasks that wrote decide (`DurableConsensusSpec`); this
needs a directory that was there before (`EstablishedSpec`).

### HeaderCustody

The path of a package's objects contains its checksum, so all publishers of a
path store the same values. Objects are numbered in the order of their creation,
with the manifest last.

| TLA+ | code |
| --- | --- |
| `kv` | state, owner of the data and version of each object |
| `inflight` | create requests that were sent and that Vault has not served |
| `PreflightRead`/`Unexpected`/`Probe`, `Readback…` | `VaultHTTP.read`: the data request, and on a 404 the metadata request that tells "never existed" from "deleted" |
| `PreflightDone`, `SendCreate`, `StartReadback`, `ReadbackDone` | the body of `vault_custody` for plan, verify and apply |
| `ServeCreate` | Vault: `cas=0` succeeds only where no version ever was (external) |
| `TransportFails` | a timeout, a lost answer, a refused response: the run fails, the request may still be served |
| `ReadManifest`, `ReadChunk`, `RecheckManifest` | `vault_read_custody` |
| `Overwrite`, `SoftDelete`, `PurgeMetadata` | an operator with another tool (external) |

An object that another publisher creates between the two requests of one read
looks like a deleted one and fails that run; the model has this.
`SomeoneCommits` shows that not everybody can fail that way, and the theorem
`RaceKeepsALeader` why: one of the publishers in the race always holds the exact rest of the package.

### OnePasswordActions

Extends `Approval` with the items of a vault. Each request has a *kind*: create
(secret item, SSH key item), document, import, verify (all read-only
operations), grant (Co-Manager) or consume (SSH consumer).

| TLA+ | code |
| --- | --- |
| `vault`, `access` | items with id, title, version and creator; granted permissions |
| `stage`, `round` | the place of a task in its calls, and in which of its inspections: before the approval, after it, after the mutation |
| `InspectAbsent`, `InspectPresent`, `ReadFields`, `AssertCurrentVersion` | `op item list`, `op item get` or `op document get`, and the second list that confirms the version |
| `InspectAccess` | the two looks of the Co-Manager at the permissions |
| `Approve`, `Claim`, `SendApproved` | the steps of `Approval`, where each plugin takes them |
| `SendImport` | the import, without approval |
| `ServeCreate`, `ServeGrant`, `CallFails` | 1Password serves a call, possibly after its sender gave up (external); a call fails with its outcome unknown |
| `ReadSecret`, `RunSsh` | `op read` after the claim; the secret is written to ssh after a third inspection |
| `EditItem`, `DeleteItem`, `RevokeAccess` | people (external) |

### CustodyRole

`tasks/cac_custody.yml` is a list of tasks, so `pc` is the next task of a run.
A run works without 1Password (`none`), over ssh (`ssh`) or with a desktop that
exchanges files (`handoff`).

| TLA+ | code |
| --- | --- |
| `docs`, `pendingDocs` | Documents with the package's title, creations under way |
| `custody`, `pendingVault` | the run that committed the manifest; applies under way |
| `NativePlan`, `Consume`, `ConsumeFails`, `VaultPlan`, `SendDocument`, `ReadBack`, `SendVault`, `NativeVerify`, `Publish`, `VaultVerifyFails` | the tasks of `cac_custody.yml`, in their order and under their `when` |
| `Prepare`, `Execute`, `Deliver`, `ClearRequest` | the exchange: request file, adapter on the desktop, transport, operator |
| `Valid` | `validate_request`: lifetime, skew, expiry |
| `DesktopApply` | the desktop's own creation of the Document |
| `TaskFails` | a task fails or the play is killed; nothing is undone |
| `DeleteDocument`, `PurgeCustody` | an operator who deletes what is there (external) |

`assert.yml` requires `allow_create` for an apply, so every apply may create.

### SecretResolver

A *run* is one run of the role with its list of requests. All requests of the
model use keys of one Vault document, which is where runs meet; a value is a pair
of where it came from and what it was made for.

| TLA+ | code |
| --- | --- |
| `data`, `version`, `live` | the latest version of the document; `live` is false before the first write and after a soft deletion |
| `inflight` | writes that were sent and that Vault has not served |
| `at`, `turn`, `failures`, `value`, `snap` | the request a run is at, the provider it is at, `attempt_failures`, the value it has, and the document it read before its write |
| `Eligible`, `Skip`, `ReadVault`, `ReadExternal`, `NoAnswer`, `Generate` | `attempt_provider.yml` and the `resolve_*.yml` it includes |
| `UseDefault`, `LeaveOut`, `Accept`, `NextRequest`, `Fail` | `resolve_request.yml` after the providers; `cleanup.yml` |
| `ReadTarget`, `MayWrite`, `NewDocument`, `SendWrite`, `Answered` | `persist_hashicorp_vault.yml`, for a write-back and for a migration |
| `Unchanged`, `Applied`, `Rejected`, `Lose` | `vault_kv2_write` with `read_before_write`, and Vault's check-and-set (external) |
| `EditKey`, `DeleteOrRestore` | an operator with another tool (external) |

`ValidRequests` (`PolicyAssumption`) is what `validate_request.yml` enforces before anything is
read. Four providers (Ansible Vault, 1Password, environment, runtime) are one,
`"external"`, and the categories that are neither absence nor
`provider_unavailable` end a run as `Fail` does; they can be listed in
`fallback_on` as `provider_unavailable` can.

### ReviewWorkspace

A *run* is one invocation of the script, in one of its three modes.

| TLA+ | code |
| --- | --- |
| `publisher`, `patch`, `meta`, `temps` | the review directory, by whom it was made, its two files and temporary files |
| `pr`, `content` | the revision on the pull request; what each asset holds, which also stands for its SHA256 |
| `past`, `reverted`, `current`, `opened`, `taken`, `stuck` | history, which no step of the code looks at: the contents an asset has had, the assets that were set back to one of them while a verify was under way, the runs whose revision was current after their diff, what was true when, the unlinks and the rmdir of the publisher's cleanup that failed |
| `StartMaterialize`, `StartBind`, `StartVerify` | the checks at the beginning of the three modes |
| `ReadPullRequest`, `BuildDiff`, `RereadPullRequest` | `materialize`, which `verify` calls too: the live pull request before and after the fetch, merge and diff |
| `MakeDirectory`, `WriteTemporary`, `ReplacePatch`, `ReplaceMaterialized`, `ReplaceBound` | `write_materialized_workspace`, `bind_assets` and the `write_owned_regular_file` of both: temporary file, `os.replace` |
| `FailWriting`, `UndoMetadata`, `UndoPatch`, `UndoDirectory` | the cleanup of both functions, each call of which may fail too |
| `HashAsset`, `ComparePatch`, `CompareMetadata` | `bind_protected_assets`; the comparisons of `verify` |
| `Fail`, `Kill` | whatever raises before the directory exists; a process that ends between two system calls |
| `MovePullRequest`, `EditAsset`, `EditPatch`, `RemoveDirectory` | people and GitHub (external) |

`bind_assets` opens the directory by its path when it writes, so a bind that is
slow enough replaces the metadata of a later materialize with those of an earlier
one. The model has this; a verify then refuses the review, and
`ReportedWorkspaceStays` therefore speaks of the files and not of their contents.

## 4. The runs

All bounds are constants in the `.cfg` files. Deadlock is checked except in
`review`, `resolver` and `resolver_wide`: a run of the script or of the role is
over when it is over, and nothing in the code goes on. In the others a state in
which everybody is done has a `Finished` step, and no other state may be without
one.

| run | instance | distinct states | shows |
| --- | --- | --- | --- |
| `approval` | 2 tasks, 2 requests, 2 replay ids, 2 directories, 2 signatures, clock 0-2, everything that can go wrong | 1 042 639 | single use and authorization under every interleaving with expiry, crashes, power loss and directories that are moved away and back |
| `approval_live` | 3 tasks, 2 replay ids, undisturbed, fair | 50 986 | a race for an approval has a winner; `Approval` implements `OneTimeGrant` |
| `document` | 2 tasks, 2 subjects, kills, fair | 13 620 | publication implements `DocumentConsensus`; retries end, also where a killed winner left its second link |
| `document_faults` | 3 tasks, 2 subjects, power losses and deletions | 589 898 | no partial document at the path; what is returned is complete and the right one, though the path changes under the reader; a document that was reported survives; no task that returned leaves a second link; the work of a task is bounded |
| `custody` | 2 publishers, 1 reader, 1 chunk, a failing transport, 2 edits | 484 300 | the manifest commits; retrievals are not torn; damage is never repaired silently nor reported as verified |
| `custody_live` | 2 publishers, 1 reader, 2 chunks, no faults, fair | 11 418 | publishers do not defeat each other for ever; the custody implements a write-once register |
| `op_items` | 2 tasks of any kind, 3 titles, 2 replay ids, 2 directories, 1 edit | 1 121 393 | one item per approval, evidence behind every item, exclusive success; what is reported was read from the reported version; the secret that leaves is the pinned one |
| `role` | 2 runs in every mode and operation, one of which may fail anywhere, 1 exchange, fair | 647 385 | second copy before Vault; a verified result is true; a rerun completes |
| `role_handoff` | 1 run that may fail anywhere, 2 exchanges, clock 0-2, skew 1, 1 response under way, 1 deletion | 796 204 | nothing a run relies on is older than an exchange |
| `review` | 3 runs, 2 revisions with the same diff, 2 assets, 2 contents, 2 edits, 1 removal | 960 406 | publication of current revisions only; bindings that existed together; a cleanup that destroys nothing of others and forgets nothing of its own |
| `resolver` | 3 runs (two requests, a migration and a write-back, a check run), 2 keys, 1 edit | 968 902 | agreement on generated secrets, retrieval by later runs, writes that change one key and respect the policy |
| `resolver_wide` | the same with wider `fallback_on`, no edits | stops at the violation | see below |

`MCVaultDocumentPower.cfg` belongs to no run of `PROJECT.json`: it is the instance for
the second refinement of `DocumentConsensus` (`DurableConsensusSpec`), with kills and
power losses at any point, for 3 tasks in an existing directory (127 651 states).
That refinement is proved for all instances, as `ImplementsDurableConsensus`.

**A divergence.** `resolver_wide` checks what `roles/secret_resolver/README.md`
says (line 357): "Generation is attempted only after secret_not_found or
secret_key_missing". TLC finds a run that generates a secret after its provider
gave no answer. The last clause of the eligibility in `attempt_provider.yml` admits
*any* provider after a category of `fallback_on`, `generated` among them, and
`provider_unavailable` may be listed there. If the request may overwrite, the new
secret replaces the one that could not be read; otherwise the persistence
refuses. The default configuration allows no such category.

**Why the bounds are enough.** The properties relate at most two tasks and an
environment. Two contenders make a race; where a third matters (a reader beside
a winner and a loser; a document that is deleted and replaced by another while
a third task reads it; a second late request), the run has three. Two replay
ids, subjects, directories, titles or chunks are needed to tell the right one
from a wrong one. `Retries = 2` has a failed attempt that is not the last and one
that is. The clock runs past every window. `resolver` has a key with two writers
and one with two readers, one that may be overwritten and one that may not; `review`
has a run for each mode, or three that race for the directory, two assets so that
a mix of old and new is possible, and two edits so that one can be undone in
effect. What a
property needs all values for is proved (section 5), except where section 5 says
otherwise.

**Symmetry** is used only in runs without liveness, over tasks, documents,
replay ids, directories, revisions and runs, none of which a definition tells apart.

**Fairness.** A started plugin is straight-line Python with bounded loops, whose
subprocesses and sockets have timeouts, so it goes on to its next step: weak
fairness on a task's own steps. Nothing forces a task to *start*
(`pc # "start"`, `pc # "idle"` in the fairness condition), a clock to advance, an
authority to sign, an operator or a desktop to act, a fault to happen. In
`custody_live` Vault answers, and there are no faults; in `role` the providers
answer and tasks may fail. `RerunCompletes` is about a run that starts when every
other run is over, no write is under way and exactly one Document exists.

**Mutants.** For every property there is a change of one definition, such as a
plausible bug would make, that the run detects: `O_EXCL` dropped, no fsync before
the link, `os.rename` for `os.link`, a directory fsync by the winner only, a replay
directory whose identity is not compared when it is opened, a create without `cas`, the
manifest first, the version of a pinned item not compared, Vault written before
1Password, a response that is not tied to its request, a cleanup that
stops at its first failure, a rejected write taken for a success, a document written with one key only.

## 5. What is proved

For every number of tasks, publishers, chunks, runs and exchanges, under the
assumptions the modules name (`ApprovalAssumption`, `DocumentAssumption`,
`CustodyAssumption`, `ActionsAssumption`, `RoleAssumption`, `WorkspaceAssumption`,
`ResolverAssumption`: the bounds are natural numbers, "none" is not a member,
`Chunks`, `Retries` and the lifetime are positive; `PolicyAssumption` is what the
role validates).

**ApprovalProofs.** `ApprovalInv` is inductive. *OpenedIsValidated* (the
open directory is the validated one), *MarkerPresent* (a task past
`O_EXCL` has its marker, past the fsync it has it on disk), *DurableIsVisible*
and *MarkerExclusive* (one owner per marker) go together: a second owner would
need the marker to be absent, and a power loss removes only markers of tasks
that it kills before they mutate. *ChecksHold* keeps what each check saw.
`TypeCorrect`, `AtMostOneMutation`, `OnlyAuthorizedMutations` and `EvidenceIsDurable`
follow, and
`ApprovalImplementsGrant`, whose only step that is no stutter is `Mutate`.
`NobodyLosesToNobody` adds *MarkersAreUsed*: undisturbed, behind every marker is a
task that holds the approval and has not failed, so who finds a marker lost to it.

**VaultDocumentProofs.** `NoPartialDocument` rests on *PublishedIsFlushed*: only
fsynced files are linked, and power losses spare them. `ReturnedDocumentIsValid`
adds *ReturnedIsFlushed* to it; both theorems assume nothing. `Agreement` and
`ImplementsConsensus` assume that nobody removes documents and that the power stays on
(they are false otherwise: the path may then hold another document than the one
somebody returned); kills are allowed. The target is then written once.
`ReportedDocumentSurvives` assumes nothing either: *PublishedWasLinked* and
*WriterIsDurable* say that from a writer's directory fsync on, what is at the path
is on disk, and `WinnerIsDurable` that a winner's document is, also when others are
deleted and published meanwhile. `ImplementsDurableConsensus` combines these into a
refinement that power losses and kills do not break. It assumes that nobody removes
documents and that the directory exists. *PathIsEstablished* (what is on disk is
what is at the path) and *DigestIsFinal* make the choice a single one.
`OnlyFailuresLeaveLinks` follows from *DiskTempsAreOwned*: a power loss brings back
only names that are on disk, and whoever came past its directory fsync has none there.
`LoopsAreBounded` is a variant: `StepsFrom` counts the steps that a phase and a number
of failed attempts leave, each step of a task lowers it and nobody's raises it.

**HeaderCustodyProofs.** `CustodyInv`, while nobody has edited the store: the
objects that exist are a prefix of the package (*StoredIsPrefix*), what a publisher
does not count as missing is stored (*PreflightIsRight*), and every request
under way was sent when everything before its object was stored
(*RequestsInOrder*), which is what makes late requests harmless. From it
`ManifestCommitsPackage`, `RetrievalIsNotTorn`, `VerifiedIsComplete`, and, when
nobody edits at all, `ImplementsRegister`. `DamageIsAlwaysNoticed` needs none of it,
and speaks of pairs of moments: once an object is damaged, whoever has yet to pass it
is doomed, and stays so while nobody purges, because no create touches an object that
had a version. `RaceKeepsALeader` adds *RequestsAreAwaited* (where no sender gives up,
a request under way is the next missing object of a waiting publisher): the publisher
whose create was accepted last holds the exact rest, and loses that place only to one
that takes it. `RefusedByARival` follows, which is what lets `CustodyRole` refuse an
apply only where another one was.

**OnePasswordProofs.** `ImplementsApproval`: whatever the plugins do around it,
they take the steps of `Approval` in its order, so `OneCallPerApproval` and the rest
of `ApprovalProofs` hold of them. *CreatorsMutated* and *OneItemPerTask* tie items
to tasks that have mutated: `ItemsHaveEvidence`, `OneItemForOneApproval`.
*VersionsBound* (what an inspection saw is a lower bound of an item's version, since
ids are not reused and versions grow), *ConsumeStages* and *SecretBound* give
`ReportsAreCurrent` and `UnlocksWithPinnedSecret`: the secret has no version, but
it lies between two looks that found the same one. `CreatorsAreExclusive`: while
nobody edits the vault, a task that reports a title has found it unambiguous and
its own item is there, so no other task can have done the same.

**CustodyRoleProofs.** `RoleInv`: *Witnessed* (whatever says that there is a Document
is right), *WriteFollows* (a Vault write is sent only after that), *Delivered* and
*Timely* (the response a run finds was written inside its exchange's window). From it
`VaultWaitsForTheCopy`, `ResultsAreTrue` and `ReceiptsAreRecent`. `RerunsSucceed` is an
invariant of one run and of what it started from (*RerunInv*): a rerun that is alone
finds one Document and no write under way, each of its tasks keeps it so, and
none of them has anything to fail on.

**ReviewWorkspaceProofs.** `ReviewsAreCurrent` rests on *ReadInTime*: a run past its
second look had its revision on the pull request after its diff was complete.
`HashesCoexisted` is the argument of a double collect, for contents that may come
back: the hashes in the metadata are contents that the assets had before a verify reads
them (*HashesArePast*). A content that an asset had and no longer has then
(*OldStaysOld*) is not found again by the verify, unless somebody sets the asset back
to it meanwhile (`reverted`); so where the hashes are equal
(*VerifiedHashes*), they were true when the metadata were read. `LeftoversWereStuck` rests on
*Ownership* (one publisher at a time, and a cleanup only by the run that made the
directory) and *CleanupProgress* (what each stage of a cleanup has removed or failed to
remove); `ReviewStays` and `PatchIsThere` add what each stage of
the publisher and of its cleanup has in the directory (*FilesStay*,
*PatchOutlivesMetadata*).

**SecretResolverProofs.** `WritesArePermitted` rests on *DocumentInv*:
a snapshot or a write under way with the current version number holds the current
data with one key changed (*SnapsFit*, *WritesFit*), one with an older number is
rejected, and before the first write the document is empty (*Unwritten*).
`RunsAgree` adds what a run holds while it waits (*HandsFull*, *Waits*) and that what
runs have published for a write-back is what Vault has (*HeldAgrees*).
`LaterRunsRetrieve` adds that keys that were there when a run started stay
(*BeforeStays*), so its first read finds them and it does not generate
(*Attempting*, *NothingMade*). It assumes `AbsenceOnly`: the write-back requests fall
back after absence only. Without it a run may well generate after its provider was
unavailable, which `resolver_wide` shows.

**Only model-checked.** Liveness, which is out of the prover's reach:
`SomeContenderWins`, `RetriesEnd`, `SomeoneCommits` and `RerunCompletes`. Of each the part
that is about safety is proved as a property of its own. Of these `document_faults`
checks `WorkIsBounded`, because `RetriesEnd` is checked without power losses and
deletions. No run has the others: on small instances the changes of the code that
break them break the liveness property too.

| checked: eventually | proved: never | theorem |
| --- | --- | --- |
| `SomeContenderWins` | `LosersLoseToAWinner`: a task loses an approval that nobody uses | `NobodyLosesToNobody` |
| `RetriesEnd` | `WorkIsBounded`: a step leaves a task as far from its end as before | `LoopsAreBounded` |
| `SomeoneCommits` | `RaceHasALeader`: all publishers in a race are behind the store | `RaceKeepsALeader` |
| `RerunCompletes` | `RerunSucceeds`: a rerun fails, or ends with another result | `RerunsSucceed` |

What remains with TLC is that tasks go on, which is the fairness itself, and that
nobody waits for ever. `GenerationFollowsAbsence` is false (section 4).
`AgreeOnDocument`, `DurableConsensusSpec`, `EvidenceOutlivesMutation`, `VerifiedIsStored` and the property of
`RefusedByARival` are proved too and not checked by a run of their own: the refinement
of `DocumentConsensus`, `ReportedSurvives`, `EveryItemHasEvidence`, `CustodySpec` and `SomeoneCommits` say as
much on small instances.

## 6. What is not modelled

Inside the modelled parts:

- Approvals: `commit_shas` are part of the signed payload and otherwise inert.
  `Refuse` has the checks of the protocol (window, signature, identity of the
  directory, marker). The checks of paths, owners, executables, sockets and keys are not
  modelled one by one: one that fails ends its task before its mutation, as a
  `Crash` does. Nor are the agent's challenge and the temporary files of the signer.
- Documents: encryption is a value: a document is complete and bound to its
  request, or not. A directory that the action makes is never fsynced into its
  parent, so a power loss can take it with the document in it
  (`ReportedSurvives` says so). A pure reader may report a document shortly
  before the winner's directory fsync; only writers are promised durability.
- Vault: tokens, TLS and response limits are a failing transport. `plan` stands
  for `apply` in check mode.
- 1Password: one of the two items that a consumer pins; neither tag states nor
  the agent challenge of `verify_agent`. A create with an unknown outcome that is
  served late can make a second item of a title; every later inspection refuses it,
  and a person has to delete one.
- Role: the `read` operation of the handoff, the response to the desktop's
  apply, and the working files that the `always` section removes. Two overlapping
  ssh applies can leave two Documents; all later runs then fail until a
  person deletes one, which the code intends.
- Secret resolver: the shapes and patterns of values, and with them the category
  `validation_failed`; providers other than Vault are one. A migration's target is a
  key of the same document. Versions that are destroyed, and a document whose
  metadata is deleted (its version numbers begin again), are not modelled.
- Review: git is one step that succeeds or not; the ownership checks of parent
  directories are part of a failing step; `os.fsync` of the directory is tolerated
  to fail by the code, and no power loss is modelled. Equal hashes cannot show that an
  asset was changed and changed back between two looks at it: of assets that go from A0
  to A1 and back, and of others that go from B0 to B1, back and to B1 again, bind and
  verify may both see A0 and B1, which never were there together, and verify passes.
  `BindingsCoexisted` therefore exempts assets that are set back while the verify
  runs. The errors of a failed cleanup become notes of the exception that is
  raised, where exceptions have `add_note` (Python 3.11); elsewhere nothing names the
  leftovers, so no property is about the notes. `CleanupIsThorough` says which
  leftovers there can be.
- A document that has two links is unreadable until an operator removes the temporary
  name. A kill between `os.link` and `os.unlink` has that effect, and so has an error
  between the two whose cleanup fails, because `_remove_owned_temp` tries once and
  passes over its failure, or whose cleanup a power loss takes back, because the
  directory is not fsynced there. `LeftoversAreFailures` shows that a task that returned
  never has it, and `RetriesEnd` that nobody hangs on such a document.

Whole parts:

- Packages, recovery and the restore drill: validation of files and one
  sequential run on a loop device.
- Escrow: a sequential capture of one header on its host, around two calls of
  `ensure_exact`. What other tasks can do to it happens at the path of the document,
  which is `VaultDocument`; the removal of the raw header is an `always` section, which
  a killed play does not run.
- `secret_kv` and `secret_backend`: one read, one write, or a selection of variables.
  An upsert merges with what its read returned, which is nothing if the read failed,
  and writes without check-and-set; `PROJECT.json` lists this as a hazard without a
  property.
- Root of trust: a pure function from observations to a verdict.
- Hetzner, Terraform, certificates, VMware, Redfish, network and container
  roles: sequences of calls to external programs and providers with little state
  of their own.
- Scripts and workflows: build tooling; the module stubs: documentation.

## 7. What could come next

Modelled, checked and proved: `Approval`, `OneTimeGrant`; `VaultDocument`,
`DocumentConsensus`; `HeaderCustody`; `OnePasswordActions`; `CustodyRole`;
`SecretResolver`; `ReviewWorkspace`.

What would add most, in this order:

1. A refinement that makes `HeaderCustody` the Vault provider of `CustodyRole`, of
   which `ImplementsRegister` and `RefusedByARival` are the two halves.
2. Proofs for the step from an exchange to its result: the `read` operation of the
   handoff, and the second item of the SSH consumer.
3. `HeaderEscrow`: the capture around `VaultDocument`, with a play that is killed
   before its `always` section.
4. The guards of the destructive steps of `hetzner_installimage` and
   `hetzner_robot_ops`, and the decision function of `root_of_trust.py` against a
   reference definition over bounded observations.
