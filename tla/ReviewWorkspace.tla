--------------------------- MODULE ReviewWorkspace ---------------------------
(***************************************************************************)
(* scripts/materialize-exact-revision-review.py: runs of its three modes   *)
(* around one review directory.                                            *)
(*   materialize  reads the live pull request, builds the diff between the *)
(*                expected base and head, reads the pull request again and *)
(*                publishes change.patch and review-metadata.json          *)
(*   bind         adds the hashes of the protected assets to the metadata  *)
(*   verify       materializes again, beside the directory, and compares   *)
(* The pull request moves, people edit the assets and the patch, and a run *)
(* fails or is killed between any two steps.  A revision stands for a pair *)
(* of base and head, a content for its SHA256: equal hashes are taken to   *)
(* come from equal bytes.                                                  *)
(***************************************************************************)
EXTENDS Integers, FiniteSets

CONSTANTS Runs,         \* invocations of the script
          Revisions,    \* what the pull request may carry
          Usable,       \* those with one merge base, a clean merge and a
                        \* diff of 1..MAX_REVIEW_BYTES - 1 bytes
          Patches,      \* the contents of change.patch
          DiffOf,       \* the binary diff of each revision
          Assets,       \* the keys of ASSET_ARGUMENTS
          Contents,     \* what an asset may hold
          Nothing,      \* no run, no revision, no patch, no hash
          MaxEdits,     \* bound: edits of the assets and of the patch
          MaxRemovals   \* bound: removals of a leftover directory

ASSUME WorkspaceAssumption ==
  /\ Usable \subseteq Revisions
  /\ DiffOf \in [Revisions -> Patches]
  /\ Assets # {}
  /\ Nothing \notin Runs \cup Revisions \cup Patches \cup Contents
  /\ MaxEdits \in Nat /\ MaxRemovals \in Nat

VARIABLES pr,         \* the revision on the pull request; Nothing if closed
          content,    \* the content of each asset
          past,       \* history: the contents each asset has had
          publisher,  \* the run that made the directory; Nothing: no directory
          patch,      \* change.patch
          meta,       \* review-metadata.json
          temps,      \* runs with a temporary file in the directory
          stage,      \* where each run is
          mode,       \* materialize, bind or verify
          expect,     \* the --expected-base and --expected-head of each run
          held,       \* the metadata a bind or a verify has read
          taken,      \* the assets it has hashed so far
          opened,     \* history: the assets when a verify read the metadata
          reverted,   \* history: the assets that were set back to a content
                      \* they had had before, while a verify was under way
          current,    \* history: the pull request carried the expected
                      \* revision at some time since the diff was complete
          stuck,      \* history: the failed cleanup calls of the publisher
          edits,      \* edits so far (bound)
          removals    \* removals so far (bound)

directory == <<publisher, patch, meta, temps>>
world == <<pr, content, past, reverted, edits, removals>>
plan == <<mode, expect>>
vars == <<world, directory, stage, plan, held, taken, opened, current, stuck>>

Unread == [a \in Assets |-> Nothing]
NoMetadata == [rev |-> Nothing, assets |-> Unread]
Hashes == [Assets -> Contents \cup {Nothing}]
Metadata == [rev : Revisions \cup {Nothing}, assets : Hashes]
Bound(m) == \E a \in Assets : m.assets[a] # Nothing

Undoing == {"undo metadata", "undo patch", "undo directory"}
Writing == {"made", "writing patch", "patched", "writing metadata"}
Ended == {"materialized", "bound", "verified", "failed", "killed"}
Stages == {"idle", "checking", "fetching", "built", "settled", "collecting",
           "compared"} \cup Writing \cup Undoing \cup Ended
Modes == {"materialize", "bind", "verify"}
Cleanup == {"temporary", "metadata", "patch", "directory"}

\* Runs that have made the directory and are not through with it.
Publishing ==
  {p \in Runs : mode[p] = "materialize" /\ stage[p] \in Writing \cup Undoing}

TypeOK ==
  /\ pr \in Revisions \cup {Nothing}
  /\ content \in [Assets -> Contents]
  /\ past \in [Assets -> SUBSET Contents]
  /\ publisher \in Runs \cup {Nothing}
  /\ patch \in Patches \cup {Nothing}
  /\ meta \in Metadata
  /\ temps \subseteq Runs
  /\ stage \in [Runs -> Stages]
  /\ mode \in [Runs -> Modes]
  /\ expect \in [Runs -> Revisions \cup {Nothing}]
  /\ held \in [Runs -> Metadata]
  /\ taken \in [Runs -> Hashes]
  /\ opened \in [Runs -> Hashes]
  /\ reverted \in [Runs -> SUBSET Assets]
  /\ current \subseteq Runs
  /\ stuck \subseteq Cleanup
  /\ edits \in Nat /\ removals \in Nat

\* Contents of different assets are never compared: that all of them begin with
\* the same one is no loss.
Init ==
  /\ pr \in Revisions
  /\ content \in {[a \in Assets |-> c] : c \in Contents}
  /\ past = [a \in Assets |-> {content[a]}]
  /\ publisher = Nothing /\ patch = Nothing /\ meta = NoMetadata
  /\ temps = {}
  /\ stage = [p \in Runs |-> "idle"]
  /\ mode = [p \in Runs |-> "materialize"]
  /\ expect = [p \in Runs |-> Nothing]
  /\ held = [p \in Runs |-> NoMetadata]
  /\ taken = [p \in Runs |-> Unread]
  /\ opened = [p \in Runs |-> Unread]
  /\ reverted = [p \in Runs |-> {}]
  /\ current = {} /\ stuck = {}
  /\ edits = 0 /\ removals = 0

Goto(p, s) == stage' = [stage EXCEPT ![p] = s]

(***************************************************************************)
(* Starting a run                                                          *)
(***************************************************************************)

\* The run is told a revision and finds no directory.
StartMaterialize(p, r) ==
  /\ stage[p] = "idle"
  /\ publisher = Nothing
  /\ Goto(p, "checking")
  /\ mode' = [mode EXCEPT ![p] = "materialize"]
  /\ expect' = [expect EXCEPT ![p] = r]
  /\ UNCHANGED <<world, directory, held, taken, opened, current, stuck>>

\* The metadata must be there and must not carry an asset hash.
StartBind(p) ==
  /\ stage[p] = "idle"
  /\ meta.rev # Nothing /\ ~Bound(meta)
  /\ Goto(p, "collecting")
  /\ mode' = [mode EXCEPT ![p] = "bind"]
  /\ held' = [held EXCEPT ![p] = meta]
  /\ UNCHANGED <<world, directory, expect, taken, opened, current, stuck>>

\* Both files must be there, the metadata with every key of
\* IMMUTABLE_METADATA_KEYS.
StartVerify(p, r) ==
  /\ stage[p] = "idle"
  /\ patch # Nothing
  /\ meta.rev # Nothing /\ Bound(meta)
  /\ Goto(p, "checking")
  /\ mode' = [mode EXCEPT ![p] = "verify"]
  /\ expect' = [expect EXCEPT ![p] = r]
  /\ held' = [held EXCEPT ![p] = meta]
  /\ opened' = [opened EXCEPT ![p] = content]
  /\ UNCHANGED <<world, directory, taken, current, stuck>>

(***************************************************************************)
(* materialize, which verify calls too                                     *)
(***************************************************************************)

\* read_live_pull_request, before the objects are fetched.
ReadPullRequest(p) ==
  /\ stage[p] = "checking"
  /\ pr = expect[p]
  /\ Goto(p, "fetching")
  /\ UNCHANGED <<world, directory, plan, held, taken, opened, current, stuck>>

\* The fetch by object id, the merge and the bounded diff.  What happens to
\* the pull request meanwhile does not show in them.
BuildDiff(p) ==
  /\ stage[p] = "fetching"
  /\ expect[p] \in Usable
  /\ Goto(p, "built")
  /\ current' = IF pr = expect[p] THEN current \cup {p} ELSE current
  /\ UNCHANGED <<world, directory, plan, held, taken, opened, stuck>>

\* Variant of RereadPullRequest that trusts the first answer.
RereadNotAtAll(p) ==
  /\ stage[p] = "built"
  /\ Goto(p, IF mode[p] = "verify" THEN "collecting" ELSE "settled")
  /\ UNCHANGED <<world, directory, plan, held, taken, opened, current, stuck>>

\* read_live_pull_request again, after the diff.  A verify has its own
\* directory for the regenerated files and goes on to the assets.
RereadPullRequest(p) ==
  /\ stage[p] = "built"
  /\ pr = expect[p]
  /\ Goto(p, IF mode[p] = "verify" THEN "collecting" ELSE "settled")
  /\ UNCHANGED <<world, directory, plan, held, taken, opened, current, stuck>>

(***************************************************************************)
(* write_materialized_workspace and write_owned_regular_file               *)
(***************************************************************************)

\* Variant of MakeDirectory that accepts a directory which is there already.
MakeDirectoryExistOk(p) ==
  /\ stage[p] = "settled"
  /\ publisher' = p
  /\ Goto(p, "made")
  /\ UNCHANGED <<world, patch, meta, temps, plan, held, taken, opened,
                 current, stuck>>

\* mkdir fails if there is a directory by now.
MakeDirectory(p) ==
  /\ stage[p] = "settled"
  /\ publisher = Nothing
  /\ publisher' = p
  /\ Goto(p, "made")
  /\ UNCHANGED <<world, patch, meta, temps, plan, held, taken, opened,
                 current, stuck>>

\* Every asset is hashed.
Complete(p) == \A a \in Assets : taken[p][a] # Nothing

\* A temporary file beside the target, created exclusively, written, synced
\* and read back: first for the patch, then for the metadata.
WriteTemporary(p) ==
  /\ publisher # Nothing
  /\ \/ stage[p] = "made" /\ Goto(p, "writing patch")
     \/ stage[p] = "patched" /\ Goto(p, "writing metadata")
     \/ /\ stage[p] = "collecting" /\ mode[p] = "bind" /\ Complete(p)
        /\ Goto(p, "writing metadata")
  /\ temps' = temps \cup {p}
  /\ UNCHANGED <<world, publisher, patch, meta, plan, held, taken, opened,
                 current, stuck>>

\* Variant of ReplacePatch that writes the revision in place of its diff.
ReplaceWithRevision(p) ==
  /\ stage[p] = "writing patch" /\ p \in temps
  /\ patch' = expect[p]
  /\ temps' = temps \ {p}
  /\ Goto(p, "patched")
  /\ UNCHANGED <<world, publisher, meta, plan, held, taken, opened, current,
                 stuck>>

\* os.replace is the commit point.  Closing the directory descriptor can
\* still fail: a materialize then undoes the file it has just published.
ReplacePatch(p) ==
  /\ stage[p] = "writing patch" /\ p \in temps
  /\ patch' = DiffOf[expect[p]]
  /\ temps' = temps \ {p}
  /\ \E s \in {"patched", "undo metadata"} : Goto(p, s)
  /\ UNCHANGED <<world, publisher, meta, plan, held, taken, opened, current,
                 stuck>>

MaterializedMetadata(p) == [rev |-> expect[p], assets |-> Unread]

\* Variant of ReplaceMaterialized whose cleanup forgets the published metadata.
ReplaceMaterializedForgotten(p) ==
  /\ stage[p] = "writing metadata" /\ p \in temps
  /\ mode[p] = "materialize"
  /\ meta' = MaterializedMetadata(p)
  /\ temps' = temps \ {p}
  /\ \E s \in {"materialized", "undo patch"} : Goto(p, s)
  /\ UNCHANGED <<world, publisher, patch, plan, held, taken, opened, current,
                 stuck>>

ReplaceMaterialized(p) ==
  /\ stage[p] = "writing metadata" /\ p \in temps
  /\ mode[p] = "materialize"
  /\ meta' = MaterializedMetadata(p)
  /\ temps' = temps \ {p}
  /\ \E s \in {"materialized", "undo metadata"} : Goto(p, s)
  /\ UNCHANGED <<world, publisher, patch, plan, held, taken, opened, current,
                 stuck>>

BoundMetadata(p) == [rev |-> held[p].rev, assets |-> taken[p]]

ReplaceBound(p) ==
  /\ stage[p] = "writing metadata" /\ p \in temps
  /\ mode[p] = "bind"
  /\ meta' = BoundMetadata(p)
  /\ temps' = temps \ {p}
  /\ \E s \in {"bound", "failed"} : Goto(p, s)
  /\ UNCHANGED <<world, publisher, patch, plan, held, taken, opened, current,
                 stuck>>

\* A call of p's cleanup fails.  The error gets a note of it only where
\* exceptions have add_note: add_error_notes does nothing elsewhere.
Stuck(p, call) ==
  stuck' = IF publisher = p THEN stuck \cup {call} ELSE stuck

\* Any failure inside the directory.  The temporary file is unlinked, unless
\* that fails, too.
FailWriting(p) ==
  /\ stage[p] \in Writing
  /\ Goto(p, IF mode[p] = "bind" THEN "failed" ELSE "undo metadata")
  /\ \/ temps' = temps \ {p} /\ UNCHANGED stuck
     \/ p \in temps /\ Stuck(p, "temporary") /\ UNCHANGED temps
  /\ UNCHANGED <<world, publisher, patch, meta, plan, held, taken, opened,
                 current>>

\* Variant of UndoMetadata that gives up when the unlink fails.
UndoMetadataOrStop(p) ==
  /\ stage[p] = "undo metadata"
  /\ \/ meta' = NoMetadata /\ Goto(p, "undo patch") /\ UNCHANGED stuck
     \/ Stuck(p, "metadata") /\ Goto(p, "failed") /\ UNCHANGED meta
  /\ UNCHANGED <<world, publisher, patch, temps, plan, held, taken, opened,
                 current>>

\* The exact partial output is removed file by file; after an unlink that
\* fails the next one is tried.
UndoMetadata(p) ==
  /\ stage[p] = "undo metadata"
  /\ \/ meta' = NoMetadata /\ UNCHANGED stuck
     \/ Stuck(p, "metadata") /\ UNCHANGED meta
  /\ Goto(p, "undo patch")
  /\ UNCHANGED <<world, publisher, patch, temps, plan, held, taken, opened,
                 current>>

UndoPatch(p) ==
  /\ stage[p] = "undo patch"
  /\ \/ patch' = Nothing /\ UNCHANGED stuck
     \/ Stuck(p, "patch") /\ UNCHANGED patch
  /\ Goto(p, "undo directory")
  /\ UNCHANGED <<world, publisher, meta, temps, plan, held, taken, opened,
                 current>>

\* The directory holds no file.
DirectoryIsEmpty == patch = Nothing /\ meta = NoMetadata /\ temps = {}

\* rmdir, which fails for one in which a file is left or a bind is at work.
UndoDirectory(p) ==
  /\ stage[p] = "undo directory"
  /\ \/ DirectoryIsEmpty /\ publisher' = Nothing /\ stuck' = {}
     \/ Stuck(p, "directory") /\ UNCHANGED publisher
  /\ Goto(p, "failed")
  /\ UNCHANGED <<world, patch, meta, temps, plan, held, taken, opened,
                 current>>

(***************************************************************************)
(* bind_protected_assets, and the comparisons of verify                    *)
(***************************************************************************)

\* protected_asset_bytes and the hash, one asset after the other.
HashAsset(p, a) ==
  /\ stage[p] = "collecting"
  /\ taken[p][a] = Nothing
  /\ taken' = [taken EXCEPT ![p][a] = content[a]]
  /\ UNCHANGED <<world, directory, stage, plan, held, opened, current, stuck>>

ComparePatch(p) ==
  /\ stage[p] = "collecting" /\ mode[p] = "verify"
  /\ Complete(p)
  /\ patch = DiffOf[expect[p]]
  /\ Goto(p, "compared")
  /\ UNCHANGED <<world, directory, plan, held, taken, opened, current, stuck>>

\* Variant of CompareMetadata that compares the keys of the revision only.
CompareRevisionOnly(p) ==
  /\ stage[p] = "compared"
  /\ held[p].rev = expect[p]
  /\ Goto(p, "verified")
  /\ UNCHANGED <<world, directory, plan, held, taken, opened, current, stuck>>

\* Every key of IMMUTABLE_METADATA_KEYS.
CompareMetadata(p) ==
  /\ stage[p] = "compared"
  /\ held[p].rev = expect[p]
  /\ held[p].assets = taken[p]
  /\ Goto(p, "verified")
  /\ UNCHANGED <<world, directory, plan, held, taken, opened, current, stuck>>

(***************************************************************************)
(* Failures and the surroundings                                           *)
(***************************************************************************)

\* A refused check, a command that fails or times out, an unreadable file, a
\* kill: what ends a run while nothing of it is in the directory.
Fail(p) ==
  /\ stage[p] \in {"checking", "fetching", "built", "settled", "collecting",
                   "compared"}
  /\ Goto(p, "failed")
  /\ UNCHANGED <<world, directory, plan, held, taken, opened, current, stuck>>

\* A kill between two steps in the directory: what is there stays.
Kill(p) ==
  /\ stage[p] \in Writing \cup Undoing
  /\ Goto(p, "killed")
  /\ UNCHANGED <<world, directory, plan, held, taken, opened, current, stuck>>

\* A push, a retarget, a close or a reopen.
MovePullRequest(r) ==
  /\ pr # r
  /\ pr' = r
  /\ current' = current \cup {p \in Runs : stage[p] = "built" /\ expect[p] = r}
  /\ UNCHANGED <<content, past, reverted, edits, removals, directory, stage,
                 plan, held, taken, opened, stuck>>

\* An edit may also bring back what the asset held before.
EditAsset(a, c) ==
  /\ edits < MaxEdits
  /\ content[a] # c
  /\ edits' = edits + 1
  /\ content' = [content EXCEPT ![a] = c]
  /\ past' = [past EXCEPT ![a] = @ \cup {c}]
  /\ reverted' = [p \in Runs |->
                    IF /\ mode[p] = "verify" /\ stage[p] \notin Ended
                       /\ c \in past[a]
                    THEN reverted[p] \cup {a} ELSE reverted[p]]
  /\ UNCHANGED <<pr, removals, directory, stage, plan, held, taken, opened,
                 current, stuck>>

EditPatch(x) ==
  /\ edits < MaxEdits
  /\ patch \notin {Nothing, x}
  /\ edits' = edits + 1
  /\ patch' = x
  /\ UNCHANGED <<pr, content, past, reverted, removals, publisher, meta, temps,
                 stage, plan, held, taken, opened, current, stuck>>

\* A leftover directory is removed while no run is publishing.
RemoveDirectory ==
  /\ removals < MaxRemovals
  /\ publisher # Nothing /\ Publishing = {}
  /\ removals' = removals + 1
  /\ publisher' = Nothing /\ patch' = Nothing /\ meta' = NoMetadata
  /\ temps' = {} /\ stuck' = {}
  /\ UNCHANGED <<pr, content, past, reverted, edits, stage, plan, held, taken,
                 opened, current>>

Start(p) ==
  \/ StartBind(p)
  \/ \E r \in Revisions : StartMaterialize(p, r) \/ StartVerify(p, r)

Regenerate(p) == ReadPullRequest(p) \/ BuildDiff(p) \/ RereadPullRequest(p)

Publish(p) ==
  \/ MakeDirectory(p) \/ WriteTemporary(p) \/ ReplacePatch(p)
  \/ ReplaceMaterialized(p) \/ ReplaceBound(p)

Undo(p) ==
  \/ FailWriting(p) \/ UndoMetadata(p) \/ UndoPatch(p) \/ UndoDirectory(p)

Verify(p) ==
  \/ \E a \in Assets : HashAsset(p, a)
  \/ ComparePatch(p) \/ CompareMetadata(p)

Surroundings ==
  \/ \E r \in Revisions \cup {Nothing} : MovePullRequest(r)
  \/ \E a \in Assets, c \in Contents : EditAsset(a, c)
  \/ \E x \in Patches : EditPatch(x)
  \/ RemoveDirectory

Next ==
  \/ \E p \in Runs :
       Start(p) \/ Regenerate(p) \/ Publish(p) \/ Undo(p) \/ Verify(p)
         \/ Fail(p) \/ Kill(p)
  \/ Surroundings

Spec == Init /\ [][Next]_vars

-----------------------------------------------------------------------------

(***************************************************************************)
(* Properties                                                              *)
(***************************************************************************)

\* A run publishes, and a verify approves, only a revision that the pull
\* request carried at some time after the run had finished the diff: what
\* moved away during the fetch and stayed away is never published.
PublishedWhileCurrent ==
  \A p \in Runs :
    \/ stage[p] = "verified"
    \/ mode[p] = "materialize" /\ stage[p] \in Writing \cup {"materialized"}
    => p \in current

\* The hashes of a verified review were all true at one moment, the one at
\* which the verify read the metadata, although bind and verify read the
\* assets one by one while they are edited.  The hashes cannot show an asset
\* that was set back to an earlier content while the verify ran: of those, and
\* only of those, nothing is promised.
BindingsCoexisted ==
  \A p \in Runs :
    stage[p] = "verified" =>
      \A a \in Assets \ reverted[p] : held[p].assets[a] = opened[p][a]

\* Of the runs that find no directory at most one reports a review, and its
\* files stay: the cleanup of another run, or its own, never takes them away.
ReportedWorkspaceStays ==
  removals = 0 =>
    \A p \in Runs :
      mode[p] = "materialize" /\ stage[p] = "materialized" =>
        publisher = p /\ patch # Nothing /\ meta # NoMetadata

\* Metadata without asset hashes stands without its patch only if its own
\* unlink has failed, also when the run that publishes or takes back the two
\* files is killed between them: the patch comes first and goes last.
MetadataComesLast ==
  meta # NoMetadata /\ ~Bound(meta) /\ patch = Nothing /\ removals = 0 =>
    "metadata" \in stuck

\* What a materialize that failed has left behind is what the system did not
\* let it remove: no failure cuts the cleanup short, also while a bind is at
\* work in the directory.
CleanupIsThorough ==
  \A p \in Runs :
    publisher = p /\ stage[p] = "failed" =>
      /\ "directory" \in stuck
      /\ patch # Nothing => "patch" \in stuck
      /\ p \in temps => "temporary" \in stuck
      /\ meta # NoMetadata /\ ~Bound(meta) => "metadata" \in stuck
=============================================================================
