---------------------------- MODULE VaultDocument ----------------------------
(***************************************************************************)
(* Publication of one immutable, encrypted document on the controller:     *)
(* _VaultSecretDocumentStore.ensure and ensure_exact, run by several tasks *)
(* for the same path at the same time.                                     *)
(*                                                                         *)
(* A task writes a temporary file, fsyncs it, hard-links it to the target  *)
(* name (which fails if the name is taken), unlinks the temporary name and *)
(* fsyncs the directory.  A reader accepts the target only while its link  *)
(* count is one, and otherwise retries for a while.                        *)
(*                                                                         *)
(* A task creates at most one file, so the file is named after the task.   *)
(***************************************************************************)
EXTENDS Naturals

CONSTANTS Tasks,       \* invocations of the action for one path
          Docs,        \* ensure: the subject; ensure_exact: the mapping
          Retries,     \* _RACE_RETRIES
          NoFile,      \* "no such file"
          Kills,       \* TRUE: a process may be killed anywhere
          PowerFails,  \* TRUE: the controller may lose power
          Removals     \* TRUE: an operator may delete the document

ASSUME DocumentAssumption ==
  /\ Retries \in Nat \ {0}
  /\ NoFile \notin Tasks
  /\ Kills \in BOOLEAN /\ PowerFails \in BOOLEAN /\ Removals \in BOOLEAN

VARIABLES target,      \* the file the target name links to
          temps,       \* the files whose temporary name still exists
          content,     \* what each file holds, as the page cache has it
          flushed,     \* the files whose data was fsynced
          parent,      \* the directory the document lives in
          diskTarget,  \* target and temps as the last directory fsync
          diskTemps,   \*   left them on disk
          pc,          \* where each task is
          want,        \* the document each task asks for
          checking,    \* check mode
          won,         \* did the task's os.link succeed
          seen,        \* the file the task's first stat found
          attempts,    \* failed reads of the race-winner loop
          digest       \* the file whose digest the task returned

directory == <<target, temps, parent>>
files == <<content, flushed>>
disk == <<diskTarget, diskTemps>>
locals == <<won, seen, attempts, digest>>
args == <<want, checking>>
vars == <<directory, files, disk, pc, args, locals>>

\* Phases of a task.
\*   start, reading         the first _read_existing: before and after its stat
\*   absent                 no document: report it, or generate and encrypt one
\*   staged, written,       _exclusive_create: temporary file opened, written,
\*   synced, linked,        fsynced, linked (or found the name taken),
\*   unlinked               temporary name gone
\*   confirm, confirming    the creator reads its document back, once
\*   race, racing           everyone else retries until the winner is readable
\*   done, failed, killed   returned, raised, gone
Writing == {"absent", "staged", "written", "synced", "linked", "unlinked"}
Live == {"start", "reading", "confirm", "confirming", "race", "racing"}
        \cup Writing
Over == {"done", "failed", "killed"}
Phases == Live \cup Over

Goto(t, phase) == pc' = [pc EXCEPT ![t] = phase]

\* st_nlink of a file.
LinkCount(f) == (IF target = f THEN 1 ELSE 0) + (IF f \in temps THEN 1 ELSE 0)

Readable(f) == f # NoFile /\ LinkCount(f) = 1

\* Decrypts and matches the request of task t.
Validates(f, t) == content[f] = "complete" /\ want[f] = want[t]

Init ==
  /\ target = NoFile /\ temps = {}
  /\ content = [t \in Tasks |-> "empty"] /\ flushed = {}
  /\ parent \in {"missing", "durable"}
  /\ diskTarget = NoFile /\ diskTemps = {}
  /\ pc = [t \in Tasks |-> "start"]
  /\ want \in [Tasks -> Docs]
  /\ checking \in [Tasks -> BOOLEAN]
  /\ won = [t \in Tasks |-> FALSE]
  /\ seen = [t \in Tasks |-> NoFile]
  /\ attempts = [t \in Tasks |-> 0]
  /\ digest = [t \in Tasks |-> NoFile]

-----------------------------------------------------------------------------
(* _read_existing and the callers that loop over it.                       *)

\* Variants, for the mutation runs: the attempts are not counted; the limit
\* is one too high.
MissedUncounted(t) == Goto(t, "race") /\ UNCHANGED attempts

MissedOnceMore(t) ==
  /\ attempts' = [attempts EXCEPT ![t] = @ + 1]
  /\ Goto(t, IF attempts[t] < Retries THEN "race" ELSE "failed")

\* Any failed read of _load_race_winner: sleep and try again, up to the limit.
Missed(t) ==
  /\ attempts' = [attempts EXCEPT ![t] = @ + 1]
  /\ Goto(t, IF attempts[t] + 1 < Retries THEN "race" ELSE "failed")

AfterStat ==
  [start |-> "reading", confirm |-> "confirming", race |-> "racing"]

\* The name is there, with one link.
StatFound(t) ==
  /\ pc[t] \in {"start", "confirm", "race"}
  /\ Readable(target)
  /\ seen' = [seen EXCEPT ![t] = target]
  /\ Goto(t, AfterStat[pc[t]])
  /\ UNCHANGED <<directory, files, disk, args, won, attempts, digest>>

\* The name is not there, or _TransientPublicationError: the file has a second
\* link.
StatFirst(t) ==
  /\ pc[t] = "start"
  /\ ~Readable(target)
  /\ Goto(t, IF target = NoFile THEN "absent" ELSE "race")
  /\ UNCHANGED <<directory, files, disk, args, locals>>

StatConfirm(t) ==
  /\ pc[t] = "confirm"
  /\ ~Readable(target)
  /\ Goto(t, "failed")
  /\ UNCHANGED <<directory, files, disk, args, locals>>

StatRace(t) ==
  /\ pc[t] = "race"
  /\ ~Readable(target)
  /\ Missed(t)
  /\ UNCHANGED <<directory, files, disk, args, won, seen, digest>>

\* Open, read, compare the identities and link counts again, then decrypt and
\* validate what was read.
ReadOK(t) == target = seen[t] /\ Readable(target) /\ Validates(target, t)

\* Variant: what was read is not validated.
ReadUnvalidated(t) ==
  /\ pc[t] \in {"reading", "confirming", "racing"}
  /\ target = seen[t] /\ Readable(target)
  /\ digest' = [digest EXCEPT ![t] = target]
  /\ Goto(t, "done")
  /\ UNCHANGED <<directory, files, disk, args, won, seen, attempts>>

ReadDocument(t) ==
  /\ pc[t] \in {"reading", "confirming", "racing"}
  /\ ReadOK(t)
  /\ digest' = [digest EXCEPT ![t] = target]
  /\ Goto(t, "done")
  /\ UNCHANGED <<directory, files, disk, args, won, seen, attempts>>

\* In the first read, a descriptor whose link count is no longer one starts the
\* retries: the document was deleted while it was open, so the count is zero, or
\* was deleted and published again before the open, so a new file has two.
ReadFails(t) ==
  /\ ~ReadOK(t)
  /\ \/ pc[t] \in {"reading", "confirming"} /\ Goto(t, "failed")
        /\ UNCHANGED attempts
     \/ pc[t] = "reading" /\ target # seen[t] /\ Goto(t, "race")
        /\ UNCHANGED attempts
     \/ pc[t] = "racing" /\ Missed(t)
  /\ UNCHANGED <<directory, files, disk, args, won, seen, digest>>

-----------------------------------------------------------------------------
(* Creation.                                                               *)

\* Check mode reports that a document would be created.
ReportAbsent(t) ==
  /\ pc[t] = "absent"
  /\ checking[t]
  /\ Goto(t, "done")
  /\ UNCHANGED <<directory, files, disk, args, locals>>

\* _open_parent makes the missing directories, _open_exclusive_temp the file.
OpenTemp(t) ==
  /\ pc[t] = "absent"
  /\ ~checking[t]
  /\ parent' = IF parent = "missing" THEN "made" ELSE parent
  /\ temps' = temps \cup {t}
  /\ Goto(t, "staged")
  /\ UNCHANGED <<target, files, disk, args, locals>>

WriteTemp(t) ==
  /\ pc[t] = "staged"
  /\ content' = [content EXCEPT ![t] = "complete"]
  /\ Goto(t, "written")
  /\ UNCHANGED <<directory, flushed, disk, args, locals>>

\* Variant: the data is not fsynced before it is published.
SyncTempNever(t) ==
  /\ pc[t] = "written"
  /\ Goto(t, "synced")
  /\ UNCHANGED <<directory, files, disk, args, locals>>

SyncTemp(t) ==
  /\ pc[t] = "written"
  /\ flushed' = flushed \cup {t}
  /\ Goto(t, "synced")
  /\ UNCHANGED <<directory, content, disk, args, locals>>

\* Variant: published with os.rename, which replaces the target.
LinkReplacing(t) ==
  /\ pc[t] = "synced"
  /\ target' = t
  /\ won' = [won EXCEPT ![t] = TRUE]
  /\ Goto(t, "linked")
  /\ UNCHANGED <<temps, parent, files, disk, args, seen, attempts, digest>>

\* os.link never replaces the target.
LinkNoReplace(t) ==
  /\ pc[t] = "synced"
  /\ target' = IF target = NoFile THEN t ELSE target
  /\ won' = [won EXCEPT ![t] = (target = NoFile)]
  /\ Goto(t, "linked")
  /\ UNCHANGED <<temps, parent, files, disk, args, seen, attempts, digest>>

UnlinkTemp(t) ==
  /\ pc[t] = "linked"
  /\ temps' = temps \ {t}
  /\ Goto(t, "unlinked")
  /\ UNCHANGED <<target, parent, files, disk, args, locals>>

\* Variant: the directory is not fsynced.
SyncDirectoryNever(t) ==
  /\ pc[t] = "unlinked"
  /\ Goto(t, IF won[t] THEN "confirm" ELSE "race")
  /\ UNCHANGED <<directory, files, disk, args, locals>>

\* Variant: only the winner fsyncs the directory, which now holds its document.
SyncDirectoryIfWon(t) ==
  /\ pc[t] = "unlinked"
  /\ diskTarget' = IF won[t] THEN target ELSE diskTarget
  /\ diskTemps' = IF won[t] THEN temps ELSE diskTemps
  /\ Goto(t, IF won[t] THEN "confirm" ELSE "race")
  /\ UNCHANGED <<directory, files, args, locals>>

\* fsync of the directory, which makes every entry in it durable but not the
\* entry of the directory itself.
SyncDirectory(t) ==
  /\ pc[t] = "unlinked"
  /\ diskTarget' = target
  /\ diskTemps' = temps
  /\ Goto(t, IF won[t] THEN "confirm" ELSE "race")
  /\ UNCHANGED <<directory, files, args, locals>>

\* A system call of _exclusive_create fails.  The finally clause tries to remove
\* the temporary name, once: _remove_owned_temp passes over its own failures.
RaiseError(t) ==
  /\ pc[t] \in Writing
  /\ temps' \in {temps, temps \ {t}}
  /\ Goto(t, "failed")
  /\ UNCHANGED <<target, parent, files, disk, args, locals>>

-----------------------------------------------------------------------------
(* The environment.                                                        *)

Kill(t) ==
  /\ Kills
  /\ pc[t] \in Live \ {"start"}
  /\ Goto(t, "killed")
  /\ UNCHANGED <<directory, files, disk, args, locals>>

\* Directory entries that differ from the disk come back old or new, each by
\* itself; data that was not fsynced is gone; a directory that was just made
\* may be missing.  Tasks that have not started run after the reboot.
PowerLoss ==
  /\ PowerFails
  /\ \/ /\ target' \in {target, diskTarget}
        /\ \E kept \in SUBSET (temps \cup diskTemps) :
             temps \cap diskTemps \subseteq kept /\ temps' = kept
        /\ parent' = IF parent = "made" THEN "durable" ELSE parent
     \/ /\ parent = "made"
        /\ target' = NoFile /\ temps' = {} /\ parent' = "missing"
  /\ diskTarget' = target' /\ diskTemps' = temps'
  /\ content' = [t \in Tasks |-> IF t \in flushed THEN content[t] ELSE "empty"]
  /\ pc' = [t \in Tasks |-> IF pc[t] \in Live \ {"start"} THEN "killed" ELSE pc[t]]
  /\ UNCHANGED <<flushed, args, locals>>

Remove ==
  /\ Removals
  /\ target # NoFile
  /\ target' = NoFile
  /\ UNCHANGED <<temps, parent, files, disk, pc, args, locals>>

Finished == (\A t \in Tasks : pc[t] \in Over) /\ UNCHANGED vars

Read(t) ==
  \/ StatFound(t) \/ StatFirst(t) \/ StatConfirm(t) \/ StatRace(t)
  \/ ReadDocument(t) \/ ReadFails(t)

ExclusiveCreate(t) ==
  \/ OpenTemp(t) \/ WriteTemp(t) \/ SyncTemp(t) \/ LinkNoReplace(t)
  \/ UnlinkTemp(t) \/ SyncDirectory(t)

Ensure(t) == Read(t) \/ ReportAbsent(t) \/ ExclusiveCreate(t) \/ RaiseError(t)

Next ==
  \/ \E t \in Tasks : Ensure(t) \/ Kill(t)
  \/ PowerLoss
  \/ Remove
  \/ Finished

Spec == Init /\ [][Next]_vars

\* The plugin is sequential code with bounded loops: a task that was started
\* goes on until it returns, raises or is killed.
FairSpec == Spec /\ \A t \in Tasks : WF_vars(pc[t] # "start" /\ Ensure(t))

-----------------------------------------------------------------------------
FileOrNone == Tasks \cup {NoFile}

TypeOK ==
  /\ target \in FileOrNone /\ temps \subseteq Tasks
  /\ content \in [Tasks -> {"empty", "complete"}] /\ flushed \subseteq Tasks
  /\ parent \in {"missing", "made", "durable"}
  /\ diskTarget \in FileOrNone /\ diskTemps \subseteq Tasks
  /\ pc \in [Tasks -> Phases]
  /\ want \in [Tasks -> Docs] /\ checking \in [Tasks -> BOOLEAN]
  /\ won \in [Tasks -> BOOLEAN]
  /\ seen \in [Tasks -> FileOrNone]
  /\ attempts \in [Tasks -> 0 .. Retries]
  /\ digest \in [Tasks -> FileOrNone]
  /\ \A t \in Tasks : pc[t] # "failed" => attempts[t] < Retries

\* Nobody ever sees a partially written document under the target name, not
\* even after a power loss at the worst moment (data fsync before os.link).
TargetIsComplete == target # NoFile => content[target] = "complete"

\* All tasks that return a document return the same one, and it is the one at
\* the path: the losers of a creation race adopt the winner's secret instead
\* of keeping their own.
AgreeOnDocument ==
  \A t \in Tasks : digest[t] # NoFile =>
    digest[t] = target /\ want[digest[t]] = want[t]

\* What a task returns is a complete document that is bound to the task's own
\* subject, or equals its own mapping, though an operator deletes the document
\* and others publish theirs between its stat, its read and its retries.
ReturnedIsValid ==
  \A t \in Tasks : digest[t] # NoFile => Validates(digest[t], t)

\* Once a writer has returned, its document outlives a power loss: the writer
\* fsynced the directory before it reported, and so did every task that lost
\* the race.  Only a directory that the action itself made can take the
\* document with it, because its parent is never fsynced.
\* Where operators delete documents meanwhile, only a winner is promised this:
\* a loser may adopt a later document that nobody has fsynced yet.
ReportedSurvives ==
  [][\A t \in Tasks :
       /\ pc[t] = "done" /\ t \in flushed
       /\ target = digest[t] /\ (Removals => digest[t] = t)
       => target' = digest[t] \/ parent' = "missing" \/ Remove]_vars

\* A second link makes the document unreadable until an operator removes it, so
\* nobody who returned a document leaves one behind, neither the winner nor the
\* losers of the race, and no power loss brings theirs back: each fsyncs the
\* directory after its unlink.  A temporary name belongs to a task that is about
\* to remove it, to one that was killed, or to one that raised an error.
LeftoversAreFailures ==
  \A t \in temps :
    pc[t] \in {"staged", "written", "synced", "linked", "killed", "failed"}

\* An upper bound of the steps that a task still takes after so many failed
\* reads: those of a creation, then a stat and a read for every attempt left.
StepsFrom(phase, failures) ==
  LET attempts_left == 2 * (Retries - failures)
      creation == 2 * Retries
  IN [start |-> creation + 7, reading |-> creation + 1, absent |-> creation + 6,
      staged |-> creation + 5, written |-> creation + 4, synced |-> creation + 3,
      linked |-> creation + 2, unlinked |-> creation + 1,
      confirm |-> 2, confirming |-> 1,
      race |-> attempts_left, racing |-> attempts_left - 1,
      done |-> 0, failed |-> 0, killed |-> 0][phase]

StepsLeft(t) == StepsFrom(pc[t], attempts[t])

\* The loops are bounded, whatever others do to the document meanwhile: every
\* step of a task, a failed read of the race loop too, brings it nearer to its
\* end, and nobody's step takes it further away.
WorkIsBounded ==
  [][\A t \in Tasks :
       /\ StepsLeft(t)' <= StepsLeft(t)
       /\ Ensure(t) => StepsLeft(t)' < StepsLeft(t)]_vars

\* Every task that starts returns or raises: readers do not wait for ever for
\* a winner that was killed between os.link and os.unlink.
RetriesEnd ==
  \A t \in Tasks : pc[t] # "start" ~> pc[t] \in Over

-----------------------------------------------------------------------------
(* The inductive strengthening of the properties above, in named parts.    *)

\* Phases of a task whose file was not yet offered to the target name.
Unpublished == {"start", "reading", "absent", "staged", "written", "synced"}

Returned(t) == pc[t] = "done" /\ t \in flushed

\* Only fsynced files are ever published.
PublishedIsFlushed ==
  /\ \A t \in flushed : content[t] = "complete"
  /\ \A t \in Tasks :
       /\ pc[t] = "written" => content[t] = "complete"
       /\ pc[t] \in {"synced", "linked", "unlinked"} => t \in flushed
       /\ pc[t] \in {"start", "reading", "absent", "staged", "written"}
            => t \notin flushed
  /\ target # NoFile => target \in flushed
  /\ diskTarget # NoFile => diskTarget \in flushed

\* A file at the target name, on disk or returned belongs to a task that has
\* reached os.link.
PublishedWasLinked ==
  /\ target # NoFile => pc[target] \notin Unpublished
  /\ diskTarget # NoFile => pc[diskTarget] \notin Unpublished
  /\ \A t \in Tasks : digest[t] # NoFile => pc[digest[t]] \notin Unpublished

\* What was returned was published, and answers the request: it was validated,
\* and neither a power loss nor another task changes a file that was fsynced.
ReturnedIsFlushed ==
  \A t \in Tasks : digest[t] # NoFile =>
    digest[t] \in flushed /\ want[digest[t]] = want[t]

\* Only a task that is done has a digest to return.
DigestIsFinal == \A t \in Tasks : digest[t] # NoFile => pc[t] = "done"

\* From the directory fsync of a writer on, what is at the path is on disk.
WriterIsDurable ==
  \A t \in Tasks :
    /\ pc[t] \in {"linked", "unlinked"} => target # NoFile
    /\ pc[t] \in {"confirm", "confirming", "race", "racing"} /\ t \in flushed
         => target # NoFile /\ diskTarget = target
    /\ Returned(t) => digest[t] # NoFile
    /\ Returned(t) /\ target = digest[t] => diskTarget = target

\* The temporary names that a power loss may bring back.
DiskTempsAreOwned ==
  \A t \in diskTemps :
    pc[t] \in {"staged", "written", "synced", "linked", "unlinked", "killed",
               "failed"}

\* The directory outlives power losses, and what is at the path on disk is at
\* the path.
PathIsEstablished ==
  /\ parent = "durable"
  /\ diskTarget # NoFile => target = diskTarget

\* From the directory fsync of a writer on, its own document is on disk for as
\* long as it is at the path.
WinnerIsDurable ==
  \A t \in Tasks :
    /\ pc[t] \in {"confirm", "confirming", "race", "racing", "done"}
    /\ t \in flushed /\ target = t
    => diskTarget = t

-----------------------------------------------------------------------------
(* What the action promises, as DocumentConsensus states it.               *)

Consensus == INSTANCE DocumentConsensus WITH
               Values <- Tasks, None <- NoFile,
               chosen <- target, decided <- digest

ConsensusSpec == Consensus!Spec

\* What it promises of power losses: in a directory that is on disk the document
\* that a directory fsync or a power loss has made durable is chosen for good,
\* and every writer that returns, before the losses or after them, decides for
\* it.  Readers that wrote nothing may return a document a moment too early.
DurableConsensus == INSTANCE DocumentConsensus WITH
  Values <- Tasks, None <- NoFile, chosen <- diskTarget,
  decided <- [t \in Tasks |-> IF t \in flushed THEN digest[t] ELSE NoFile]

DurableConsensusSpec == DurableConsensus!Spec

\* The directory was there before the tasks.
EstablishedSpec == Spec /\ parent = "durable"
=============================================================================
