------------------------ MODULE ReviewWorkspaceProofs ------------------------
(* Theorems about ReviewWorkspace, for every set of runs, revisions and      *)
(* assets.                                                                   *)
EXTENDS ReviewWorkspace, TLAPS

\* What a run's stage says of its mode and of what it has collected.
StagesFit ==
  \A p \in Runs :
    /\ stage[p] = "idle" => taken[p] = Unread /\ mode[p] = "materialize"
    /\ stage[p] \in {"settled", "made", "writing patch", "patched",
                     "materialized"} \cup Undoing => mode[p] = "materialize"
    /\ stage[p] = "writing metadata" => mode[p] \in {"materialize", "bind"}
    /\ stage[p] \in {"checking", "fetching", "built"} =>
         mode[p] \in {"materialize", "verify"}
    /\ stage[p] = "collecting" => mode[p] \in {"bind", "verify"}
    /\ stage[p] \in {"compared", "verified"} => mode[p] = "verify"
    /\ mode[p] = "materialize" /\ stage[p] # "idle" => expect[p] \in Revisions
    /\ mode[p] = "bind" => held[p].rev \in Revisions

\* A run that compares or writes hashes has hashed every asset.
HashesAreComplete ==
  \A p \in Runs :
    \/ stage[p] \in {"compared", "verified"}
    \/ mode[p] = "bind" /\ stage[p] = "writing metadata"
    => Complete(p)

\* The empty metadata is metadata, contents are hashes, and bounds are numbers.
LEMMA Constants ==
  /\ NoMetadata \in Metadata
  /\ Unread \in Hashes
  /\ [Assets -> Contents] \subseteq Hashes
  /\ \A n \in Nat : n + 1 \in Nat /\ n + 1 # 0
  /\ \A x \in Runs \cup Revisions \cup Patches \cup Contents : x # Nothing
  /\ \A r \in Revisions : DiffOf[r] \in Patches
<1>1. Unread \in Hashes /\ [Assets -> Contents] \subseteq Hashes
  BY DEF Unread, Hashes
<1>2. NoMetadata \in Metadata
  BY <1>1 DEF NoMetadata, Metadata
<1>3. \A n \in Nat : n + 1 \in Nat /\ n + 1 # 0
  OBVIOUS
<1>4. \A x \in Runs \cup Revisions \cup Patches \cup Contents : x # Nothing
  BY WorkspaceAssumption
<1>5. \A r \in Revisions : DiffOf[r] \in Patches
  BY WorkspaceAssumption
<1>6. QED
  BY <1>1, <1>2, <1>3, <1>4, <1>5

\* A step keeps stages, modes and what was collected in agreement.
LEMMA StagesFitStep ==
  ASSUME TypeOK, StagesFit, [Next]_vars
  PROVE  StagesFit'
<1> USE WorkspaceAssumption
<1> USE DEF TypeOK, StagesFit, Stages, Writing, Undoing, Ended, Goto, world,
            directory, plan
<1>1. ASSUME NEW p \in Runs, NEW r \in Revisions, StartMaterialize(p, r)
      PROVE  StagesFit'
  BY <1>1 DEF StartMaterialize
<1>2. ASSUME NEW p \in Runs, StartBind(p)
      PROVE  StagesFit'
  <2>1. meta.rev \in Revisions
    BY <1>2 DEF StartBind, Metadata
  <2>2. QED
    BY <1>2, <2>1 DEF StartBind
<1>3. ASSUME NEW p \in Runs, NEW r \in Revisions, StartVerify(p, r)
      PROVE  StagesFit'
  BY <1>3 DEF StartVerify
<1>4. ASSUME NEW p \in Runs, ReadPullRequest(p)
      PROVE  StagesFit'
  BY <1>4 DEF ReadPullRequest
<1>5. ASSUME NEW p \in Runs, BuildDiff(p)
      PROVE  StagesFit'
  BY <1>5 DEF BuildDiff
<1>6. ASSUME NEW p \in Runs, RereadPullRequest(p)
      PROVE  StagesFit'
  <2>1. PICK x \in {"collecting", "settled"} : stage' = [stage EXCEPT ![p] = x]
    BY <1>6 DEF RereadPullRequest
  <2>2. mode[p] = "verify" <=> x = "collecting"
    BY <1>6, <2>1 DEF RereadPullRequest
  <2>3. QED
    BY <1>6, <2>1, <2>2 DEF RereadPullRequest
<1>7. ASSUME NEW p \in Runs, MakeDirectory(p)
      PROVE  StagesFit'
  BY <1>7 DEF MakeDirectory
<1>8. ASSUME NEW p \in Runs, WriteTemporary(p)
      PROVE  StagesFit'
  <2>1. UNCHANGED <<mode, expect, held, taken>>
    BY <1>8 DEF WriteTemporary
  <2>2. CASE stage[p] = "made" /\ stage' = [stage EXCEPT ![p] = "writing patch"]
    BY <2>1, <2>2
  <2>3. CASE /\ stage[p] = "patched"
             /\ stage' = [stage EXCEPT ![p] = "writing metadata"]
    BY <2>1, <2>3
  <2>4. CASE /\ stage[p] = "collecting" /\ mode[p] = "bind"
             /\ stage' = [stage EXCEPT ![p] = "writing metadata"]
    BY <2>1, <2>4
  <2>5. QED
    BY <1>8, <2>2, <2>3, <2>4 DEF WriteTemporary
<1>9. ASSUME NEW p \in Runs, ReplacePatch(p)
      PROVE  StagesFit'
  BY <1>9 DEF ReplacePatch
<1>10. ASSUME NEW p \in Runs, ReplaceMaterialized(p)
       PROVE  StagesFit'
  BY <1>10 DEF ReplaceMaterialized
<1>11. ASSUME NEW p \in Runs, ReplaceBound(p)
       PROVE  StagesFit'
  BY <1>11 DEF ReplaceBound
<1>12. ASSUME NEW p \in Runs, FailWriting(p)
       PROVE  StagesFit'
  BY <1>12 DEF FailWriting
<1>13. ASSUME NEW p \in Runs, UndoMetadata(p)
       PROVE  StagesFit'
  BY <1>13 DEF UndoMetadata
<1>14. ASSUME NEW p \in Runs, UndoPatch(p)
       PROVE  StagesFit'
  BY <1>14 DEF UndoPatch
<1>15. ASSUME NEW p \in Runs, UndoDirectory(p)
       PROVE  StagesFit'
  BY <1>15 DEF UndoDirectory
<1>16. ASSUME NEW p \in Runs, NEW a \in Assets, HashAsset(p, a)
       PROVE  StagesFit'
  BY <1>16 DEF HashAsset
<1>17. ASSUME NEW p \in Runs, ComparePatch(p)
       PROVE  StagesFit'
  BY <1>17 DEF ComparePatch
<1>18. ASSUME NEW p \in Runs, CompareMetadata(p)
       PROVE  StagesFit'
  BY <1>18 DEF CompareMetadata
<1>19. ASSUME NEW p \in Runs, Fail(p)
       PROVE  StagesFit'
  BY <1>19 DEF Fail
<1>20. ASSUME NEW p \in Runs, Kill(p)
       PROVE  StagesFit'
  BY <1>20 DEF Kill
<1>21. CASE Surroundings
  BY <1>21
  DEF Surroundings, MovePullRequest, EditAsset, EditPatch, RemoveDirectory
<1>22. CASE UNCHANGED vars
  BY <1>22 DEF vars
<1>23. QED
  BY <1>1, <1>2, <1>3, <1>4, <1>5, <1>6, <1>7, <1>8, <1>9, <1>10,
     <1>11, <1>12, <1>13, <1>14, <1>15, <1>16, <1>17, <1>18, <1>19,
     <1>20, <1>21, <1>22
  DEF Next, Start, Regenerate, Publish, Undo, Verify

\* A step keeps every variable in its set.
LEMMA TypeStep ==
  ASSUME TypeOK, StagesFit, [Next]_vars
  PROVE  TypeOK'
<1> USE WorkspaceAssumption
<1> USE DEF TypeOK, Stages, Writing, Undoing, Ended, Goto, world, directory,
            plan
<1>1. ASSUME NEW p \in Runs, NEW r \in Revisions, StartMaterialize(p, r)
      PROVE  TypeOK'
  BY <1>1 DEF StartMaterialize, Modes
<1>2. ASSUME NEW p \in Runs, StartBind(p)
      PROVE  TypeOK'
  BY <1>2 DEF StartBind, Modes
<1>3. ASSUME NEW p \in Runs, NEW r \in Revisions, StartVerify(p, r)
      PROVE  TypeOK'
  <2>1. content \in Hashes
    BY Constants
  <2>2. QED
    BY <1>3, <2>1 DEF StartVerify, Modes
<1>4. ASSUME NEW p \in Runs, ReadPullRequest(p)
      PROVE  TypeOK'
  BY <1>4 DEF ReadPullRequest
<1>5. ASSUME NEW p \in Runs, BuildDiff(p)
      PROVE  TypeOK'
  BY <1>5 DEF BuildDiff
<1>6. ASSUME NEW p \in Runs, RereadPullRequest(p)
      PROVE  TypeOK'
  BY <1>6 DEF RereadPullRequest
<1>7. ASSUME NEW p \in Runs, MakeDirectory(p)
      PROVE  TypeOK'
  BY <1>7 DEF MakeDirectory
<1>8. ASSUME NEW p \in Runs, WriteTemporary(p)
      PROVE  TypeOK'
  BY <1>8 DEF WriteTemporary
<1>9. ASSUME NEW p \in Runs, ReplacePatch(p)
      PROVE  TypeOK'
  <2>1. PICK s \in {"patched", "undo metadata"} :
          stage' = [stage EXCEPT ![p] = s]
    BY <1>9 DEF ReplacePatch
  <2>2. stage' \in [Runs -> Stages]
    BY <2>1
  <2>3. expect[p] \in Revisions
    BY <1>9 DEF ReplacePatch, StagesFit
  <2>4. patch' \in Patches /\ temps' \subseteq Runs
    BY <1>9, <2>3 DEF ReplacePatch
  <2>5. QED
    BY <1>9, <2>2, <2>4 DEF ReplacePatch
<1>10. ASSUME NEW p \in Runs, ReplaceMaterialized(p)
       PROVE  TypeOK'
  <2>1. PICK s \in {"materialized", "undo metadata"} :
          stage' = [stage EXCEPT ![p] = s]
    BY <1>10 DEF ReplaceMaterialized
  <2>2. stage' \in [Runs -> Stages]
    BY <2>1
  <2>3. meta' \in Metadata /\ temps' \subseteq Runs
    <3>1. Unread \in Hashes
      BY Constants
    <3>2. QED
      BY <1>10, <3>1 DEF ReplaceMaterialized, MaterializedMetadata, Metadata
  <2>4. QED
    BY <1>10, <2>2, <2>3 DEF ReplaceMaterialized
<1>11. ASSUME NEW p \in Runs, ReplaceBound(p)
       PROVE  TypeOK'
  <2>1. PICK s \in {"bound", "failed"} : stage' = [stage EXCEPT ![p] = s]
    BY <1>11 DEF ReplaceBound
  <2>2. stage' \in [Runs -> Stages]
    BY <2>1
  <2>3. held[p] \in Metadata /\ taken[p] \in Hashes
    OBVIOUS
  <2>4. meta' \in Metadata /\ temps' \subseteq Runs
    BY <1>11, <2>3 DEF ReplaceBound, BoundMetadata, Metadata
  <2>5. QED
    BY <1>11, <2>2, <2>4 DEF ReplaceBound
<1>12. ASSUME NEW p \in Runs, FailWriting(p)
       PROVE  TypeOK'
  BY <1>12 DEF FailWriting, Stuck, Cleanup
<1>13. ASSUME NEW p \in Runs, UndoMetadata(p)
       PROVE  TypeOK'
  <2>1. NoMetadata \in Metadata
    BY Constants
  <2>2. meta' \in Metadata /\ stuck' \subseteq Cleanup
    BY <1>13, <2>1 DEF UndoMetadata, Stuck, Cleanup
  <2>3. QED
    BY <1>13, <2>2 DEF UndoMetadata
<1>14. ASSUME NEW p \in Runs, UndoPatch(p)
       PROVE  TypeOK'
  BY <1>14 DEF UndoPatch, Stuck, Cleanup
<1>15. ASSUME NEW p \in Runs, UndoDirectory(p)
       PROVE  TypeOK'
  BY <1>15 DEF UndoDirectory, Stuck, Cleanup
<1>16. ASSUME NEW p \in Runs, NEW a \in Assets, HashAsset(p, a)
       PROVE  TypeOK'
  <2>1. taken' = [taken EXCEPT ![p] = [taken[p] EXCEPT ![a] = content[a]]]
    BY <1>16 DEF HashAsset
  <2>2. [taken[p] EXCEPT ![a] = content[a]] \in Hashes
    <3>1. taken[p] \in Hashes /\ content[a] \in Contents
      OBVIOUS
    <3>2. QED
      BY <3>1 DEF Hashes
  <2>3. taken' \in [Runs -> Hashes]
    BY <2>1, <2>2
  <2>4. QED
    BY <1>16, <2>3 DEF HashAsset
<1>17. ASSUME NEW p \in Runs, ComparePatch(p)
       PROVE  TypeOK'
  BY <1>17 DEF ComparePatch
<1>18. ASSUME NEW p \in Runs, CompareMetadata(p)
       PROVE  TypeOK'
  BY <1>18 DEF CompareMetadata
<1>19. ASSUME NEW p \in Runs, Fail(p)
       PROVE  TypeOK'
  BY <1>19 DEF Fail
<1>20. ASSUME NEW p \in Runs, Kill(p)
       PROVE  TypeOK'
  BY <1>20 DEF Kill
<1>21. CASE Surroundings
  <2>1. ASSUME NEW r \in Revisions \cup {Nothing}, MovePullRequest(r)
        PROVE  TypeOK'
    BY <2>1 DEF MovePullRequest
  <2>2. ASSUME NEW a \in Assets, NEW c \in Contents, EditAsset(a, c)
        PROVE  TypeOK'
    <3>1. content' \in [Assets -> Contents] /\ past' \in [Assets -> SUBSET Contents]
      BY <2>2 DEF EditAsset
    <3>2. reverted' \in [Runs -> SUBSET Assets]
      <4>1. \A q \in Runs : reverted[q] \cup {a} \in SUBSET Assets
        OBVIOUS
      <4>2. QED
        BY <2>2, <4>1 DEF EditAsset
    <3>3. edits' \in Nat
      BY <2>2, Constants DEF EditAsset
    <3>4. QED
      BY <2>2, <3>1, <3>2, <3>3 DEF EditAsset
  <2>3. ASSUME NEW x \in Patches, EditPatch(x)
        PROVE  TypeOK'
    <3>1. edits' \in Nat
      BY <2>3, Constants DEF EditPatch
    <3>2. QED
      BY <2>3, <3>1 DEF EditPatch
  <2>4. CASE RemoveDirectory
    <3>1. NoMetadata \in Metadata
      BY Constants
    <3>2. removals' \in Nat
      BY <2>4, Constants DEF RemoveDirectory
    <3>3. QED
      BY <2>4, <3>1, <3>2 DEF RemoveDirectory
  <2>5. QED
    BY <1>21, <2>1, <2>2, <2>3, <2>4 DEF Surroundings
<1>22. CASE UNCHANGED vars
  BY <1>22 DEF vars
<1>23. QED
  BY <1>1, <1>2, <1>3, <1>4, <1>5, <1>6, <1>7, <1>8, <1>9, <1>10,
     <1>11, <1>12, <1>13, <1>14, <1>15, <1>16, <1>17, <1>18, <1>19,
     <1>20, <1>21, <1>22
  DEF Next, Start, Regenerate, Publish, Undo, Verify

\* In every reachable state the variables have their types and the stages fit.
LEMMA TypesAndStages == Spec => [](TypeOK /\ StagesFit)
<1>1. Init => TypeOK /\ StagesFit
  BY WorkspaceAssumption
  DEF Init, TypeOK, StagesFit, Metadata, NoMetadata, Unread, Hashes, Stages,
      Modes, Undoing, Cleanup
<1>2. TypeOK /\ StagesFit /\ [Next]_vars => TypeOK' /\ StagesFit'
  BY TypeStep, StagesFitStep
<1>3. QED
  BY <1>1, <1>2, PTL DEF Spec

\* The type invariant: every variable stays in its set.
THEOREM TypeCorrect == Spec => []TypeOK
BY TypesAndStages, PTL

-----------------------------------------------------------------------------
\* Every hash is of a content that its asset has had, in the past or now.
HashesArePast ==
  \A a \in Assets :
    /\ content[a] \in past[a]
    /\ meta.assets[a] \in past[a] \cup {Nothing}
    /\ \A p \in Runs :
         /\ held[p].assets[a] \in past[a] \cup {Nothing}
         /\ taken[p][a] \in past[a] \cup {Nothing}

\* A hash that was out of date when a verify read it stays so for this verify,
\* unless the asset is set back.
OldStaysOld ==
  \A p \in Runs :
    mode[p] = "verify" =>
      \A a \in Assets \ reverted[p] :
        held[p].assets[a] \notin {Nothing, opened[p][a]} =>
          /\ stage[p] \notin Ended => content[a] # held[p].assets[a]
          /\ taken[p][a] # held[p].assets[a]

\* A verified run found the hashes of the metadata again.
VerifiedHashes ==
  \A p \in Runs : stage[p] = "verified" => held[p].assets = taken[p]

\* A step keeps the hashes of a run that is through with hashing complete.
LEMMA HashesStep ==
  ASSUME TypeOK, StagesFit, HashesAreComplete, VerifiedHashes, [Next]_vars
  PROVE  HashesAreComplete' /\ VerifiedHashes'
<1> USE DEF TypeOK, StagesFit, HashesAreComplete, VerifiedHashes, Complete,
            Stages, Writing, Undoing, Ended, Goto, world, directory, plan
<1>1. ASSUME NEW p \in Runs, NEW r \in Revisions, StartMaterialize(p, r)
      PROVE  HashesAreComplete' /\ VerifiedHashes'
  BY <1>1 DEF StartMaterialize
<1>2. ASSUME NEW p \in Runs, StartBind(p)
      PROVE  HashesAreComplete' /\ VerifiedHashes'
  BY <1>2 DEF StartBind
<1>3. ASSUME NEW p \in Runs, NEW r \in Revisions, StartVerify(p, r)
      PROVE  HashesAreComplete' /\ VerifiedHashes'
  BY <1>3 DEF StartVerify
<1>4. ASSUME NEW p \in Runs, ReadPullRequest(p)
      PROVE  HashesAreComplete' /\ VerifiedHashes'
  BY <1>4 DEF ReadPullRequest
<1>5. ASSUME NEW p \in Runs, BuildDiff(p)
      PROVE  HashesAreComplete' /\ VerifiedHashes'
  BY <1>5 DEF BuildDiff
<1>6. ASSUME NEW p \in Runs, RereadPullRequest(p)
      PROVE  HashesAreComplete' /\ VerifiedHashes'
  BY <1>6 DEF RereadPullRequest
<1>7. ASSUME NEW p \in Runs, MakeDirectory(p)
      PROVE  HashesAreComplete' /\ VerifiedHashes'
  BY <1>7 DEF MakeDirectory
<1>8. ASSUME NEW p \in Runs, WriteTemporary(p)
      PROVE  HashesAreComplete' /\ VerifiedHashes'
  <2>1. PICK s \in {"writing patch", "writing metadata"} :
          stage' = [stage EXCEPT ![p] = s]
    BY <1>8 DEF WriteTemporary
  <2>2. mode[p] = "bind" => Complete(p)
    BY <1>8 DEF WriteTemporary
  <2>3. UNCHANGED <<mode, held, taken>>
    BY <1>8 DEF WriteTemporary
  <2>4. QED
    BY <2>1, <2>2, <2>3
<1>9. ASSUME NEW p \in Runs, ReplacePatch(p)
      PROVE  HashesAreComplete' /\ VerifiedHashes'
  BY <1>9 DEF ReplacePatch
<1>10. ASSUME NEW p \in Runs, ReplaceMaterialized(p)
       PROVE  HashesAreComplete' /\ VerifiedHashes'
  BY <1>10 DEF ReplaceMaterialized
<1>11. ASSUME NEW p \in Runs, ReplaceBound(p)
       PROVE  HashesAreComplete' /\ VerifiedHashes'
  BY <1>11 DEF ReplaceBound
<1>12. ASSUME NEW p \in Runs, FailWriting(p)
       PROVE  HashesAreComplete' /\ VerifiedHashes'
  BY <1>12 DEF FailWriting
<1>13. ASSUME NEW p \in Runs, UndoMetadata(p)
       PROVE  HashesAreComplete' /\ VerifiedHashes'
  BY <1>13 DEF UndoMetadata
<1>14. ASSUME NEW p \in Runs, UndoPatch(p)
       PROVE  HashesAreComplete' /\ VerifiedHashes'
  BY <1>14 DEF UndoPatch
<1>15. ASSUME NEW p \in Runs, UndoDirectory(p)
       PROVE  HashesAreComplete' /\ VerifiedHashes'
  BY <1>15 DEF UndoDirectory
<1>16. ASSUME NEW p \in Runs, NEW a \in Assets, HashAsset(p, a)
       PROVE  HashesAreComplete' /\ VerifiedHashes'
  BY <1>16 DEF HashAsset
<1>17. ASSUME NEW p \in Runs, ComparePatch(p)
       PROVE  HashesAreComplete' /\ VerifiedHashes'
  BY <1>17 DEF ComparePatch
<1>18. ASSUME NEW p \in Runs, CompareMetadata(p)
       PROVE  HashesAreComplete' /\ VerifiedHashes'
  BY <1>18 DEF CompareMetadata
<1>19. ASSUME NEW p \in Runs, Fail(p)
       PROVE  HashesAreComplete' /\ VerifiedHashes'
  BY <1>19 DEF Fail
<1>20. ASSUME NEW p \in Runs, Kill(p)
       PROVE  HashesAreComplete' /\ VerifiedHashes'
  BY <1>20 DEF Kill
<1>21. CASE Surroundings
  <2>1. UNCHANGED <<stage, mode, held, taken>>
    BY <1>21
    DEF Surroundings, MovePullRequest, EditAsset, EditPatch, RemoveDirectory
  <2>2. QED
    BY <2>1
<1>22. CASE UNCHANGED vars
  BY <1>22 DEF vars
<1>23. QED
  BY <1>1, <1>2, <1>3, <1>4, <1>5, <1>6, <1>7, <1>8, <1>9, <1>10,
     <1>11, <1>12, <1>13, <1>14, <1>15, <1>16, <1>17, <1>18, <1>19,
     <1>20, <1>21, <1>22
  DEF Next, Start, Regenerate, Publish, Undo, Verify

\* A step hashes what is there, and what was there remains in the past.
LEMMA PastStep ==
  ASSUME TypeOK, StagesFit, HashesArePast, [Next]_vars
  PROVE  HashesArePast'
<1> USE DEF TypeOK, StagesFit, HashesArePast, Stages, Writing, Undoing, Ended,
            Goto, world, directory, plan
<1>1. ASSUME NEW p \in Runs, NEW r \in Revisions, StartMaterialize(p, r)
      PROVE  HashesArePast'
  BY <1>1 DEF StartMaterialize
<1>2. ASSUME NEW p \in Runs, StartBind(p)
      PROVE  HashesArePast'
  <2>1. held' = [held EXCEPT ![p] = meta]
    BY <1>2 DEF StartBind
  <2>2. UNCHANGED <<content, past, meta, taken>>
    BY <1>2 DEF StartBind
  <2>3. QED
    BY <2>1, <2>2
<1>3. ASSUME NEW p \in Runs, NEW r \in Revisions, StartVerify(p, r)
      PROVE  HashesArePast'
  <2>1. held' = [held EXCEPT ![p] = meta]
    BY <1>3 DEF StartVerify
  <2>2. UNCHANGED <<content, past, meta, taken>>
    BY <1>3 DEF StartVerify
  <2>3. QED
    BY <2>1, <2>2
<1>4. ASSUME NEW p \in Runs, ReadPullRequest(p)
      PROVE  HashesArePast'
  BY <1>4 DEF ReadPullRequest
<1>5. ASSUME NEW p \in Runs, BuildDiff(p)
      PROVE  HashesArePast'
  BY <1>5 DEF BuildDiff
<1>6. ASSUME NEW p \in Runs, RereadPullRequest(p)
      PROVE  HashesArePast'
  BY <1>6 DEF RereadPullRequest
<1>7. ASSUME NEW p \in Runs, MakeDirectory(p)
      PROVE  HashesArePast'
  BY <1>7 DEF MakeDirectory
<1>8. ASSUME NEW p \in Runs, WriteTemporary(p)
      PROVE  HashesArePast'
  BY <1>8 DEF WriteTemporary
<1>9. ASSUME NEW p \in Runs, ReplacePatch(p)
      PROVE  HashesArePast'
  BY <1>9 DEF ReplacePatch
<1>10. ASSUME NEW p \in Runs, ReplaceMaterialized(p)
       PROVE  HashesArePast'
  <2>1. \A a \in Assets : meta'.assets[a] = Nothing
    BY <1>10 DEF ReplaceMaterialized, MaterializedMetadata, Unread
  <2>2. QED
    BY <1>10, <2>1 DEF ReplaceMaterialized
<1>11. ASSUME NEW p \in Runs, ReplaceBound(p)
       PROVE  HashesArePast'
  <2>1. meta'.assets = taken[p]
    BY <1>11 DEF ReplaceBound, BoundMetadata
  <2>2. QED
    BY <1>11, <2>1 DEF ReplaceBound
<1>12. ASSUME NEW p \in Runs, FailWriting(p)
       PROVE  HashesArePast'
  BY <1>12 DEF FailWriting
<1>13. ASSUME NEW p \in Runs, UndoMetadata(p)
       PROVE  HashesArePast'
  <2>1. \A a \in Assets : NoMetadata.assets[a] = Nothing
    BY DEF NoMetadata, Unread
  <2>2. meta' \in {meta, NoMetadata}
    BY <1>13 DEF UndoMetadata
  <2>3. QED
    BY <1>13, <2>1, <2>2 DEF UndoMetadata
<1>14. ASSUME NEW p \in Runs, UndoPatch(p)
       PROVE  HashesArePast'
  BY <1>14 DEF UndoPatch
<1>15. ASSUME NEW p \in Runs, UndoDirectory(p)
       PROVE  HashesArePast'
  BY <1>15 DEF UndoDirectory
<1>16. ASSUME NEW p \in Runs, NEW a \in Assets, HashAsset(p, a)
       PROVE  HashesArePast'
  <2>1. taken' = [taken EXCEPT ![p] = [taken[p] EXCEPT ![a] = content[a]]]
    BY <1>16 DEF HashAsset
  <2>2. UNCHANGED <<content, past, meta, held>>
    BY <1>16 DEF HashAsset
  <2>3. \A q \in Runs : taken[q] \in Hashes
    OBVIOUS
  <2>4. ASSUME NEW q \in Runs, NEW b \in Assets
        PROVE  taken'[q][b] \in {taken[q][b], content[b]}
    BY <2>1, <2>3 DEF Hashes
  <2>5. QED
    BY <2>2, <2>4
<1>17. ASSUME NEW p \in Runs, ComparePatch(p)
       PROVE  HashesArePast'
  BY <1>17 DEF ComparePatch
<1>18. ASSUME NEW p \in Runs, CompareMetadata(p)
       PROVE  HashesArePast'
  BY <1>18 DEF CompareMetadata
<1>19. ASSUME NEW p \in Runs, Fail(p)
       PROVE  HashesArePast'
  BY <1>19 DEF Fail
<1>20. ASSUME NEW p \in Runs, Kill(p)
       PROVE  HashesArePast'
  BY <1>20 DEF Kill
<1>21. CASE Surroundings
  <2>1. CASE \E a \in Assets, c \in Contents : EditAsset(a, c)
    <3>1. PICK a \in Assets, c \in Contents : EditAsset(a, c)
      BY <2>1
    <3>2. \A b \in Assets : past[b] \subseteq past'[b]
      BY <3>1 DEF EditAsset
    <3>3. \A b \in Assets : content'[b] \in past'[b]
      BY <3>1 DEF EditAsset
    <3>4. UNCHANGED <<meta, held, taken>>
      BY <3>1 DEF EditAsset
    <3>5. QED
      BY <3>2, <3>3, <3>4
  <2>2. CASE RemoveDirectory
    <3>1. \A a \in Assets : NoMetadata.assets[a] = Nothing
      BY DEF NoMetadata, Unread
    <3>2. QED
      BY <2>2, <3>1 DEF RemoveDirectory
  <2>3. ASSUME \/ \E r \in Revisions \cup {Nothing} : MovePullRequest(r)
               \/ \E x \in Patches : EditPatch(x)
        PROVE  HashesArePast'
    BY <2>3 DEF MovePullRequest, EditPatch
  <2>4. QED
    BY <1>21, <2>1, <2>2, <2>3 DEF Surroundings
<1>22. CASE UNCHANGED vars
  BY <1>22 DEF vars
<1>23. QED
  BY <1>1, <1>2, <1>3, <1>4, <1>5, <1>6, <1>7, <1>8, <1>9, <1>10,
     <1>11, <1>12, <1>13, <1>14, <1>15, <1>16, <1>17, <1>18, <1>19,
     <1>20, <1>21, <1>22
  DEF Next, Start, Regenerate, Publish, Undo, Verify

\* A step does not bring an old content back without setting it back.
LEMMA OldStep ==
  ASSUME TypeOK, StagesFit, HashesArePast, OldStaysOld, [Next]_vars
  PROVE  OldStaysOld'
<1> USE DEF TypeOK, StagesFit, Stages, Writing, Undoing, Ended, Goto, world,
            directory, plan
<1>0. ASSUME content' = content,
             \A q \in Runs :
               mode'[q] = "verify" =>
                 /\ mode[q] = "verify" /\ held'[q] = held[q]
                 /\ taken'[q] = taken[q] /\ opened'[q] = opened[q]
                 /\ reverted'[q] = reverted[q]
                 /\ stage'[q] \notin Ended => stage[q] \notin Ended
      PROVE  OldStaysOld'
  BY ONLY OldStaysOld, <1>0 DEF OldStaysOld
<1>1. ASSUME NEW p \in Runs, NEW r \in Revisions, StartMaterialize(p, r)
      PROVE  OldStaysOld'
  <2>1. mode' = [mode EXCEPT ![p] = "materialize"]
    BY <1>1 DEF StartMaterialize
  <2>2. \A q \in Runs : q # p => stage'[q] = stage[q] /\ held'[q] = held[q]
    BY <1>1 DEF StartMaterialize
  <2>3. UNCHANGED <<content, taken, opened, reverted>>
    BY <1>1 DEF StartMaterialize
  <2>4. \A q \in Runs : mode'[q] = "verify" => q # p /\ mode[q] = "verify"
    BY <2>1
  <2>5. QED
    BY ONLY <1>0, <2>2, <2>3, <2>4
<1>2. ASSUME NEW p \in Runs, StartBind(p)
      PROVE  OldStaysOld'
  <2>1. mode' = [mode EXCEPT ![p] = "bind"]
    BY <1>2 DEF StartBind
  <2>2. \A q \in Runs : q # p => stage'[q] = stage[q] /\ held'[q] = held[q]
    BY <1>2 DEF StartBind
  <2>3. UNCHANGED <<content, taken, opened, reverted>>
    BY <1>2 DEF StartBind
  <2>4. \A q \in Runs : mode'[q] = "verify" => q # p /\ mode[q] = "verify"
    BY <2>1
  <2>5. QED
    BY ONLY <1>0, <2>2, <2>3, <2>4
<1>3. ASSUME NEW p \in Runs, NEW r \in Revisions, StartVerify(p, r)
      PROVE  OldStaysOld'
  <2>1. mode' = [mode EXCEPT ![p] = "verify"] /\ taken[p] = Unread
    BY <1>3 DEF StartVerify
  <2>2. opened' = [opened EXCEPT ![p] = content]
    BY <1>3 DEF StartVerify
  <2>3. held' = [held EXCEPT ![p] = meta]
    BY <1>3 DEF StartVerify
  <2>4. stage' = [stage EXCEPT ![p] = "checking"]
    BY <1>3 DEF StartVerify
  <2>5. UNCHANGED <<content, taken, reverted>>
    BY <1>3 DEF StartVerify
  <2>6. \A a \in Assets : taken[p][a] = Nothing
    BY <2>1 DEF Unread
  <2>7. ASSUME NEW q \in Runs, mode'[q] = "verify", NEW b \in Assets \ reverted'[q],
               held'[q].assets[b] \notin {Nothing, opened'[q][b]}
        PROVE  /\ stage'[q] \notin Ended => content'[b] # held'[q].assets[b]
               /\ taken'[q][b] # held'[q].assets[b]
    <3>1. CASE q = p
      <4>1. held'[q] = meta /\ opened'[q] = content /\ taken'[q][b] = Nothing
        BY <2>2, <2>3, <2>5, <2>6, <3>1
      <4>2. QED
        BY ONLY <2>5, <2>7, <4>1
    <3>2. CASE q # p
      <4>1. /\ mode[q] = mode'[q] /\ opened'[q] = opened[q]
            /\ held'[q] = held[q] /\ stage'[q] = stage[q]
        BY <2>1, <2>2, <2>3, <2>4, <3>2
      <4>2. QED
        BY ONLY <2>5, <2>7, <4>1, OldStaysOld DEF OldStaysOld
    <3>3. QED
      BY <3>1, <3>2
  <2>8. QED
    BY ONLY <2>7 DEF OldStaysOld
<1>4. ASSUME NEW p \in Runs, ReadPullRequest(p)
      PROVE  OldStaysOld'
  <2>1. \A q \in Runs : stage'[q] \notin Ended => stage[q] \notin Ended
    BY <1>4 DEF ReadPullRequest
  <2>2. UNCHANGED <<content, mode, held, taken, opened, reverted>>
    BY <1>4 DEF ReadPullRequest
  <2>3. QED
    BY ONLY <1>0, <2>1, <2>2
<1>5. ASSUME NEW p \in Runs, BuildDiff(p)
      PROVE  OldStaysOld'
  <2>1. \A q \in Runs : stage'[q] \notin Ended => stage[q] \notin Ended
    BY <1>5 DEF BuildDiff
  <2>2. UNCHANGED <<content, mode, held, taken, opened, reverted>>
    BY <1>5 DEF BuildDiff
  <2>3. QED
    BY ONLY <1>0, <2>1, <2>2
<1>6. ASSUME NEW p \in Runs, RereadPullRequest(p)
      PROVE  OldStaysOld'
  <2>1. \A q \in Runs : stage'[q] \notin Ended => stage[q] \notin Ended
    BY <1>6 DEF RereadPullRequest
  <2>2. UNCHANGED <<content, mode, held, taken, opened, reverted>>
    BY <1>6 DEF RereadPullRequest
  <2>3. QED
    BY ONLY <1>0, <2>1, <2>2
<1>7. ASSUME NEW p \in Runs, MakeDirectory(p)
      PROVE  OldStaysOld'
  <2>1. \A q \in Runs : stage'[q] \notin Ended => stage[q] \notin Ended
    BY <1>7 DEF MakeDirectory
  <2>2. UNCHANGED <<content, mode, held, taken, opened, reverted>>
    BY <1>7 DEF MakeDirectory
  <2>3. QED
    BY ONLY <1>0, <2>1, <2>2
<1>8. ASSUME NEW p \in Runs, WriteTemporary(p)
      PROVE  OldStaysOld'
  <2>1. \A q \in Runs : stage'[q] \notin Ended => stage[q] \notin Ended
    BY <1>8 DEF WriteTemporary
  <2>2. UNCHANGED <<content, mode, held, taken, opened, reverted>>
    BY <1>8 DEF WriteTemporary
  <2>3. QED
    BY ONLY <1>0, <2>1, <2>2
<1>9. ASSUME NEW p \in Runs, ReplacePatch(p)
      PROVE  OldStaysOld'
  <2>1. \A q \in Runs : stage'[q] \notin Ended => stage[q] \notin Ended
    BY <1>9 DEF ReplacePatch
  <2>2. UNCHANGED <<content, mode, held, taken, opened, reverted>>
    BY <1>9 DEF ReplacePatch
  <2>3. QED
    BY ONLY <1>0, <2>1, <2>2
<1>10. ASSUME NEW p \in Runs, ReplaceMaterialized(p)
       PROVE  OldStaysOld'
  <2>1. \A q \in Runs : stage'[q] \notin Ended => stage[q] \notin Ended
    BY <1>10 DEF ReplaceMaterialized
  <2>2. UNCHANGED <<content, mode, held, taken, opened, reverted>>
    BY <1>10 DEF ReplaceMaterialized
  <2>3. QED
    BY ONLY <1>0, <2>1, <2>2
<1>11. ASSUME NEW p \in Runs, ReplaceBound(p)
       PROVE  OldStaysOld'
  <2>1. \A q \in Runs : stage'[q] \notin Ended => stage[q] \notin Ended
    BY <1>11 DEF ReplaceBound
  <2>2. UNCHANGED <<content, mode, held, taken, opened, reverted>>
    BY <1>11 DEF ReplaceBound
  <2>3. QED
    BY ONLY <1>0, <2>1, <2>2
<1>12. ASSUME NEW p \in Runs, FailWriting(p)
       PROVE  OldStaysOld'
  <2>1. \A q \in Runs : stage'[q] \notin Ended => stage[q] \notin Ended
    BY <1>12 DEF FailWriting
  <2>2. UNCHANGED <<content, mode, held, taken, opened, reverted>>
    BY <1>12 DEF FailWriting
  <2>3. QED
    BY ONLY <1>0, <2>1, <2>2
<1>13. ASSUME NEW p \in Runs, UndoMetadata(p)
       PROVE  OldStaysOld'
  <2>1. \A q \in Runs : stage'[q] \notin Ended => stage[q] \notin Ended
    BY <1>13 DEF UndoMetadata
  <2>2. UNCHANGED <<content, mode, held, taken, opened, reverted>>
    BY <1>13 DEF UndoMetadata
  <2>3. QED
    BY ONLY <1>0, <2>1, <2>2
<1>14. ASSUME NEW p \in Runs, UndoPatch(p)
       PROVE  OldStaysOld'
  <2>1. \A q \in Runs : stage'[q] \notin Ended => stage[q] \notin Ended
    BY <1>14 DEF UndoPatch
  <2>2. UNCHANGED <<content, mode, held, taken, opened, reverted>>
    BY <1>14 DEF UndoPatch
  <2>3. QED
    BY ONLY <1>0, <2>1, <2>2
<1>15. ASSUME NEW p \in Runs, UndoDirectory(p)
       PROVE  OldStaysOld'
  <2>1. \A q \in Runs : stage'[q] \notin Ended => stage[q] \notin Ended
    BY <1>15 DEF UndoDirectory
  <2>2. UNCHANGED <<content, mode, held, taken, opened, reverted>>
    BY <1>15 DEF UndoDirectory
  <2>3. QED
    BY ONLY <1>0, <2>1, <2>2
<1>16. ASSUME NEW p \in Runs, NEW a \in Assets, HashAsset(p, a)
       PROVE  OldStaysOld'
  <2>1. taken' = [taken EXCEPT ![p] = [taken[p] EXCEPT ![a] = content[a]]]
    BY <1>16 DEF HashAsset
  <2>2. UNCHANGED <<content, stage, mode, held, opened, reverted>>
    BY <1>16 DEF HashAsset
  <2>3. \A q \in Runs : taken[q] \in Hashes
    OBVIOUS
  <2>4. ASSUME NEW q \in Runs, NEW b \in Assets
        PROVE  \/ taken'[q][b] = taken[q][b]
               \/ q = p /\ taken'[q][b] = content[b]
    BY <2>1, <2>3 DEF Hashes
  <2>5. stage[p] \notin Ended
    BY <1>16 DEF HashAsset
  <2>6. QED
    BY ONLY OldStaysOld, <2>2, <2>4, <2>5 DEF OldStaysOld
<1>17. ASSUME NEW p \in Runs, ComparePatch(p)
       PROVE  OldStaysOld'
  <2>1. \A q \in Runs : stage'[q] \notin Ended => stage[q] \notin Ended
    BY <1>17 DEF ComparePatch
  <2>2. UNCHANGED <<content, mode, held, taken, opened, reverted>>
    BY <1>17 DEF ComparePatch
  <2>3. QED
    BY ONLY <1>0, <2>1, <2>2
<1>18. ASSUME NEW p \in Runs, CompareMetadata(p)
       PROVE  OldStaysOld'
  <2>1. \A q \in Runs : stage'[q] \notin Ended => stage[q] \notin Ended
    BY <1>18 DEF CompareMetadata
  <2>2. UNCHANGED <<content, mode, held, taken, opened, reverted>>
    BY <1>18 DEF CompareMetadata
  <2>3. QED
    BY ONLY <1>0, <2>1, <2>2
<1>19. ASSUME NEW p \in Runs, Fail(p)
       PROVE  OldStaysOld'
  <2>1. \A q \in Runs : stage'[q] \notin Ended => stage[q] \notin Ended
    BY <1>19 DEF Fail
  <2>2. UNCHANGED <<content, mode, held, taken, opened, reverted>>
    BY <1>19 DEF Fail
  <2>3. QED
    BY ONLY <1>0, <2>1, <2>2
<1>20. ASSUME NEW p \in Runs, Kill(p)
       PROVE  OldStaysOld'
  <2>1. \A q \in Runs : stage'[q] \notin Ended => stage[q] \notin Ended
    BY <1>20 DEF Kill
  <2>2. UNCHANGED <<content, mode, held, taken, opened, reverted>>
    BY <1>20 DEF Kill
  <2>3. QED
    BY ONLY <1>0, <2>1, <2>2
<1>21. CASE Surroundings
  <2>1. CASE \E a \in Assets, c \in Contents : EditAsset(a, c)
    <3>1. PICK a \in Assets, c \in Contents : EditAsset(a, c)
      BY <2>1
    <3>2. UNCHANGED <<stage, mode, held, taken, opened>>
      BY <3>1 DEF EditAsset
    <3>3. \A b \in Assets : content'[b] = IF b = a THEN c ELSE content[b]
      BY <3>1 DEF EditAsset
    <3>4. ASSUME NEW p \in Runs
          PROVE  /\ reverted[p] \subseteq reverted'[p]
                 /\ mode[p] = "verify" /\ stage[p] \notin Ended /\ c \in past[a]
                    => a \in reverted'[p]
      BY <3>1 DEF EditAsset
    <3>5. ASSUME NEW p \in Runs, mode[p] = "verify",
                 NEW b \in Assets \ reverted'[p],
                 held[p].assets[b] \notin {Nothing, opened[p][b]}
          PROVE  /\ stage[p] \notin Ended => content'[b] # held[p].assets[b]
                 /\ taken[p][b] # held[p].assets[b]
      <4>1. b \notin reverted[p]
        BY <3>4, <3>5
      <4>2. held[p].assets[b] \in past[b]
        BY ONLY HashesArePast, <3>5 DEF HashesArePast
      <4>3. b = a /\ stage[p] \notin Ended => c # held[p].assets[b]
        BY ONLY <3>4, <3>5, <4>2
      <4>4. /\ stage[p] \notin Ended => content[b] # held[p].assets[b]
            /\ taken[p][b] # held[p].assets[b]
        BY ONLY OldStaysOld, <3>5, <4>1 DEF OldStaysOld
      <4>5. QED
        BY ONLY <3>3, <4>3, <4>4, <3>5
    <3>6. QED
      BY ONLY <3>2, <3>5 DEF OldStaysOld
  <2>2. CASE \/ \E r \in Revisions \cup {Nothing} : MovePullRequest(r)
             \/ \E x \in Patches : EditPatch(x)
             \/ RemoveDirectory
    <3>1. UNCHANGED <<content, stage, mode, held, taken, opened, reverted>>
      BY <2>2 DEF MovePullRequest, EditPatch, RemoveDirectory
    <3>2. QED
      BY ONLY OldStaysOld, <3>1 DEF OldStaysOld
  <2>3. QED
    BY <1>21, <2>1, <2>2 DEF Surroundings
<1>22. CASE UNCHANGED vars
  BY <1>0, <1>22 DEF vars
<1>23. QED
  BY <1>1, <1>2, <1>3, <1>4, <1>5, <1>6, <1>7, <1>8, <1>9, <1>10,
     <1>11, <1>12, <1>13, <1>14, <1>15, <1>16, <1>17, <1>18, <1>19,
     <1>20, <1>21, <1>22
  DEF Next, Start, Regenerate, Publish, Undo, Verify

\* The invariant behind BindingsCoexisted.
LEMMA BindingInvariant ==
  Spec => [](HashesAreComplete /\ VerifiedHashes /\ HashesArePast /\ OldStaysOld)
<1>1. Init => HashesAreComplete /\ VerifiedHashes /\ HashesArePast /\ OldStaysOld
  <2> SUFFICES ASSUME Init
               PROVE  HashesAreComplete /\ VerifiedHashes /\ HashesArePast
                        /\ OldStaysOld
    OBVIOUS
  <2>1. HashesAreComplete /\ VerifiedHashes /\ OldStaysOld
    BY DEF Init, HashesAreComplete, VerifiedHashes, OldStaysOld
  <2>2. HashesArePast
    BY DEF Init, HashesArePast, NoMetadata, Unread
  <2>3. QED
    BY <2>1, <2>2
<1>2. TypeOK /\ StagesFit /\ HashesAreComplete /\ VerifiedHashes
        /\ HashesArePast /\ OldStaysOld /\ [Next]_vars
      => HashesAreComplete' /\ VerifiedHashes' /\ HashesArePast' /\ OldStaysOld'
  BY HashesStep, PastStep, OldStep
<1>3. QED
  BY <1>1, <1>2, TypesAndStages, PTL DEF Spec

\* A hash of the metadata that did not hold when a verify read the metadata
\* cannot hold when the verify hashes the asset itself, unless the asset was set
\* back meanwhile: equal hashes were true at that moment, all at once.
THEOREM HashesCoexisted == Spec => []BindingsCoexisted
<1>1. StagesFit /\ HashesAreComplete /\ VerifiedHashes /\ OldStaysOld
      => BindingsCoexisted
  <2> SUFFICES ASSUME StagesFit, HashesAreComplete, VerifiedHashes, OldStaysOld,
                      NEW p \in Runs, stage[p] = "verified",
                      NEW a \in Assets \ reverted[p]
               PROVE  held[p].assets[a] = opened[p][a]
    BY DEF BindingsCoexisted
  <2>1. mode[p] = "verify" /\ held[p].assets = taken[p]
    BY DEF StagesFit, VerifiedHashes
  <2>2. held[p].assets[a] # Nothing
    BY <2>1 DEF HashesAreComplete, Complete
  <2>3. QED
    BY <2>1, <2>2 DEF OldStaysOld
<1>2. QED
  BY <1>1, TypesAndStages, BindingInvariant, PTL

-----------------------------------------------------------------------------
\* A run that has seen the pull request twice has its revision in time, and
\* one that is between the two reads may still find it.
ReadInTime ==
  \A p \in Runs :
    \/ stage[p] = "built" /\ pr = expect[p]
    \/ stage[p] = "settled"
    \/ mode[p] = "materialize"
         /\ stage[p] \in Writing \cup Undoing \cup {"materialized"}
    \/ mode[p] = "verify" /\ stage[p] \in {"collecting", "compared", "verified"}
    => p \in current

\* A step publishes or approves only what was seen after the diff.
LEMMA ReadInTimeStep ==
  ASSUME TypeOK, StagesFit, ReadInTime, [Next]_vars
  PROVE  ReadInTime'
<1> USE DEF TypeOK, StagesFit, ReadInTime, Stages, Writing, Undoing, Ended,
            Goto, world, directory, plan
<1>1. ASSUME NEW p \in Runs, NEW r \in Revisions, StartMaterialize(p, r)
      PROVE  ReadInTime'
  BY <1>1 DEF StartMaterialize
<1>2. ASSUME NEW p \in Runs, StartBind(p)
      PROVE  ReadInTime'
  BY <1>2 DEF StartBind
<1>3. ASSUME NEW p \in Runs, NEW r \in Revisions, StartVerify(p, r)
      PROVE  ReadInTime'
  BY <1>3 DEF StartVerify
<1>4. ASSUME NEW p \in Runs, ReadPullRequest(p)
      PROVE  ReadInTime'
  BY <1>4 DEF ReadPullRequest
<1>5. ASSUME NEW p \in Runs, BuildDiff(p)
      PROVE  ReadInTime'
  BY <1>5 DEF BuildDiff
<1>6. ASSUME NEW p \in Runs, RereadPullRequest(p)
      PROVE  ReadInTime'
  BY <1>6 DEF RereadPullRequest
<1>7. ASSUME NEW p \in Runs, MakeDirectory(p)
      PROVE  ReadInTime'
  BY <1>7 DEF MakeDirectory
<1>8. ASSUME NEW p \in Runs, WriteTemporary(p)
      PROVE  ReadInTime'
  BY <1>8 DEF WriteTemporary
<1>9. ASSUME NEW p \in Runs, ReplacePatch(p)
      PROVE  ReadInTime'
  BY <1>9 DEF ReplacePatch
<1>10. ASSUME NEW p \in Runs, ReplaceMaterialized(p)
       PROVE  ReadInTime'
  BY <1>10 DEF ReplaceMaterialized
<1>11. ASSUME NEW p \in Runs, ReplaceBound(p)
       PROVE  ReadInTime'
  BY <1>11 DEF ReplaceBound
<1>12. ASSUME NEW p \in Runs, FailWriting(p)
       PROVE  ReadInTime'
  BY <1>12 DEF FailWriting
<1>13. ASSUME NEW p \in Runs, UndoMetadata(p)
       PROVE  ReadInTime'
  BY <1>13 DEF UndoMetadata
<1>14. ASSUME NEW p \in Runs, UndoPatch(p)
       PROVE  ReadInTime'
  BY <1>14 DEF UndoPatch
<1>15. ASSUME NEW p \in Runs, UndoDirectory(p)
       PROVE  ReadInTime'
  BY <1>15 DEF UndoDirectory
<1>16. ASSUME NEW p \in Runs, NEW a \in Assets, HashAsset(p, a)
       PROVE  ReadInTime'
  BY <1>16 DEF HashAsset
<1>17. ASSUME NEW p \in Runs, ComparePatch(p)
       PROVE  ReadInTime'
  BY <1>17 DEF ComparePatch
<1>18. ASSUME NEW p \in Runs, CompareMetadata(p)
       PROVE  ReadInTime'
  BY <1>18 DEF CompareMetadata
<1>19. ASSUME NEW p \in Runs, Fail(p)
       PROVE  ReadInTime'
  BY <1>19 DEF Fail
<1>20. ASSUME NEW p \in Runs, Kill(p)
       PROVE  ReadInTime'
  BY <1>20 DEF Kill
<1>21. CASE Surroundings
  BY <1>21
  DEF Surroundings, MovePullRequest, EditAsset, EditPatch, RemoveDirectory
<1>22. CASE UNCHANGED vars
  BY <1>22 DEF vars
<1>23. QED
  BY <1>1, <1>2, <1>3, <1>4, <1>5, <1>6, <1>7, <1>8, <1>9, <1>10,
     <1>11, <1>12, <1>13, <1>14, <1>15, <1>16, <1>17, <1>18, <1>19,
     <1>20, <1>21, <1>22
  DEF Next, Start, Regenerate, Publish, Undo, Verify

\* No run publishes or approves a revision that moved away during the fetch
\* and stayed away.
THEOREM ReviewsAreCurrent == Spec => []PublishedWhileCurrent
<1>1. Init => ReadInTime
  BY DEF Init, ReadInTime, Writing, Undoing
<1>2. TypeOK /\ StagesFit /\ ReadInTime /\ [Next]_vars => ReadInTime'
  BY ReadInTimeStep
<1>3. TypeOK /\ StagesFit /\ ReadInTime => PublishedWhileCurrent
  BY DEF StagesFit, ReadInTime, PublishedWhileCurrent
<1>4. QED
  BY <1>1, <1>2, <1>3, TypesAndStages, PTL DEF Spec

-----------------------------------------------------------------------------
\* The directory is made by the one materialize that works in it, and is empty
\* of everything when there is none.
Ownership ==
  /\ \A p \in Publishing : publisher = p
  /\ publisher # Nothing =>
       /\ mode[publisher] = "materialize"
       /\ stage[publisher] \in Writing \cup Undoing
                              \cup {"materialized", "failed", "killed"}
  /\ publisher = Nothing => DirectoryIsEmpty

\* What the cleanup of the publisher has been through and is still there did not
\* let itself be removed.
CleanupProgress ==
  \A p \in Runs :
    publisher = p =>
      /\ stage[p] = "failed" => "directory" \in stuck
      /\ stage[p] \in {"undo directory", "failed"} /\ patch # Nothing =>
           "patch" \in stuck
      /\ stage[p] \in Undoing \cup {"failed"} /\ p \in temps =>
           "temporary" \in stuck
      /\ /\ stage[p] \in {"undo patch", "undo directory", "failed"}
         /\ meta # NoMetadata /\ ~Bound(meta)
         => "metadata" \in stuck

\* A step leaves the directory with its one owner.
LEMMA OwnershipStep ==
  ASSUME TypeOK, StagesFit, Ownership, [Next]_vars
  PROVE  Ownership'
<1> USE WorkspaceAssumption
<1> USE DEF TypeOK, StagesFit, Ownership, Publishing, DirectoryIsEmpty, Stages,
            Writing, Undoing, Ended, Goto, world, directory, plan
<1>1. ASSUME NEW p \in Runs, NEW r \in Revisions, StartMaterialize(p, r)
      PROVE  Ownership'
  BY <1>1 DEF StartMaterialize
<1>2. ASSUME NEW p \in Runs, StartBind(p)
      PROVE  Ownership'
  BY <1>2 DEF StartBind
<1>3. ASSUME NEW p \in Runs, NEW r \in Revisions, StartVerify(p, r)
      PROVE  Ownership'
  BY <1>3 DEF StartVerify
<1>4. ASSUME NEW p \in Runs, ReadPullRequest(p)
      PROVE  Ownership'
  BY <1>4 DEF ReadPullRequest
<1>5. ASSUME NEW p \in Runs, BuildDiff(p)
      PROVE  Ownership'
  BY <1>5 DEF BuildDiff
<1>6. ASSUME NEW p \in Runs, RereadPullRequest(p)
      PROVE  Ownership'
  BY <1>6 DEF RereadPullRequest
<1>7. ASSUME NEW p \in Runs, MakeDirectory(p)
      PROVE  Ownership'
  BY <1>7 DEF MakeDirectory
<1>8. ASSUME NEW p \in Runs, WriteTemporary(p)
      PROVE  Ownership'
  BY <1>8 DEF WriteTemporary
<1>9. ASSUME NEW p \in Runs, ReplacePatch(p)
      PROVE  Ownership'
  BY <1>9 DEF ReplacePatch
<1>10. ASSUME NEW p \in Runs, ReplaceMaterialized(p)
       PROVE  Ownership'
  BY <1>10 DEF ReplaceMaterialized
<1>11. ASSUME NEW p \in Runs, ReplaceBound(p)
       PROVE  Ownership'
  BY <1>11 DEF ReplaceBound
<1>12. ASSUME NEW p \in Runs, FailWriting(p)
       PROVE  Ownership'
  BY <1>12 DEF FailWriting
<1>13. ASSUME NEW p \in Runs, UndoMetadata(p)
       PROVE  Ownership'
  BY <1>13 DEF UndoMetadata
<1>14. ASSUME NEW p \in Runs, UndoPatch(p)
       PROVE  Ownership'
  BY <1>14 DEF UndoPatch
<1>15. ASSUME NEW p \in Runs, UndoDirectory(p)
       PROVE  Ownership'
  <2>1. mode[p] = "materialize" /\ publisher = p
    BY <1>15 DEF UndoDirectory
  <2>2. stage' = [stage EXCEPT ![p] = "failed"]
    BY <1>15 DEF UndoDirectory
  <2>3. UNCHANGED <<patch, meta, temps, mode>>
    BY <1>15 DEF UndoDirectory
  <2>4. \/ DirectoryIsEmpty /\ publisher' = Nothing
        \/ publisher' = p
    BY <1>15, <2>1 DEF UndoDirectory
  <2>5. \A q \in Publishing' : q \in Publishing /\ q # p
    BY <2>2, <2>3
  <2>6. Publishing' = {}
    BY <2>1, <2>5
  <2>7. CASE DirectoryIsEmpty /\ publisher' = Nothing
    BY <2>3, <2>6, <2>7
  <2>8. CASE publisher' = p
    <3>1. mode'[p] = "materialize" /\ stage'[p] = "failed"
      BY <2>1, <2>2, <2>3
    <3>2. p # Nothing
      OBVIOUS
    <3>3. QED
      BY <2>6, <2>8, <3>1, <3>2
  <2>9. QED
    BY <2>4, <2>7, <2>8
<1>16. ASSUME NEW p \in Runs, NEW a \in Assets, HashAsset(p, a)
       PROVE  Ownership'
  BY <1>16 DEF HashAsset
<1>17. ASSUME NEW p \in Runs, ComparePatch(p)
       PROVE  Ownership'
  BY <1>17 DEF ComparePatch
<1>18. ASSUME NEW p \in Runs, CompareMetadata(p)
       PROVE  Ownership'
  BY <1>18 DEF CompareMetadata
<1>19. ASSUME NEW p \in Runs, Fail(p)
       PROVE  Ownership'
  BY <1>19 DEF Fail
<1>20. ASSUME NEW p \in Runs, Kill(p)
       PROVE  Ownership'
  BY <1>20 DEF Kill
<1>21. CASE Surroundings
  BY <1>21
  DEF Surroundings, MovePullRequest, EditAsset, EditPatch, RemoveDirectory
<1>22. CASE UNCHANGED vars
  BY <1>22 DEF vars
<1>23. QED
  BY <1>1, <1>2, <1>3, <1>4, <1>5, <1>6, <1>7, <1>8, <1>9, <1>10,
     <1>11, <1>12, <1>13, <1>14, <1>15, <1>16, <1>17, <1>18, <1>19,
     <1>20, <1>21, <1>22
  DEF Next, Start, Regenerate, Publish, Undo, Verify

\* A step of the cleanup removes what it is about or is stuck with it.
LEMMA CleanupStep ==
  ASSUME TypeOK, StagesFit, HashesAreComplete, Ownership, CleanupProgress,
         [Next]_vars
  PROVE  CleanupProgress'
<1> USE WorkspaceAssumption
<1> USE DEF TypeOK, StagesFit, Ownership, CleanupProgress, Publishing, Stages,
            Writing, Undoing, Ended, Goto, world, directory, plan
<1>1. ASSUME NEW p \in Runs, NEW r \in Revisions, StartMaterialize(p, r)
      PROVE  CleanupProgress'
  BY <1>1 DEF StartMaterialize
<1>2. ASSUME NEW p \in Runs, StartBind(p)
      PROVE  CleanupProgress'
  BY <1>2 DEF StartBind
<1>3. ASSUME NEW p \in Runs, NEW r \in Revisions, StartVerify(p, r)
      PROVE  CleanupProgress'
  BY <1>3 DEF StartVerify
<1>4. ASSUME NEW p \in Runs, ReadPullRequest(p)
      PROVE  CleanupProgress'
  BY <1>4 DEF ReadPullRequest
<1>5. ASSUME NEW p \in Runs, BuildDiff(p)
      PROVE  CleanupProgress'
  BY <1>5 DEF BuildDiff
<1>6. ASSUME NEW p \in Runs, RereadPullRequest(p)
      PROVE  CleanupProgress'
  BY <1>6 DEF RereadPullRequest
<1>7. ASSUME NEW p \in Runs, MakeDirectory(p)
      PROVE  CleanupProgress'
  <2>1. publisher' = p /\ stage'[p] = "made"
    BY <1>7 DEF MakeDirectory
  <2>2. QED
    BY <2>1
<1>8. ASSUME NEW p \in Runs, WriteTemporary(p)
      PROVE  CleanupProgress'
  <2>1. PICK x \in {"writing patch", "writing metadata"} :
          stage' = [stage EXCEPT ![p] = x]
    BY <1>8 DEF WriteTemporary
  <2>2. temps' = temps \cup {p}
    BY <1>8 DEF WriteTemporary
  <2>3. UNCHANGED <<publisher, patch, meta, stuck>>
    BY <1>8 DEF WriteTemporary
  <2>4. QED
    BY <2>1, <2>2, <2>3 DEF Bound
<1>9. ASSUME NEW p \in Runs, ReplacePatch(p)
      PROVE  CleanupProgress'
  <2>1. publisher = p
    BY <1>9 DEF ReplacePatch
  <2>2. PICK x \in {"patched", "undo metadata"} :
          stage' = [stage EXCEPT ![p] = x]
    BY <1>9 DEF ReplacePatch
  <2>3. p \notin temps' /\ UNCHANGED <<publisher, meta, stuck>>
    BY <1>9 DEF ReplacePatch
  <2>4. QED
    BY <2>1, <2>2, <2>3
<1>10. ASSUME NEW p \in Runs, ReplaceMaterialized(p)
       PROVE  CleanupProgress'
  <2>1. publisher = p
    BY <1>10 DEF ReplaceMaterialized
  <2>2. PICK x \in {"materialized", "undo metadata"} :
          stage' = [stage EXCEPT ![p] = x]
    BY <1>10 DEF ReplaceMaterialized
  <2>3. p \notin temps' /\ UNCHANGED <<publisher, patch, stuck>>
    BY <1>10 DEF ReplaceMaterialized
  <2>4. QED
    BY <2>1, <2>2, <2>3
<1>11. ASSUME NEW p \in Runs, ReplaceBound(p)
       PROVE  CleanupProgress'
  <2>1. Bound(meta')
    <3>1. \A a \in Assets : taken[p][a] # Nothing
      BY <1>11 DEF ReplaceBound, HashesAreComplete, Complete
    <3>2. QED
      BY <1>11, <3>1 DEF ReplaceBound, BoundMetadata, Bound
  <2>2. publisher # p
    BY <1>11 DEF ReplaceBound
  <2>3. PICK x \in {"bound", "failed"} : stage' = [stage EXCEPT ![p] = x]
    BY <1>11 DEF ReplaceBound
  <2>4. temps' = temps \ {p} /\ UNCHANGED <<publisher, patch, stuck>>
    BY <1>11 DEF ReplaceBound
  <2>5. \A q \in Runs : publisher = q => stage'[q] = stage[q]
    BY <2>2, <2>3
  <2>6. QED
    BY <2>1, <2>4, <2>5 DEF Bound
<1>12. ASSUME NEW p \in Runs, FailWriting(p)
       PROVE  CleanupProgress'
  <2>1. CASE mode[p] = "materialize"
    <3>1. publisher = p
      BY <1>12, <2>1 DEF FailWriting
    <3>2. stage' = [stage EXCEPT ![p] = "undo metadata"]
      BY <1>12, <2>1 DEF FailWriting
    <3>3. p \in temps' => "temporary" \in stuck'
      BY <1>12, <3>1 DEF FailWriting, Stuck
    <3>4. publisher' = p
      BY <1>12, <3>1 DEF FailWriting
    <3>5. QED
      BY <3>2, <3>3, <3>4
  <2>2. CASE mode[p] # "materialize"
    <3>1. publisher # p
      BY <2>2
    <3>2. UNCHANGED <<publisher, patch, meta, stuck>> /\ temps' \subseteq temps
      BY <1>12, <3>1 DEF FailWriting, Stuck
    <3>3. \A q \in Runs : publisher = q => stage'[q] = stage[q]
      BY <1>12, <3>1 DEF FailWriting
    <3>4. QED
      BY <3>2, <3>3 DEF Bound
  <2>3. QED
    BY <2>1, <2>2
<1>13. ASSUME NEW p \in Runs, UndoMetadata(p)
       PROVE  CleanupProgress'
  <2>1. publisher = p /\ publisher' = p
    BY <1>13 DEF UndoMetadata
  <2>2. stage' = [stage EXCEPT ![p] = "undo patch"]
    BY <1>13 DEF UndoMetadata
  <2>3. meta' = NoMetadata \/ "metadata" \in stuck'
    BY <1>13, <2>1 DEF UndoMetadata, Stuck
  <2>4. stuck \subseteq stuck' /\ UNCHANGED temps
    BY <1>13 DEF UndoMetadata, Stuck
  <2>5. p \in temps => "temporary" \in stuck
    BY <1>13, <2>1 DEF UndoMetadata
  <2>6. \A q \in Runs : publisher' = q => q = p /\ stage'[q] = "undo patch"
    BY <2>1, <2>2
  <2>7. QED
    BY ONLY <2>3, <2>4, <2>5, <2>6 DEF CleanupProgress, Undoing
<1>14. ASSUME NEW p \in Runs, UndoPatch(p)
       PROVE  CleanupProgress'
  <2>1. publisher = p /\ publisher' = p
    BY <1>14 DEF UndoPatch
  <2>2. stage' = [stage EXCEPT ![p] = "undo directory"]
    BY <1>14 DEF UndoPatch
  <2>3. patch' = Nothing \/ "patch" \in stuck'
    BY <1>14, <2>1 DEF UndoPatch, Stuck
  <2>4. stuck \subseteq stuck' /\ UNCHANGED <<temps, meta>>
    BY <1>14 DEF UndoPatch, Stuck
  <2>5. /\ p \in temps => "temporary" \in stuck
        /\ meta # NoMetadata /\ ~Bound(meta) => "metadata" \in stuck
    BY <1>14, <2>1 DEF UndoPatch
  <2>6. \A q \in Runs : publisher' = q => q = p /\ stage'[q] = "undo directory"
    BY <2>1, <2>2
  <2>7. QED
    BY ONLY <2>3, <2>4, <2>5, <2>6 DEF CleanupProgress, Undoing, Bound
<1>15. ASSUME NEW p \in Runs, UndoDirectory(p)
       PROVE  CleanupProgress'
  <2>1. publisher = p
    BY <1>15 DEF UndoDirectory
  <2>2. stage' = [stage EXCEPT ![p] = "failed"]
    BY <1>15 DEF UndoDirectory
  <2>3. CASE publisher' = Nothing
    BY <2>3
  <2>4. CASE publisher' = p
    <3>1. "directory" \in stuck' /\ stuck \subseteq stuck'
      BY <1>15, <2>1, <2>4 DEF UndoDirectory, Stuck
    <3>2. UNCHANGED <<temps, meta, patch>>
      BY <1>15 DEF UndoDirectory
    <3>3. /\ p \in temps => "temporary" \in stuck
          /\ meta # NoMetadata /\ ~Bound(meta) => "metadata" \in stuck
          /\ patch # Nothing => "patch" \in stuck
      BY <1>15, <2>1 DEF UndoDirectory
    <3>4. \A q \in Runs : publisher' = q => q = p
      BY <2>4
    <3>5. QED
      BY ONLY <3>1, <3>2, <3>3, <3>4 DEF CleanupProgress, Bound
  <2>5. QED
    BY <1>15, <2>1, <2>3, <2>4 DEF UndoDirectory
<1>16. ASSUME NEW p \in Runs, NEW a \in Assets, HashAsset(p, a)
       PROVE  CleanupProgress'
  BY <1>16 DEF HashAsset
<1>17. ASSUME NEW p \in Runs, ComparePatch(p)
       PROVE  CleanupProgress'
  BY <1>17 DEF ComparePatch
<1>18. ASSUME NEW p \in Runs, CompareMetadata(p)
       PROVE  CleanupProgress'
  BY <1>18 DEF CompareMetadata
<1>19. ASSUME NEW p \in Runs, Fail(p)
       PROVE  CleanupProgress'
  BY <1>19 DEF Fail
<1>20. ASSUME NEW p \in Runs, Kill(p)
       PROVE  CleanupProgress'
  BY <1>20 DEF Kill
<1>21. CASE Surroundings
  <2>1. CASE RemoveDirectory
    BY <2>1 DEF RemoveDirectory
  <2>2. CASE \E x \in Patches : EditPatch(x)
    <3>1. patch # Nothing /\ patch' # Nothing
      BY <2>2 DEF EditPatch
    <3>2. UNCHANGED <<publisher, meta, temps, stage, stuck>>
      BY <2>2 DEF EditPatch
    <3>3. QED
      BY <3>1, <3>2 DEF Bound
  <2>3. CASE \/ \E r \in Revisions \cup {Nothing} : MovePullRequest(r)
             \/ \E a \in Assets, c \in Contents : EditAsset(a, c)
    <3>1. UNCHANGED <<publisher, patch, meta, temps, stage, stuck>>
      BY <2>3 DEF MovePullRequest, EditAsset
    <3>2. QED
      BY <3>1 DEF Bound
  <2>4. QED
    BY <1>21, <2>1, <2>2, <2>3 DEF Surroundings
<1>22. CASE UNCHANGED vars
  BY <1>22 DEF vars
<1>23. QED
  BY <1>1, <1>2, <1>3, <1>4, <1>5, <1>6, <1>7, <1>8, <1>9, <1>10,
     <1>11, <1>12, <1>13, <1>14, <1>15, <1>16, <1>17, <1>18, <1>19,
     <1>20, <1>21, <1>22
  DEF Next, Start, Regenerate, Publish, Undo, Verify

\* The directory has one owner, and its cleanup skips nothing.
LEMMA OwnershipInvariant == Spec => [](Ownership /\ CleanupProgress)
<1>1. Init => Ownership /\ CleanupProgress
  BY WorkspaceAssumption
  DEF Init, Ownership, CleanupProgress, Publishing, DirectoryIsEmpty,
         Writing, Undoing
<1>2. /\ TypeOK /\ StagesFit /\ HashesAreComplete /\ Ownership
      /\ CleanupProgress /\ [Next]_vars
      => Ownership' /\ CleanupProgress'
  BY OwnershipStep, CleanupStep
<1>3. QED
  BY <1>1, <1>2, TypesAndStages, BindingInvariant, PTL DEF Spec

\* Whatever a materialize that failed has left behind could not be removed.
THEOREM LeftoversWereStuck == Spec => []CleanupIsThorough
<1>1. CleanupProgress => CleanupIsThorough
  BY DEF CleanupProgress, CleanupIsThorough
<1>2. QED
  BY <1>1, OwnershipInvariant, PTL

-----------------------------------------------------------------------------
\* While a materialize is past its patch, and after it has reported, the files
\* are there.
FilesStay ==
  /\ \A p \in Publishing :
       stage[p] \in {"patched", "writing metadata"} => patch # Nothing
  /\ removals = 0 =>
       \A p \in Runs :
         mode[p] = "materialize" /\ stage[p] = "materialized" =>
           publisher = p /\ patch # Nothing /\ meta # NoMetadata

\* Metadata without its patch was left by an unlink that failed.
PatchOutlivesMetadata ==
  \A p \in Runs :
    publisher = p /\ meta # NoMetadata /\ ~Bound(meta) /\ removals = 0 =>
      \/ "metadata" \in stuck
      \/ patch # Nothing /\ stage[p] # "undo patch"

\* A step keeps the files of a publisher.
LEMMA FilesStep ==
  ASSUME TypeOK, StagesFit, Ownership, FilesStay, [Next]_vars
  PROVE  FilesStay'
<1> USE WorkspaceAssumption
<1> USE DEF TypeOK, StagesFit, Ownership, FilesStay, Publishing, Stages,
            Writing, Undoing, Ended, Goto, world, directory, plan
<1>1. ASSUME NEW p \in Runs, NEW r \in Revisions, StartMaterialize(p, r)
      PROVE  FilesStay'
  BY <1>1 DEF StartMaterialize
<1>2. ASSUME NEW p \in Runs, StartBind(p)
      PROVE  FilesStay'
  BY <1>2 DEF StartBind
<1>3. ASSUME NEW p \in Runs, NEW r \in Revisions, StartVerify(p, r)
      PROVE  FilesStay'
  BY <1>3 DEF StartVerify
<1>4. ASSUME NEW p \in Runs, ReadPullRequest(p)
      PROVE  FilesStay'
  BY <1>4 DEF ReadPullRequest
<1>5. ASSUME NEW p \in Runs, BuildDiff(p)
      PROVE  FilesStay'
  BY <1>5 DEF BuildDiff
<1>6. ASSUME NEW p \in Runs, RereadPullRequest(p)
      PROVE  FilesStay'
  BY <1>6 DEF RereadPullRequest
<1>7. ASSUME NEW p \in Runs, MakeDirectory(p)
      PROVE  FilesStay'
  BY <1>7 DEF MakeDirectory
<1>8. ASSUME NEW p \in Runs, WriteTemporary(p)
      PROVE  FilesStay'
  BY <1>8 DEF WriteTemporary
<1>9. ASSUME NEW p \in Runs, ReplacePatch(p)
      PROVE  FilesStay'
  <2>1. PICK x \in {"patched", "undo metadata"} :
          stage' = [stage EXCEPT ![p] = x]
    BY <1>9 DEF ReplacePatch
  <2>2. patch' \in Patches /\ patch' # Nothing
    <3>1. expect[p] \in Revisions
      BY <1>9 DEF ReplacePatch
    <3>2. patch' = DiffOf[expect[p]]
      BY <1>9 DEF ReplacePatch
    <3>3. QED
      BY <3>1, <3>2, Constants
  <2>3. UNCHANGED <<publisher, mode, meta, removals>>
    BY <1>9 DEF ReplacePatch
  <2>4. QED
    BY <2>1, <2>2, <2>3
<1>10. ASSUME NEW p \in Runs, ReplaceMaterialized(p)
       PROVE  FilesStay'
  <2>1. PICK x \in {"materialized", "undo metadata"} :
          stage' = [stage EXCEPT ![p] = x]
    BY <1>10 DEF ReplaceMaterialized
  <2>2. p \in Publishing /\ publisher = p /\ patch # Nothing
    BY <1>10 DEF ReplaceMaterialized
  <2>3. meta' # NoMetadata
    <3>1. expect[p] # Nothing
      <4>1. expect[p] \in Revisions
        BY <1>10 DEF ReplaceMaterialized
      <4>2. QED
        BY <4>1, Constants
    <3>2. meta'.rev = expect[p] /\ NoMetadata.rev = Nothing
      BY <1>10 DEF ReplaceMaterialized, MaterializedMetadata, NoMetadata
    <3>3. QED
      BY <3>1, <3>2
  <2>4. UNCHANGED <<publisher, mode, patch, removals>>
    BY <1>10 DEF ReplaceMaterialized
  <2>5. QED
    BY <2>1, <2>2, <2>3, <2>4
<1>11. ASSUME NEW p \in Runs, ReplaceBound(p)
       PROVE  FilesStay'
  <2>1. PICK x \in {"bound", "failed"} : stage' = [stage EXCEPT ![p] = x]
    BY <1>11 DEF ReplaceBound
  <2>2. meta' # NoMetadata
    <3>1. held[p].rev # Nothing
      <4>1. held[p].rev \in Revisions
        BY <1>11 DEF ReplaceBound
      <4>2. QED
        BY <4>1, Constants
    <3>2. meta'.rev = held[p].rev /\ NoMetadata.rev = Nothing
      BY <1>11 DEF ReplaceBound, BoundMetadata, NoMetadata
    <3>3. QED
      BY <3>1, <3>2
  <2>3. UNCHANGED <<publisher, mode, patch, removals>>
    BY <1>11 DEF ReplaceBound
  <2>4. QED
    BY <2>1, <2>2, <2>3
<1>12. ASSUME NEW p \in Runs, FailWriting(p)
       PROVE  FilesStay'
  BY <1>12 DEF FailWriting
<1>13. ASSUME NEW p \in Runs, UndoMetadata(p)
       PROVE  FilesStay'
  BY <1>13 DEF UndoMetadata
<1>14. ASSUME NEW p \in Runs, UndoPatch(p)
       PROVE  FilesStay'
  BY <1>14 DEF UndoPatch
<1>15. ASSUME NEW p \in Runs, UndoDirectory(p)
       PROVE  FilesStay'
  BY <1>15 DEF UndoDirectory
<1>16. ASSUME NEW p \in Runs, NEW a \in Assets, HashAsset(p, a)
       PROVE  FilesStay'
  BY <1>16 DEF HashAsset
<1>17. ASSUME NEW p \in Runs, ComparePatch(p)
       PROVE  FilesStay'
  BY <1>17 DEF ComparePatch
<1>18. ASSUME NEW p \in Runs, CompareMetadata(p)
       PROVE  FilesStay'
  BY <1>18 DEF CompareMetadata
<1>19. ASSUME NEW p \in Runs, Fail(p)
       PROVE  FilesStay'
  BY <1>19 DEF Fail
<1>20. ASSUME NEW p \in Runs, Kill(p)
       PROVE  FilesStay'
  BY <1>20 DEF Kill
<1>21. CASE Surroundings
  <2>1. CASE RemoveDirectory
    <3>1. Publishing' = {}
      BY <2>1 DEF RemoveDirectory
    <3>2. removals' # 0
      BY <2>1, Constants DEF RemoveDirectory
    <3>3. QED
      BY <3>1, <3>2
  <2>2. ASSUME \/ \E r \in Revisions \cup {Nothing} : MovePullRequest(r)
               \/ \E a \in Assets, c \in Contents : EditAsset(a, c)
               \/ \E x \in Patches : EditPatch(x)
        PROVE  FilesStay'
    BY <2>2 DEF MovePullRequest, EditAsset, EditPatch
  <2>3. QED
    BY <1>21, <2>1, <2>2 DEF Surroundings
<1>22. CASE UNCHANGED vars
  BY <1>22 DEF vars
<1>23. QED
  BY <1>1, <1>2, <1>3, <1>4, <1>5, <1>6, <1>7, <1>8, <1>9, <1>10,
     <1>11, <1>12, <1>13, <1>14, <1>15, <1>16, <1>17, <1>18, <1>19,
     <1>20, <1>21, <1>22
  DEF Next, Start, Regenerate, Publish, Undo, Verify

\* A step removes the metadata before the patch and writes it after.
LEMMA PatchStep ==
  ASSUME TypeOK, StagesFit, HashesAreComplete, Ownership, FilesStay,
         PatchOutlivesMetadata, [Next]_vars
  PROVE  PatchOutlivesMetadata'
<1> USE WorkspaceAssumption
<1> USE DEF TypeOK, StagesFit, Ownership, FilesStay, PatchOutlivesMetadata,
            Publishing, Stages, Writing, Undoing, Ended, Goto, world,
            directory, plan
<1>1. ASSUME NEW p \in Runs, NEW r \in Revisions, StartMaterialize(p, r)
      PROVE  PatchOutlivesMetadata'
  BY <1>1 DEF StartMaterialize
<1>2. ASSUME NEW p \in Runs, StartBind(p)
      PROVE  PatchOutlivesMetadata'
  BY <1>2 DEF StartBind
<1>3. ASSUME NEW p \in Runs, NEW r \in Revisions, StartVerify(p, r)
      PROVE  PatchOutlivesMetadata'
  BY <1>3 DEF StartVerify
<1>4. ASSUME NEW p \in Runs, ReadPullRequest(p)
      PROVE  PatchOutlivesMetadata'
  BY <1>4 DEF ReadPullRequest
<1>5. ASSUME NEW p \in Runs, BuildDiff(p)
      PROVE  PatchOutlivesMetadata'
  BY <1>5 DEF BuildDiff
<1>6. ASSUME NEW p \in Runs, RereadPullRequest(p)
      PROVE  PatchOutlivesMetadata'
  BY <1>6 DEF RereadPullRequest
<1>7. ASSUME NEW p \in Runs, MakeDirectory(p)
      PROVE  PatchOutlivesMetadata'
  <2>1. meta' = NoMetadata /\ publisher' = p
    BY <1>7 DEF MakeDirectory, DirectoryIsEmpty
  <2>2. QED
    BY <2>1
<1>8. ASSUME NEW p \in Runs, WriteTemporary(p)
      PROVE  PatchOutlivesMetadata'
  BY <1>8 DEF WriteTemporary
<1>9. ASSUME NEW p \in Runs, ReplacePatch(p)
      PROVE  PatchOutlivesMetadata'
  <2>1. PICK x \in {"patched", "undo metadata"} :
          stage' = [stage EXCEPT ![p] = x]
    BY <1>9 DEF ReplacePatch
  <2>2. patch' \in Patches /\ patch' # Nothing
    <3>1. expect[p] \in Revisions
      BY <1>9 DEF ReplacePatch
    <3>2. patch' = DiffOf[expect[p]]
      BY <1>9 DEF ReplacePatch
    <3>3. QED
      BY <3>1, <3>2, Constants
  <2>3. UNCHANGED <<publisher, stuck, meta, removals>>
    BY <1>9 DEF ReplacePatch
  <2>4. QED
    BY <2>1, <2>2, <2>3 DEF Bound
<1>10. ASSUME NEW p \in Runs, ReplaceMaterialized(p)
       PROVE  PatchOutlivesMetadata'
  BY <1>10 DEF ReplaceMaterialized
<1>11. ASSUME NEW p \in Runs, ReplaceBound(p)
       PROVE  PatchOutlivesMetadata'
  <2>1. \A a \in Assets : taken[p][a] # Nothing
    BY <1>11 DEF ReplaceBound, HashesAreComplete, Complete
  <2>2. Bound(meta')
    BY <1>11, <2>1 DEF ReplaceBound, BoundMetadata, Bound
  <2>3. QED
    BY <2>2 DEF Bound
<1>12. ASSUME NEW p \in Runs, FailWriting(p)
       PROVE  PatchOutlivesMetadata'
  <2>1. stuck \subseteq stuck' /\ UNCHANGED <<publisher, patch, meta, removals>>
    BY <1>12 DEF FailWriting, Stuck
  <2>2. \A q \in Runs : stage'[q] = "undo patch" => stage[q] = "undo patch"
    BY <1>12 DEF FailWriting
  <2>3. QED
    BY ONLY <2>1, <2>2, PatchOutlivesMetadata DEF PatchOutlivesMetadata, Bound
<1>13. ASSUME NEW p \in Runs, UndoMetadata(p)
       PROVE  PatchOutlivesMetadata'
  <2>1. publisher = p /\ UNCHANGED <<publisher, patch, removals>>
    BY <1>13 DEF UndoMetadata
  <2>2. meta' = NoMetadata \/ "metadata" \in stuck'
    BY <1>13, <2>1 DEF UndoMetadata, Stuck
  <2>3. \A q \in Runs : publisher' = q => q = p
    BY <2>1
  <2>4. CASE meta' = NoMetadata
    BY <2>4
  <2>5. CASE "metadata" \in stuck'
    BY ONLY <2>5 DEF PatchOutlivesMetadata
  <2>6. QED
    BY <2>2, <2>4, <2>5
<1>14. ASSUME NEW p \in Runs, UndoPatch(p)
       PROVE  PatchOutlivesMetadata'
  <2>1. publisher = p /\ UNCHANGED <<publisher, meta, removals>>
    BY <1>14 DEF UndoPatch
  <2>2. stuck \subseteq stuck'
    BY <1>14 DEF UndoPatch, Stuck
  <2>3. stage[p] = "undo patch"
    BY <1>14 DEF UndoPatch
  <2>4. QED
    BY ONLY <2>1, <2>2, <2>3, PatchOutlivesMetadata
    DEF PatchOutlivesMetadata, Bound
<1>15. ASSUME NEW p \in Runs, UndoDirectory(p)
       PROVE  PatchOutlivesMetadata'
  <2>1. publisher = p /\ UNCHANGED <<patch, meta, removals>>
    BY <1>15 DEF UndoDirectory
  <2>2. publisher' = Nothing \/ (publisher' = p /\ stuck \subseteq stuck')
    <3>1. CASE DirectoryIsEmpty /\ publisher' = Nothing /\ stuck' = {}
      BY ONLY <3>1
    <3>2. CASE Stuck(p, "directory") /\ UNCHANGED publisher
      BY ONLY <2>1, <3>2 DEF Stuck
    <3>3. QED
      BY ONLY <1>15, <3>1, <3>2 DEF UndoDirectory
  <2>3. stage'[p] = "failed"
    BY <1>15 DEF UndoDirectory
  <2>4. ASSUME publisher' = p, stuck \subseteq stuck'
        PROVE  PatchOutlivesMetadata'
    BY ONLY <2>1, <2>3, <2>4, PatchOutlivesMetadata
    DEF PatchOutlivesMetadata, Bound
  <2>5. QED
    BY <2>2, <2>4
<1>16. ASSUME NEW p \in Runs, NEW a \in Assets, HashAsset(p, a)
       PROVE  PatchOutlivesMetadata'
  BY <1>16 DEF HashAsset
<1>17. ASSUME NEW p \in Runs, ComparePatch(p)
       PROVE  PatchOutlivesMetadata'
  BY <1>17 DEF ComparePatch
<1>18. ASSUME NEW p \in Runs, CompareMetadata(p)
       PROVE  PatchOutlivesMetadata'
  BY <1>18 DEF CompareMetadata
<1>19. ASSUME NEW p \in Runs, Fail(p)
       PROVE  PatchOutlivesMetadata'
  BY <1>19 DEF Fail
<1>20. ASSUME NEW p \in Runs, Kill(p)
       PROVE  PatchOutlivesMetadata'
  BY <1>20 DEF Kill
<1>21. CASE Surroundings
  <2>1. CASE RemoveDirectory
    BY <2>1 DEF RemoveDirectory
  <2>2. CASE \E x \in Patches : EditPatch(x)
    <3>1. patch' # Nothing /\ patch # Nothing
      BY <2>2 DEF EditPatch
    <3>2. UNCHANGED <<publisher, meta, stuck, stage, removals>>
      BY <2>2 DEF EditPatch
    <3>3. QED
      BY <3>1, <3>2 DEF Bound
  <2>3. CASE \/ \E r \in Revisions \cup {Nothing} : MovePullRequest(r)
             \/ \E a \in Assets, c \in Contents : EditAsset(a, c)
    <3>1. UNCHANGED <<publisher, patch, meta, stuck, stage, removals>>
      BY <2>3 DEF MovePullRequest, EditAsset
    <3>2. QED
      BY <3>1 DEF Bound
  <2>4. QED
    BY <1>21, <2>1, <2>2, <2>3 DEF Surroundings
<1>22. CASE UNCHANGED vars
  BY <1>22 DEF vars
<1>23. QED
  BY <1>1, <1>2, <1>3, <1>4, <1>5, <1>6, <1>7, <1>8, <1>9, <1>10,
     <1>11, <1>12, <1>13, <1>14, <1>15, <1>16, <1>17, <1>18, <1>19,
     <1>20, <1>21, <1>22
  DEF Next, Start, Regenerate, Publish, Undo, Verify

\* The files stay with their publisher, the patch longest.
LEMMA FilesInvariant == Spec => [](FilesStay /\ PatchOutlivesMetadata)
<1>1. Init => FilesStay /\ PatchOutlivesMetadata
  BY DEF Init, FilesStay, PatchOutlivesMetadata, Publishing, Writing, Undoing
<1>2. /\ TypeOK /\ StagesFit /\ HashesAreComplete /\ Ownership
      /\ FilesStay /\ PatchOutlivesMetadata /\ [Next]_vars
      => FilesStay' /\ PatchOutlivesMetadata'
  BY FilesStep, PatchStep
<1>3. QED
  BY <1>1, <1>2, TypesAndStages, BindingInvariant, OwnershipInvariant, PTL
  DEF Spec

\* At most one run reports a review, and its two files stay.
THEOREM ReviewStays == Spec => []ReportedWorkspaceStays
<1>1. FilesStay => ReportedWorkspaceStays
  BY DEF FilesStay, ReportedWorkspaceStays
<1>2. QED
  BY <1>1, FilesInvariant, PTL

\* Metadata without its patch is what could not be removed.
THEOREM PatchIsThere == Spec => []MetadataComesLast
<1>1. TypeOK /\ Ownership /\ PatchOutlivesMetadata => MetadataComesLast
  BY DEF TypeOK, Ownership, DirectoryIsEmpty, PatchOutlivesMetadata,
         MetadataComesLast
<1>2. QED
  BY <1>1, TypesAndStages, OwnershipInvariant, FilesInvariant, PTL
=============================================================================
