------------------------- MODULE VaultDocumentProofs -------------------------
(* Theorems about VaultDocument, for every set of tasks and documents and   *)
(* every retry limit.                                                       *)
EXTENDS VaultDocument, TLAPS

\* The types hold initially.
LEMMA TypeInit == Init => TypeOK
BY DocumentAssumption DEF Init, TypeOK, FileOrNone, Phases, Over, Live

\* Every system call, crash and removal keeps the types.
LEMMA TypeStep == TypeOK /\ [Next]_vars => TypeOK'
<1> SUFFICES ASSUME TypeOK, [Next]_vars
             PROVE  TypeOK'
  OBVIOUS
<1> USE DocumentAssumption DEF TypeOK, FileOrNone, Phases, Over, Live, Writing, Goto,
        directory, files, disk, args, locals
<1>1. ASSUME NEW t \in Tasks, StatFound(t) \/ StatFirst(t) \/ StatConfirm(t)
      PROVE  TypeOK'
  BY <1>1 DEF StatFound, StatFirst, StatConfirm, AfterStat
<1>2. ASSUME NEW t \in Tasks, StatRace(t)
      PROVE  TypeOK'
  BY <1>2 DEF StatRace, Missed
<1>3. ASSUME NEW t \in Tasks, ReadDocument(t) \/ ReportAbsent(t)
      PROVE  TypeOK'
  BY <1>3 DEF ReadDocument, ReportAbsent
<1>4. ASSUME NEW t \in Tasks, ReadFails(t)
      PROVE  TypeOK'
  BY <1>4 DEF ReadFails, Missed
<1>5. ASSUME NEW t \in Tasks, OpenTemp(t) \/ WriteTemp(t) \/ SyncTemp(t)
      PROVE  TypeOK'
  BY <1>5 DEF OpenTemp, WriteTemp, SyncTemp
<1>6. ASSUME NEW t \in Tasks,
             LinkNoReplace(t) \/ UnlinkTemp(t) \/ SyncDirectory(t)
      PROVE  TypeOK'
  <2>1. CASE LinkNoReplace(t)
    <3>1. (target = NoFile) \in BOOLEAN
      OBVIOUS
    <3>2. won' \in [Tasks -> BOOLEAN]
      BY <2>1, <3>1, Zenon DEF LinkNoReplace
    <3>3. QED
      BY <2>1, <3>2 DEF LinkNoReplace
  <2>2. CASE UnlinkTemp(t) \/ SyncDirectory(t)
    BY <2>2 DEF UnlinkTemp, SyncDirectory
  <2>3. QED
    BY <1>6, <2>1, <2>2
<1>7. ASSUME NEW t \in Tasks, RaiseError(t) \/ Kill(t)
      PROVE  TypeOK'
  BY <1>7 DEF RaiseError, Kill
<1>8. CASE PowerLoss
  BY <1>8 DEF PowerLoss
<1>9. CASE Remove
  BY <1>9 DEF Remove
<1>10. CASE Finished \/ UNCHANGED vars
  BY <1>10 DEF Finished, vars
<1>11. QED
  BY <1>1, <1>2, <1>3, <1>4, <1>5, <1>6, <1>7, <1>8, <1>9, <1>10
  DEF Next, Ensure, Read, ExclusiveCreate

\* Every variable keeps its type: link counts, descriptors and retries too.
THEOREM TypeCorrect == Spec => []TypeOK
BY TypeInit, TypeStep, PTL DEF Spec

-----------------------------------------------------------------------------
\* The data of a file reaches the disk before the file can be published.
LEMMA FlushedStep ==
  TypeOK /\ PublishedIsFlushed /\ [Next]_vars => PublishedIsFlushed'
<1> SUFFICES ASSUME TypeOK, PublishedIsFlushed, [Next]_vars
             PROVE  PublishedIsFlushed'
  OBVIOUS
<1> USE DocumentAssumption DEF PublishedIsFlushed, TypeOK, FileOrNone, Phases,
        Over, Live, Writing, Goto, directory, files, disk, args, locals
<1>1. ASSUME NEW t \in Tasks, StatFound(t) \/ StatFirst(t) \/ StatConfirm(t)
      PROVE  PublishedIsFlushed'
  BY <1>1 DEF StatFound, StatFirst, StatConfirm, AfterStat
<1>2. ASSUME NEW t \in Tasks, StatRace(t)
      PROVE  PublishedIsFlushed'
  BY <1>2 DEF StatRace, Missed
<1>3. ASSUME NEW t \in Tasks, ReadDocument(t) \/ ReportAbsent(t)
      PROVE  PublishedIsFlushed'
  BY <1>3 DEF ReadDocument, ReportAbsent
<1>4. ASSUME NEW t \in Tasks, ReadFails(t)
      PROVE  PublishedIsFlushed'
  BY <1>4 DEF ReadFails, Missed
<1>5. ASSUME NEW t \in Tasks, OpenTemp(t) \/ WriteTemp(t) \/ SyncTemp(t)
      PROVE  PublishedIsFlushed'
  BY <1>5 DEF OpenTemp, WriteTemp, SyncTemp
<1>6. ASSUME NEW t \in Tasks,
             LinkNoReplace(t) \/ UnlinkTemp(t) \/ SyncDirectory(t)
      PROVE  PublishedIsFlushed'
  BY <1>6 DEF LinkNoReplace, UnlinkTemp, SyncDirectory
<1>7. ASSUME NEW t \in Tasks, RaiseError(t) \/ Kill(t)
      PROVE  PublishedIsFlushed'
  BY <1>7 DEF RaiseError, Kill
<1>8. CASE PowerLoss
  BY <1>8 DEF PowerLoss
<1>9. CASE Remove
  BY <1>9 DEF Remove
<1>10. CASE Finished \/ UNCHANGED vars
  BY <1>10 DEF Finished, vars
<1>11. QED
  BY <1>1, <1>2, <1>3, <1>4, <1>5, <1>6, <1>7, <1>8, <1>9, <1>10
  DEF Next, Ensure, Read, ExclusiveCreate

\* A target is complete at every moment, through kills, failed system calls,
\* removals and power losses: the data is fsynced before os.link.
THEOREM NoPartialDocument == Spec => []TargetIsComplete
<1>1. Init => PublishedIsFlushed
  BY DEF Init, PublishedIsFlushed
<1>2. TypeOK /\ PublishedIsFlushed => TargetIsComplete
  BY DEF PublishedIsFlushed, TargetIsComplete, TypeOK
<1>3. QED
  BY <1>1, <1>2, FlushedStep, TypeInit, TypeStep, PTL DEF Spec

-----------------------------------------------------------------------------
\* A validated read is the only step that returns something.
LEMMA ReturnedStep ==
  TypeOK /\ PublishedIsFlushed /\ ReturnedIsFlushed /\ [Next]_vars
    => ReturnedIsFlushed'
<1> SUFFICES ASSUME TypeOK, PublishedIsFlushed, ReturnedIsFlushed, [Next]_vars
             PROVE  ReturnedIsFlushed'
  OBVIOUS
<1> USE DocumentAssumption DEF ReturnedIsFlushed, directory, files, disk, args,
        locals
<1>1. ASSUME NEW t \in Tasks, ReadDocument(t)
      PROVE  ReturnedIsFlushed'
  <2>1. target \in flushed /\ want[target] = want[t]
    BY <1>1 DEF ReadDocument, ReadOK, Readable, Validates, PublishedIsFlushed
  <2>2. digest' = [digest EXCEPT ![t] = target] /\ UNCHANGED <<flushed, want>>
    BY <1>1 DEF ReadDocument
  <2>3. QED
    BY <2>1, <2>2 DEF TypeOK
<1>2. ASSUME NEW t \in Tasks, SyncTemp(t)
      PROVE  ReturnedIsFlushed'
  BY <1>2 DEF SyncTemp, TypeOK
<1>3. ASSUME NEW t \in Tasks,
             \/ StatFound(t) \/ StatFirst(t) \/ StatConfirm(t) \/ StatRace(t)
             \/ ReadFails(t) \/ ReportAbsent(t) \/ OpenTemp(t) \/ WriteTemp(t)
             \/ LinkNoReplace(t) \/ UnlinkTemp(t) \/ SyncDirectory(t)
             \/ RaiseError(t) \/ Kill(t)
      PROVE  ReturnedIsFlushed'
  <2>1. UNCHANGED <<flushed, want, digest>>
    BY <1>3 DEF StatFound, StatFirst, StatConfirm, StatRace, ReadFails,
       ReportAbsent, OpenTemp, WriteTemp, LinkNoReplace, UnlinkTemp,
       SyncDirectory, RaiseError, Kill
  <2>2. QED
    BY <2>1
<1>4. CASE PowerLoss \/ Remove \/ Finished \/ UNCHANGED vars
  BY <1>4 DEF PowerLoss, Remove, Finished, vars
<1>5. QED
  BY <1>1, <1>2, <1>3, <1>4 DEF Next, Ensure, Read, ExclusiveCreate

\* Whatever is returned is complete and answers the request, though documents
\* are removed and replaced and the controller loses power.
THEOREM ReturnedDocumentIsValid == Spec => []ReturnedIsValid
<1>1. Init => PublishedIsFlushed /\ ReturnedIsFlushed
  BY DEF Init, PublishedIsFlushed, ReturnedIsFlushed
<1>2. PublishedIsFlushed /\ ReturnedIsFlushed => ReturnedIsValid
  BY DEF PublishedIsFlushed, ReturnedIsFlushed, ReturnedIsValid, Validates
<1>3. QED
  BY <1>1, <1>2, FlushedStep, ReturnedStep, TypeInit, TypeStep, PTL DEF Spec

-----------------------------------------------------------------------------
\* Without power losses and removals the target is written once, so a digest
\* that was returned stays the digest of the target.
LEMMA AgreeStep ==
  ASSUME ~PowerFails, ~Removals
  PROVE  TypeOK /\ AgreeOnDocument /\ [Next]_vars =>
           AgreeOnDocument' /\ (target = NoFile \/ target' = target)
<1> SUFFICES ASSUME TypeOK, AgreeOnDocument, [Next]_vars
             PROVE  AgreeOnDocument' /\ (target = NoFile \/ target' = target)
  OBVIOUS
<1> USE DocumentAssumption DEF AgreeOnDocument, TypeOK, FileOrNone, Phases,
        Over, Live, Writing, Goto, directory, files, disk, args, locals
<1> DEFINE Goal == AgreeOnDocument' /\ (target = NoFile \/ target' = target)
<1>1. ASSUME NEW t \in Tasks, StatFound(t) \/ StatFirst(t) \/ StatConfirm(t)
      PROVE  Goal
  BY <1>1 DEF StatFound, StatFirst, StatConfirm
<1>2. ASSUME NEW t \in Tasks, StatRace(t) \/ ReadFails(t) \/ ReportAbsent(t)
      PROVE  Goal
  BY <1>2 DEF StatRace, ReadFails, ReportAbsent, Missed
<1>3. ASSUME NEW t \in Tasks, ReadDocument(t)
      PROVE  Goal
  BY <1>3 DEF ReadDocument, ReadOK, Readable, Validates
<1>4. ASSUME NEW t \in Tasks, OpenTemp(t) \/ WriteTemp(t) \/ SyncTemp(t)
      PROVE  Goal
  BY <1>4 DEF OpenTemp, WriteTemp, SyncTemp
<1>5. ASSUME NEW t \in Tasks, LinkNoReplace(t)
      PROVE  Goal
  BY <1>5 DEF LinkNoReplace
<1>6. ASSUME NEW t \in Tasks,
             UnlinkTemp(t) \/ SyncDirectory(t) \/ RaiseError(t) \/ Kill(t)
      PROVE  Goal
  BY <1>6 DEF UnlinkTemp, SyncDirectory, RaiseError, Kill
<1>7. CASE Finished \/ UNCHANGED vars
  BY <1>7 DEF Finished, vars
<1>8. QED
  BY <1>1, <1>2, <1>3, <1>4, <1>5, <1>6, <1>7
  DEF Next, Ensure, Read, ExclusiveCreate, PowerLoss, Remove

\* Every task that returns a document returns the same one.
THEOREM Agreement ==
  ASSUME ~PowerFails, ~Removals
  PROVE  Spec => []AgreeOnDocument
<1>1. Init => AgreeOnDocument
  BY DEF Init, AgreeOnDocument
<1>2. QED
  BY <1>1, AgreeStep, TypeInit, TypeStep, PTL DEF Spec

-----------------------------------------------------------------------------
\* No step gives a digest to a task that is not done.
LEMMA DigestStep ==
  TypeOK /\ DigestIsFinal /\ [Next]_vars => DigestIsFinal'
<1> SUFFICES ASSUME TypeOK, DigestIsFinal, [Next]_vars
             PROVE  DigestIsFinal'
  OBVIOUS
<1> USE DEF DigestIsFinal, TypeOK, FileOrNone, Phases, Over, Live, Writing, Goto,
        directory, files, disk, args, locals
<1>1. ASSUME NEW t \in Tasks,
             StatFound(t) \/ StatFirst(t) \/ StatConfirm(t) \/ ReportAbsent(t)
      PROVE  DigestIsFinal'
  BY <1>1 DEF StatFound, StatFirst, StatConfirm, ReportAbsent, AfterStat
<1>2. ASSUME NEW t \in Tasks, StatRace(t) \/ ReadFails(t)
      PROVE  DigestIsFinal'
  BY <1>2 DEF StatRace, ReadFails, Missed
<1>3. ASSUME NEW t \in Tasks, ReadDocument(t)
      PROVE  DigestIsFinal'
  BY <1>3 DEF ReadDocument
<1>4. ASSUME NEW t \in Tasks, ExclusiveCreate(t)
      PROVE  DigestIsFinal'
  BY <1>4 DEF ExclusiveCreate, OpenTemp, WriteTemp, SyncTemp, LinkNoReplace,
     UnlinkTemp, SyncDirectory
<1>5. ASSUME NEW t \in Tasks, RaiseError(t) \/ Kill(t)
      PROVE  DigestIsFinal'
  BY <1>5 DEF RaiseError, Kill
<1>6. CASE PowerLoss \/ Remove \/ Finished \/ UNCHANGED vars
  BY <1>6 DEF PowerLoss, Remove, Finished, vars
<1>7. QED
  BY <1>1, <1>2, <1>3, <1>4, <1>5, <1>6 DEF Next, Ensure, Read

\* VaultDocument implements DocumentConsensus: os.link chooses the document, a
\* successful readback decides for it, and every other step is a stutter.
THEOREM ImplementsConsensus ==
  ASSUME ~PowerFails, ~Removals
  PROVE  Spec => ConsensusSpec
<1>1. Init => Consensus!Init /\ DigestIsFinal
  BY DEF Init, Consensus!Init, DigestIsFinal
<1>2. TypeOK /\ DigestIsFinal /\ [Next]_vars
        => [Consensus!Next]_<<target, digest>>
  <2> SUFFICES ASSUME TypeOK, DigestIsFinal, [Next]_vars
               PROVE  Consensus!Next \/ UNCHANGED <<target, digest>>
    OBVIOUS
  <2> USE DEF directory, files, disk, args, locals
  <2>1. ASSUME NEW t \in Tasks, LinkNoReplace(t)
        PROVE  Consensus!Next \/ UNCHANGED <<target, digest>>
    BY <2>1 DEF LinkNoReplace, Consensus!Next, Consensus!Choose
  <2>2. ASSUME NEW t \in Tasks, ReadDocument(t)
        PROVE  Consensus!Next
    <3>1. digest[t] = NoFile
      BY <2>2 DEF DigestIsFinal, ReadDocument
    <3>2. Consensus!Decide(t)
      BY <2>2, <3>1 DEF ReadDocument, ReadOK, Readable, Consensus!Decide
    <3>3. QED
      BY <3>2 DEF Consensus!Next
  <2>3. CASE \A t \in Tasks : ~LinkNoReplace(t) /\ ~ReadDocument(t)
    BY <2>3 DEF Next, Ensure, Read, ExclusiveCreate, vars, StatFound,
       StatFirst, StatConfirm, StatRace, ReadFails, ReportAbsent, OpenTemp,
       WriteTemp, SyncTemp, UnlinkTemp, SyncDirectory, RaiseError, Kill,
       PowerLoss, Remove, Finished
  <2>4. QED
    BY <2>1, <2>2, <2>3
<1>3. QED
  BY <1>1, <1>2, DigestStep, TypeInit, TypeStep, PTL
  DEF Spec, ConsensusSpec, Consensus!Spec

-----------------------------------------------------------------------------
\* A published file never goes back to being unpublished.
LEMMA LinkedStep ==
  TypeOK /\ PublishedWasLinked /\ [Next]_vars => PublishedWasLinked'
<1> SUFFICES ASSUME TypeOK, PublishedWasLinked, [Next]_vars
             PROVE  PublishedWasLinked'
  OBVIOUS
<1> USE DocumentAssumption DEF PublishedWasLinked, Unpublished, TypeOK,
        FileOrNone, Phases, Over, Live, Writing, Goto, directory, files, disk, args,
        locals
<1>1. ASSUME NEW t \in Tasks,
             StatFound(t) \/ StatFirst(t) \/ StatConfirm(t) \/ ReportAbsent(t)
      PROVE  PublishedWasLinked'
  BY <1>1 DEF StatFound, StatFirst, StatConfirm, ReportAbsent, AfterStat
<1>2. ASSUME NEW t \in Tasks, StatRace(t) \/ ReadFails(t)
      PROVE  PublishedWasLinked'
  BY <1>2 DEF StatRace, ReadFails, Missed
<1>3. ASSUME NEW t \in Tasks, ReadDocument(t)
      PROVE  PublishedWasLinked'
  BY <1>3 DEF ReadDocument, ReadOK, Readable
<1>4. ASSUME NEW t \in Tasks, OpenTemp(t) \/ WriteTemp(t) \/ SyncTemp(t)
      PROVE  PublishedWasLinked'
  BY <1>4 DEF OpenTemp, WriteTemp, SyncTemp
<1>5. ASSUME NEW t \in Tasks,
             LinkNoReplace(t) \/ UnlinkTemp(t) \/ SyncDirectory(t)
      PROVE  PublishedWasLinked'
  BY <1>5 DEF LinkNoReplace, UnlinkTemp, SyncDirectory
<1>6. ASSUME NEW t \in Tasks, RaiseError(t) \/ Kill(t)
      PROVE  PublishedWasLinked'
  BY <1>6 DEF RaiseError, Kill
<1>7. CASE PowerLoss
  BY <1>7 DEF PowerLoss
<1>8. CASE Remove \/ Finished \/ UNCHANGED vars
  BY <1>8 DEF Remove, Finished, vars
<1>9. QED
  BY <1>1, <1>2, <1>3, <1>4, <1>5, <1>6, <1>7, <1>8
  DEF Next, Ensure, Read, ExclusiveCreate

\* What a writer has fsynced stays what is at the path.
LEMMA DurableStep ==
  ASSUME ~Removals
  PROVE  TypeOK /\ PublishedIsFlushed /\ PublishedWasLinked /\ WriterIsDurable
         /\ [Next]_vars => WriterIsDurable'
<1> SUFFICES ASSUME TypeOK, PublishedIsFlushed, PublishedWasLinked,
                    WriterIsDurable, [Next]_vars
             PROVE  WriterIsDurable'
  OBVIOUS
<1> USE DocumentAssumption DEF WriterIsDurable, Returned, TypeOK, FileOrNone,
        Phases, Over, Live, Writing, Goto, directory, files, disk, args, locals
<1>1. ASSUME NEW t \in Tasks, StatFound(t) \/ StatFirst(t) \/ StatConfirm(t)
      PROVE  WriterIsDurable'
  BY <1>1 DEF StatFound, StatFirst, StatConfirm, AfterStat, PublishedIsFlushed
<1>2. ASSUME NEW t \in Tasks, StatRace(t) \/ ReadFails(t)
      PROVE  WriterIsDurable'
  <2>1. pc[t] = "reading" => t \notin flushed
    BY DEF PublishedIsFlushed
  <2>2. CASE pc' = [pc EXCEPT ![t] = "failed"]
    BY <1>2, <2>2 DEF StatRace, ReadFails, Missed
  <2>3. CASE pc' = [pc EXCEPT ![t] = "race"]
    BY <1>2, <2>1, <2>3 DEF StatRace, ReadFails, Missed
  <2>4. QED
    BY <1>2, <2>2, <2>3 DEF StatRace, ReadFails, Missed
<1>3. ASSUME NEW t \in Tasks, ReadDocument(t) \/ ReportAbsent(t)
      PROVE  WriterIsDurable'
  BY <1>3 DEF ReadDocument, ReadOK, Readable, ReportAbsent, PublishedIsFlushed
<1>4. ASSUME NEW t \in Tasks, OpenTemp(t) \/ WriteTemp(t) \/ SyncTemp(t)
      PROVE  WriterIsDurable'
  BY <1>4 DEF OpenTemp, WriteTemp, SyncTemp
<1>5. ASSUME NEW t \in Tasks, LinkNoReplace(t)
      PROVE  WriterIsDurable'
  BY <1>5 DEF LinkNoReplace, PublishedWasLinked, Unpublished
<1>6. ASSUME NEW t \in Tasks, UnlinkTemp(t) \/ SyncDirectory(t)
      PROVE  WriterIsDurable'
  BY <1>6 DEF UnlinkTemp, SyncDirectory
<1>7. ASSUME NEW t \in Tasks, RaiseError(t) \/ Kill(t)
      PROVE  WriterIsDurable'
  BY <1>7 DEF RaiseError, Kill
<1>8. CASE PowerLoss
  BY <1>8 DEF PowerLoss
<1>9. CASE Remove \/ Finished \/ UNCHANGED vars
  BY <1>9 DEF Remove, Finished, vars
<1>10. QED
  BY <1>1, <1>2, <1>3, <1>4, <1>5, <1>6, <1>7, <1>8, <1>9
  DEF Next, Ensure, Read, ExclusiveCreate

\* Nor does an operator's removal, or a power loss that undoes it, part a
\* winner's document from the disk.
LEMMA WinnerStep ==
  TypeOK /\ PublishedIsFlushed /\ WinnerIsDurable /\ [Next]_vars
    => WinnerIsDurable'
<1> SUFFICES ASSUME TypeOK, PublishedIsFlushed, WinnerIsDurable, [Next]_vars
             PROVE  WinnerIsDurable'
  OBVIOUS
<1> USE DocumentAssumption DEF WinnerIsDurable, TypeOK, FileOrNone,
        Phases, Over, Live, Writing, Goto, directory, files, disk, args, locals
<1>1. ASSUME NEW t \in Tasks, StatFound(t) \/ StatFirst(t) \/ StatConfirm(t)
      PROVE  WinnerIsDurable'
  BY <1>1 DEF StatFound, StatFirst, StatConfirm, AfterStat, PublishedIsFlushed
<1>2. ASSUME NEW t \in Tasks, StatRace(t) \/ ReadFails(t)
      PROVE  WinnerIsDurable'
  <2>1. pc[t] = "reading" => t \notin flushed
    BY DEF PublishedIsFlushed
  <2>2. CASE pc' = [pc EXCEPT ![t] = "failed"]
    BY <1>2, <2>2 DEF StatRace, ReadFails, Missed
  <2>3. CASE pc' = [pc EXCEPT ![t] = "race"]
    BY <1>2, <2>1, <2>3 DEF StatRace, ReadFails, Missed
  <2>4. QED
    BY <1>2, <2>2, <2>3 DEF StatRace, ReadFails, Missed
<1>3. ASSUME NEW t \in Tasks, ReadDocument(t) \/ ReportAbsent(t)
      PROVE  WinnerIsDurable'
  BY <1>3 DEF ReadDocument, ReadOK, Readable, ReportAbsent, PublishedIsFlushed
<1>4. ASSUME NEW t \in Tasks, OpenTemp(t) \/ WriteTemp(t) \/ SyncTemp(t)
      PROVE  WinnerIsDurable'
  BY <1>4 DEF OpenTemp, WriteTemp, SyncTemp
<1>5. ASSUME NEW t \in Tasks, LinkNoReplace(t)
      PROVE  WinnerIsDurable'
  BY <1>5 DEF LinkNoReplace
<1>6. ASSUME NEW t \in Tasks, UnlinkTemp(t) \/ SyncDirectory(t)
      PROVE  WinnerIsDurable'
  BY <1>6 DEF UnlinkTemp, SyncDirectory
<1>7. ASSUME NEW t \in Tasks, RaiseError(t) \/ Kill(t)
      PROVE  WinnerIsDurable'
  BY <1>7 DEF RaiseError, Kill
<1>8. CASE PowerLoss
  BY <1>8 DEF PowerLoss
<1>9. CASE Remove \/ Finished \/ UNCHANGED vars
  BY <1>9 DEF Remove, Finished, vars
<1>10. QED
  BY <1>1, <1>2, <1>3, <1>4, <1>5, <1>6, <1>7, <1>8, <1>9
  DEF Next, Ensure, Read, ExclusiveCreate

\* Only a removal, or a power loss that the document is not on disk for, takes
\* the document from the path.
LEMMA TargetStays ==
  ASSUME TypeOK, Next, NEW t \in Tasks, target = digest[t],
         digest[t] # NoFile, diskTarget = target
  PROVE  target' = digest[t] \/ parent' = "missing" \/ Remove
<1>1. CASE PowerLoss
  BY <1>1 DEF PowerLoss
<1>2. CASE ~PowerLoss
  BY <1>2 DEF Next, Ensure, Read, ExclusiveCreate, StatFound,
     StatFirst, StatConfirm, StatRace, ReadDocument, ReadFails, ReportAbsent,
     OpenTemp, WriteTemp, SyncTemp, LinkNoReplace, UnlinkTemp, SyncDirectory,
     RaiseError, Kill, Finished, directory, vars
<1>3. QED
  BY <1>1, <1>2

\* A returned writer's document outlives every crash that leaves its
\* directory in place, whether it won the race or lost it (fsync of the
\* directory before the report).
LEMMA ReportedSurvivesUndisturbed ==
  ASSUME ~Removals
  PROVE  Spec => ReportedSurvives
<1> DEFINE IInv == TypeOK /\ PublishedIsFlushed /\ PublishedWasLinked
                   /\ WriterIsDurable
<1>1. Init => IInv
  <2>1. Init => PublishedIsFlushed /\ PublishedWasLinked /\ WriterIsDurable
    BY DEF Init, PublishedIsFlushed, PublishedWasLinked, WriterIsDurable,
       Returned
  <2>2. QED
    BY <2>1, TypeInit
<1>2. IInv /\ [Next]_vars => IInv'
  BY TypeStep, FlushedStep, LinkedStep, DurableStep
<1>3. IInv /\ [Next]_vars =>
        [\A t \in Tasks :
           /\ pc[t] = "done" /\ t \in flushed
           /\ target = digest[t] /\ (Removals => digest[t] = t)
           => target' = digest[t] \/ parent' = "missing" \/ Remove]_vars
  <2> SUFFICES ASSUME IInv, Next, NEW t \in Tasks,
                      pc[t] = "done", t \in flushed, target = digest[t]
               PROVE  target' = digest[t] \/ parent' = "missing" \/ Remove
    BY DEF vars
  <2>1. target # NoFile /\ diskTarget = target
    BY DEF WriterIsDurable, Returned
  <2>2. QED
    BY <2>1, TargetStays
<1>4. QED
  BY <1>1, <1>2, <1>3, PTL DEF Spec, ReportedSurvives

\* Where documents are removed meanwhile, a winner's document outlives every
\* crash until it is removed itself (fsync of the directory before the report).
LEMMA ReportedSurvivesDisturbed ==
  ASSUME Removals
  PROVE  Spec => ReportedSurvives
<1> DEFINE IInv == TypeOK /\ PublishedIsFlushed /\ WinnerIsDurable
<1>1. Init => IInv
  <2>1. Init => PublishedIsFlushed /\ WinnerIsDurable
    BY DEF Init, PublishedIsFlushed, WinnerIsDurable
  <2>2. QED
    BY <2>1, TypeInit
<1>2. IInv /\ [Next]_vars => IInv'
  BY TypeStep, FlushedStep, WinnerStep
<1>3. IInv /\ [Next]_vars =>
        [\A t \in Tasks :
           /\ pc[t] = "done" /\ t \in flushed
           /\ target = digest[t] /\ (Removals => digest[t] = t)
           => target' = digest[t] \/ parent' = "missing" \/ Remove]_vars
  <2> SUFFICES ASSUME IInv, Next, NEW t \in Tasks,
                      pc[t] = "done", t \in flushed,
                      target = digest[t], digest[t] = t
               PROVE  target' = digest[t] \/ parent' = "missing" \/ Remove
    BY DEF vars
  <2>1. digest[t] # NoFile /\ diskTarget = target
    BY DocumentAssumption DEF WinnerIsDurable
  <2>2. QED
    BY <2>1, TargetStays
<1>4. QED
  BY <1>1, <1>2, <1>3, PTL DEF Spec, ReportedSurvives

\* A returned writer's document outlives every crash that leaves its
\* directory in place (fsync of the directory before the report).
THEOREM ReportedDocumentSurvives == Spec => ReportedSurvives
<1>1. CASE Removals
  BY <1>1, ReportedSurvivesDisturbed
<1>2. CASE ~Removals
  BY <1>2, ReportedSurvivesUndisturbed
<1>3. QED
  BY <1>1, <1>2
-----------------------------------------------------------------------------
\* Without removals a document that is on disk stays at the path.
LEMMA EstablishedStep ==
  ASSUME ~Removals
  PROVE  TypeOK /\ PathIsEstablished /\ [Next]_vars => PathIsEstablished'
<1> SUFFICES ASSUME TypeOK, PathIsEstablished, [Next]_vars
             PROVE  PathIsEstablished'
  OBVIOUS
<1> USE DEF PathIsEstablished, directory, files, disk, args, locals
<1>1. ASSUME NEW t \in Tasks, OpenTemp(t) \/ LinkNoReplace(t) \/ SyncDirectory(t)
      PROVE  PathIsEstablished'
  BY <1>1 DEF OpenTemp, LinkNoReplace, SyncDirectory
<1>2. CASE PowerLoss
  BY <1>2 DEF PowerLoss
<1>3. CASE UNCHANGED <<target, parent, diskTarget>>
  BY <1>3
<1>4. QED
  BY <1>1, <1>2, <1>3
  DEF Next, Ensure, Read, ExclusiveCreate, StatFound, StatFirst, StatConfirm,
      StatRace, ReadDocument, ReadFails, ReportAbsent, WriteTemp, SyncTemp,
      UnlinkTemp, RaiseError, Kill, Remove, Finished, vars

\* In a directory that is on disk the writers reach a consensus that survives
\* power losses: the first directory fsync, or the first power loss that keeps
\* the link, chooses the document, a writer's successful readback decides for
\* it, and nothing that a crash takes back was ever decided.
THEOREM ImplementsDurableConsensus ==
  ASSUME ~Removals
  PROVE  EstablishedSpec => DurableConsensusSpec
<1> DEFINE IInv == /\ TypeOK /\ PublishedIsFlushed /\ PublishedWasLinked
                   /\ WriterIsDurable /\ DigestIsFinal /\ PathIsEstablished
           decided == [t \in Tasks |-> IF t \in flushed THEN digest[t] ELSE NoFile]
           Step == DurableConsensus!Next \/ UNCHANGED <<diskTarget, decided>>
<1>1. Init /\ parent = "durable" => IInv /\ DurableConsensus!Init
  <2> SUFFICES ASSUME Init, parent = "durable"
               PROVE  IInv /\ DurableConsensus!Init
    OBVIOUS
  <2>1. /\ PublishedIsFlushed /\ PublishedWasLinked /\ WriterIsDurable
        /\ DigestIsFinal /\ PathIsEstablished
    BY DEF Init, PublishedIsFlushed, PublishedWasLinked, WriterIsDurable,
       Returned, DigestIsFinal, PathIsEstablished
  <2>2. DurableConsensus!Init
    BY DEF Init, DurableConsensus!Init
  <2>3. QED
    BY <2>1, <2>2, TypeInit
<1>2. IInv /\ [Next]_vars => IInv'
  BY TypeStep, FlushedStep, LinkedStep, DurableStep, DigestStep, EstablishedStep
<1>3. IInv /\ [Next]_vars => [DurableConsensus!Next]_<<diskTarget, decided>>
  <2> SUFFICES ASSUME IInv, [Next]_vars
               PROVE  Step
    OBVIOUS
  <2> USE DEF directory, files, disk, args, locals
  <2>1. ASSUME NEW t \in Tasks, SyncDirectory(t)
        PROVE  Step
    <3>1. target \in Tasks /\ diskTarget' = target /\ UNCHANGED decided
      BY <2>1 DEF SyncDirectory, WriterIsDurable, TypeOK, FileOrNone
    <3>2. CASE diskTarget = NoFile
      BY <3>1, <3>2 DEF DurableConsensus!Next, DurableConsensus!Choose
    <3>3. CASE diskTarget # NoFile
      BY <3>1, <3>3 DEF PathIsEstablished
    <3>4. QED
      BY <3>2, <3>3
  <2>2. CASE PowerLoss
    <3>1. diskTarget' \in {target, diskTarget} /\ UNCHANGED decided
      BY <2>2 DEF PowerLoss, PathIsEstablished
    <3>2. CASE diskTarget' = diskTarget
      BY <3>1, <3>2
    <3>3. CASE diskTarget' # diskTarget
      <4>1. diskTarget = NoFile /\ diskTarget' = target /\ target \in Tasks
        BY <3>1, <3>3 DEF PathIsEstablished, TypeOK, FileOrNone
      <4>2. DurableConsensus!Choose(target)
        BY <3>1, <4>1 DEF DurableConsensus!Choose
      <4>3. QED
        BY <4>1, <4>2 DEF DurableConsensus!Next
    <3>4. QED
      BY <3>2, <3>3
  <2>3. ASSUME NEW t \in Tasks, ReadDocument(t)
        PROVE  Step
    <3>1. /\ digest' = [digest EXCEPT ![t] = target]
          /\ UNCHANGED <<diskTarget, flushed>>
          /\ pc[t] \in {"reading", "confirming", "racing"}
      BY <2>3 DEF ReadDocument
    <3>2. CASE t \in flushed
      <4>1. diskTarget = target /\ target # NoFile
        BY <3>1, <3>2 DEF PublishedIsFlushed, WriterIsDurable
      <4>2. decided[t] = NoFile
        BY <3>1 DEF DigestIsFinal
      <4>3. decided' = [decided EXCEPT ![t] = diskTarget]
        BY <3>1, <3>2, <4>1 DEF TypeOK
      <4>4. DurableConsensus!Decide(t)
        BY <3>1, <4>1, <4>2, <4>3 DEF DurableConsensus!Decide
      <4>5. QED
        BY <4>4 DEF DurableConsensus!Next
    <3>3. CASE t \notin flushed
      BY <3>1, <3>3 DEF TypeOK
    <3>4. QED
      BY <3>2, <3>3
  <2>4. ASSUME NEW t \in Tasks, SyncTemp(t)
        PROVE  Step
    <3>1. digest[t] = NoFile
      BY <2>4 DEF SyncTemp, DigestIsFinal
    <3>2. decided' = decided
      BY <2>4, <3>1 DEF SyncTemp
    <3>3. QED
      BY <2>4, <3>2 DEF SyncTemp
  <2>5. CASE UNCHANGED <<diskTarget, digest, flushed>>
    BY <2>5
  <2>6. QED
    BY <2>1, <2>2, <2>3, <2>4, <2>5
    DEF Next, Ensure, Read, ExclusiveCreate, StatFound, StatFirst, StatConfirm,
        StatRace, ReadFails, ReportAbsent, OpenTemp, WriteTemp, LinkNoReplace,
        UnlinkTemp, RaiseError, Kill, Remove, Finished, vars
<1>4. QED
  BY <1>1, <1>2, <1>3, PTL
  DEF Spec, EstablishedSpec, DurableConsensusSpec, DurableConsensus!Spec

-----------------------------------------------------------------------------
\* What StepsFrom is, and that it is never negative.
LEMMA StepsFromIs ==
  ASSUME NEW n \in 0 .. Retries
  PROVE  /\ StepsFrom("start", n) = 2 * Retries + 7
         /\ StepsFrom("reading", n) = 2 * Retries + 1
         /\ StepsFrom("absent", n) = 2 * Retries + 6
         /\ StepsFrom("staged", n) = 2 * Retries + 5
         /\ StepsFrom("written", n) = 2 * Retries + 4
         /\ StepsFrom("synced", n) = 2 * Retries + 3
         /\ StepsFrom("linked", n) = 2 * Retries + 2
         /\ StepsFrom("unlinked", n) = 2 * Retries + 1
         /\ StepsFrom("confirm", n) = 2
         /\ StepsFrom("confirming", n) = 1
         /\ StepsFrom("race", n) = 2 * (Retries - n)
         /\ StepsFrom("racing", n) = 2 * (Retries - n) - 1
         /\ \A over \in Over : StepsFrom(over, n) = 0
BY DEF StepsFrom, Over

LEMMA StepsLeftIsNatural ==
  ASSUME NEW phase \in Phases, NEW n \in 0 .. Retries,
         phase \notin Over => n < Retries
  PROVE  StepsFrom(phase, n) \in Nat
<1> DEFINE S == StepsFrom(phase, n)
<1>1. CASE phase \in Over
  BY <1>1, StepsFromIs
<1>2. CASE phase \in Writing \cup {"start", "reading", "confirm", "confirming"}
  BY <1>2, StepsFromIs, DocumentAssumption DEF Writing
<1>3. CASE phase \in {"race", "racing"}
  <2>1. n < Retries /\ n \in Nat /\ Retries \in Nat
    BY <1>3, DocumentAssumption DEF Over
  <2>2. QED
    BY <1>3, <2>1, StepsFromIs
<1>4. QED
  BY <1>1, <1>2, <1>3 DEF Phases, Live

\* A failed read of the race loop uses up an attempt.
LEMMA MissedNears ==
  ASSUME TypeOK, NEW t \in Tasks, pc[t] \in {"race", "racing"}, Missed(t)
  PROVE  StepsFrom(pc'[t], attempts'[t]) < StepsFrom(pc[t], attempts[t])
<1>1. attempts[t] \in 0 .. Retries /\ attempts[t] < Retries
  BY DEF TypeOK
<1>2. StepsFrom(pc[t], attempts[t])
        \in {2 * (Retries - attempts[t]), 2 * (Retries - attempts[t]) - 1}
  BY <1>1, StepsFromIs
<1>3. attempts'[t] = attempts[t] + 1 /\ attempts'[t] \in 0 .. Retries
  BY <1>1, DocumentAssumption DEF Missed, TypeOK
<1>4. CASE pc'[t] = "race"
  <2>1. StepsFrom(pc'[t], attempts'[t]) = 2 * (Retries - (attempts[t] + 1))
    BY <1>3, <1>4, StepsFromIs
  <2>2. QED
    BY <1>1, <1>2, <2>1, DocumentAssumption
<1>5. CASE pc'[t] = "failed"
  <2>1. StepsFrom(pc'[t], attempts'[t]) = 0
    BY <1>3, <1>5, StepsFromIs DEF Over
  <2>2. QED
    BY <1>1, <1>2, <2>1, DocumentAssumption
<1>6. QED
  BY <1>4, <1>5 DEF Missed, Goto, TypeOK

\* A task's own step brings it nearer to its end.
LEMMA StepNears ==
  ASSUME TypeOK, NEW t \in Tasks, Ensure(t)
  PROVE  StepsFrom(pc'[t], attempts'[t]) < StepsFrom(pc[t], attempts[t])
<1> DEFINE n == attempts[t]
<1>1. n \in 0 .. Retries /\ (pc[t] \notin Over => n < Retries)
  BY DEF TypeOK, Over
<1> USE <1>1, StepsFromIs, DocumentAssumption DEF Goto, TypeOK, Over
<1>2. CASE StatFound(t)
  <2>1. attempts'[t] = n /\ pc[t] \in {"start", "confirm", "race"}
    BY <1>2 DEF StatFound, locals
  <2>2. \/ pc[t] = "start" /\ pc'[t] = "reading"
        \/ pc[t] = "confirm" /\ pc'[t] = "confirming"
        \/ pc[t] = "race" /\ pc'[t] = "racing"
    BY <1>2, <2>1 DEF StatFound, AfterStat
  <2>3. QED
    BY <2>1, <2>2
<1>3. CASE StatFirst(t) \/ StatConfirm(t)
  <2>1. /\ attempts'[t] = n
        /\ \/ pc[t] = "start" /\ pc'[t] \in {"absent", "race"}
           \/ pc[t] = "confirm" /\ pc'[t] = "failed"
    BY <1>3 DEF StatFirst, StatConfirm, locals
  <2>2. QED
    BY <2>1
<1>4. CASE StatRace(t)
  BY <1>4, MissedNears DEF StatRace
<1>5. CASE ReadDocument(t) \/ ReportAbsent(t)
  <2>1. /\ attempts'[t] = n /\ pc'[t] = "done"
        /\ pc[t] \in {"reading", "confirming", "racing", "absent"}
    BY <1>5 DEF ReadDocument, ReportAbsent, locals
  <2>2. QED
    BY <2>1
<1>6. CASE ReadFails(t)
  <2>1. CASE pc[t] = "racing"
    BY <1>6, <2>1, MissedNears DEF ReadFails
  <2>2. CASE pc[t] # "racing"
    <3>1. /\ attempts'[t] = n /\ pc'[t] \in {"failed", "race"}
          /\ \/ pc[t] = "reading"
             \/ pc[t] = "confirming" /\ pc'[t] = "failed"
      BY <1>6, <2>2 DEF ReadFails
    <3>2. QED
      BY <3>1
  <2>3. QED
    BY <2>1, <2>2
<1>7. CASE ExclusiveCreate(t)
  <2>1. /\ attempts'[t] = n
        /\ \/ pc[t] = "absent" /\ pc'[t] = "staged"
           \/ pc[t] = "staged" /\ pc'[t] = "written"
           \/ pc[t] = "written" /\ pc'[t] = "synced"
           \/ pc[t] = "synced" /\ pc'[t] = "linked"
           \/ pc[t] = "linked" /\ pc'[t] = "unlinked"
           \/ pc[t] = "unlinked" /\ pc'[t] \in {"confirm", "race"}
    BY <1>7 DEF ExclusiveCreate, OpenTemp, WriteTemp, SyncTemp, LinkNoReplace,
       UnlinkTemp, SyncDirectory, locals
  <2>2. QED
    BY <2>1
<1>8. CASE RaiseError(t)
  <2>1. attempts'[t] = n /\ pc'[t] = "failed" /\ pc[t] \in Writing
    BY <1>8 DEF RaiseError, locals
  <2>2. QED
    BY <2>1 DEF Writing
<1>9. QED
  BY <1>2, <1>3, <1>4, <1>5, <1>6, <1>7, <1>8 DEF Ensure, Read

\* Every task takes a bounded number of steps, for every retry limit and
\* whatever others do to the document: the safety half of RetriesEnd.
THEOREM LoopsAreBounded == Spec => WorkIsBounded
<1>1. ASSUME TypeOK, TypeOK', [Next]_vars, NEW t \in Tasks
      PROVE  /\ StepsLeft(t)' <= StepsLeft(t)
             /\ Ensure(t) => StepsLeft(t)' < StepsLeft(t)
  <2>1. StepsLeft(t) \in Nat /\ StepsLeft(t)' \in Nat
    BY <1>1, StepsLeftIsNatural DEF StepsLeft, TypeOK, Over
  <2>2. Ensure(t) => StepsLeft(t)' < StepsLeft(t)
    BY <1>1, StepNears DEF StepsLeft
  <2>3. CASE UNCHANGED <<pc[t], attempts[t]>>
    BY <2>1, <2>2, <2>3 DEF StepsLeft
  <2>4. CASE pc'[t] = "killed" /\ UNCHANGED attempts[t]
    <3>1. StepsLeft(t)' = 0
      BY <1>1, <2>4, StepsFromIs DEF StepsLeft, TypeOK, Over
    <3>2. QED
      BY <2>1, <2>2, <3>1
  <2>5. CASE \E u \in Tasks : Ensure(u)
    <3>1. PICK u \in Tasks : Ensure(u)
      BY <2>5
    <3>2. CASE u = t
      BY <2>1, <2>2, <3>1, <3>2
    <3>3. CASE u # t
      <4>1. UNCHANGED <<pc[t], attempts[t]>>
        BY <1>1, <3>1, <3>3
        DEF Ensure, Read, ExclusiveCreate, StatFound, StatFirst, StatConfirm,
            StatRace, ReadDocument, ReadFails, Missed, ReportAbsent, OpenTemp,
            WriteTemp, SyncTemp, LinkNoReplace, UnlinkTemp, SyncDirectory,
            RaiseError, Goto, TypeOK, locals
      <4>2. QED
        BY <2>3, <4>1
    <3>4. QED
      BY <3>2, <3>3
  <2>6. CASE (\E u \in Tasks : Kill(u)) \/ PowerLoss \/ Remove \/ Finished
             \/ UNCHANGED vars
    <3>1. \/ UNCHANGED <<pc[t], attempts[t]>>
          \/ pc'[t] = "killed" /\ UNCHANGED attempts[t]
      BY <1>1, <2>6 DEF Kill, PowerLoss, Remove, Finished, Goto, TypeOK, locals,
         vars
    <3>2. QED
      BY <2>3, <2>4, <3>1
  <2>7. QED
    BY <1>1, <2>5, <2>6 DEF Next
<1>2. TypeOK /\ TypeOK' /\ [Next]_vars =>
        [\A t \in Tasks :
           /\ StepsLeft(t)' <= StepsLeft(t)
           /\ Ensure(t) => StepsLeft(t)' < StepsLeft(t)]_vars
  BY <1>1
<1>3. QED
  BY <1>2, TypeCorrect, PTL DEF Spec, WorkIsBounded
-----------------------------------------------------------------------------
\* A temporary name is given up by its owner, and comes back only by a power
\* loss that the owner did not survive, or that followed its error.
LEMMA LeftoversStep ==
  TypeOK /\ LeftoversAreFailures /\ DiskTempsAreOwned /\ [Next]_vars
    => LeftoversAreFailures' /\ DiskTempsAreOwned'
<1> SUFFICES ASSUME TypeOK, LeftoversAreFailures, DiskTempsAreOwned, [Next]_vars
             PROVE  LeftoversAreFailures' /\ DiskTempsAreOwned'
  OBVIOUS
<1> DEFINE Goal == LeftoversAreFailures' /\ DiskTempsAreOwned'
<1> USE DEF LeftoversAreFailures, DiskTempsAreOwned, TypeOK, Phases, Over, Live,
        Writing, Goto, directory, files, disk, args, locals
<1>1. ASSUME NEW t \in Tasks, Read(t) \/ ReportAbsent(t)
      PROVE  Goal
  <2>1. /\ UNCHANGED <<temps, diskTemps>>
        /\ pc[t] \in {"start", "confirm", "race", "reading", "confirming",
                      "racing", "absent"}
        /\ \A u \in Tasks \ {t} : pc'[u] = pc[u]
    BY <1>1 DEF Read, StatFound, StatFirst, StatConfirm, StatRace, ReadDocument,
       ReadFails, Missed, ReportAbsent
  <2>2. t \notin temps /\ t \notin diskTemps
    BY <2>1
  <2>3. QED
    BY <2>1, <2>2
<1>2. ASSUME NEW t \in Tasks, OpenTemp(t) \/ WriteTemp(t) \/ SyncTemp(t)
      PROVE  Goal
  BY <1>2 DEF OpenTemp, WriteTemp, SyncTemp
<1>3. ASSUME NEW t \in Tasks, LinkNoReplace(t) \/ UnlinkTemp(t)
      PROVE  Goal
  BY <1>3 DEF LinkNoReplace, UnlinkTemp
<1>4. ASSUME NEW t \in Tasks, SyncDirectory(t)
      PROVE  Goal
  BY <1>4 DEF SyncDirectory
<1>5. ASSUME NEW t \in Tasks, RaiseError(t) \/ Kill(t)
      PROVE  Goal
  BY <1>5 DEF RaiseError, Kill
<1>6. CASE PowerLoss
  <2>1. /\ PowerFails /\ temps' \subseteq temps \cup diskTemps
        /\ diskTemps' = temps'
        /\ \A t \in Tasks :
             pc'[t] = IF pc[t] \in Live \ {"start"} THEN "killed" ELSE pc[t]
    BY <1>6 DEF PowerLoss
  <2>2. \A t \in temps \cup diskTemps :
          t \in Tasks /\ pc[t] # "start" /\ pc[t] # "done"
    OBVIOUS
  <2>3. \A t \in temps' : pc'[t] \in {"killed", "failed"}
    BY <2>1, <2>2
  <2>4. QED
    BY <2>1, <2>3
<1>7. CASE UNCHANGED <<temps, diskTemps, pc>>
  BY <1>7
<1>8. QED
  BY <1>1, <1>2, <1>3, <1>4, <1>5, <1>6, <1>7
  DEF Next, Ensure, ExclusiveCreate, Remove, Finished, vars

\* A second link, which makes a document unreadable, belongs to a task that is
\* about to remove it, was killed or raised an error, for every number of tasks:
\* after a publication that returned there is none, whatever power losses follow.
THEOREM OnlyFailuresLeaveLinks == Spec => []LeftoversAreFailures
<1>1. Init => LeftoversAreFailures /\ DiskTempsAreOwned
  BY DEF Init, LeftoversAreFailures, DiskTempsAreOwned
<1>2. QED
  BY <1>1, LeftoversStep, TypeInit, TypeStep, PTL DEF Spec
=============================================================================
