------------------------- MODULE HeaderCustodyProofs -------------------------
(* Theorems about HeaderCustody, for every set of publishers and readers,   *)
(* every number of chunks and every bound on the operator's edits.          *)
EXTENDS HeaderCustody, TLAPS

\* The types hold initially.
LEMMA TypeInit == Init => TypeOK
BY CustodyAssumption
DEF Init, TypeOK, Rows, Absent, Phases, Working, ReaderPhases, Reports, Manifest

\* Every request, answer and edit keeps the types.
LEMMA TypeStep == TypeOK /\ [Next]_vars => TypeOK'
<1> SUFFICES ASSUME TypeOK, [Next]_vars
             PROVE  TypeOK'
  OBVIOUS
<1> USE CustodyAssumption DEF TypeOK, Rows, Phases, Working, ReaderPhases, Reports,
        Goto, RGoto, store, operator, publisher, reader, Objects, Manifest
<1>1. ASSUME NEW p \in Publishers, PreflightRead(p)
      PROVE  TypeOK'
  BY <1>1 DEF PreflightRead
<1>2. ASSUME NEW p \in Publishers, PreflightUnexpected(p)
      PROVE  TypeOK'
  BY <1>2 DEF PreflightUnexpected
<1>3. ASSUME NEW p \in Publishers, PreflightProbe(p)
      PROVE  TypeOK'
  <2>1. CASE kv[pos[p]] = Absent
    <3>1. pos' = [pos EXCEPT ![p] = @ + 1] /\ pos[p] \in Objects
      BY <1>3, <2>1 DEF PreflightProbe
    <3>2. pos' \in [Publishers -> 1 .. Manifest + 1]
      BY <3>1
    <3>3. missing' = [missing EXCEPT ![p] = @ \cup {pos[p]}] /\ pos[p] \in Objects
      BY <1>3, <2>1 DEF PreflightProbe
    <3>4. missing' \in [Publishers -> SUBSET Objects]
      BY <3>3
    <3>5. pc' = [pc EXCEPT ![p] = "preflight"]
      BY <1>3, <2>1 DEF PreflightProbe
    <3>6. QED
      BY <1>3, <3>2, <3>4, <3>5 DEF PreflightProbe
  <2>2. CASE kv[pos[p]] # Absent
    BY <1>3, <2>2 DEF PreflightProbe
  <2>3. QED
    BY <2>1, <2>2
<1>4. ASSUME NEW p \in Publishers, PreflightDone(p)
      PROVE  TypeOK'
  BY <1>4 DEF PreflightDone
<1>5. ASSUME NEW p \in Publishers, SendCreate(p)
      PROVE  TypeOK'
  BY <1>5 DEF SendCreate
<1>6. ASSUME NEW p \in Publishers, StartReadback(p)
      PROVE  TypeOK'
  BY <1>6 DEF StartReadback
<1>7. ASSUME NEW p \in Publishers, ReadbackRead(p)
      PROVE  TypeOK'
  BY <1>7 DEF ReadbackRead
<1>8. ASSUME NEW p \in Publishers, ReadbackNotFound(p)
      PROVE  TypeOK'
  BY <1>8 DEF ReadbackNotFound
<1>9. ASSUME NEW p \in Publishers, ReadbackProbe(p)
      PROVE  TypeOK'
  <2>1. CASE kv[pos[p]] = Absent
    <3>1. pos' = [pos EXCEPT ![p] = @ + 1] /\ pos[p] \in Objects
      BY <1>9, <2>1 DEF ReadbackProbe
    <3>2. pos' \in [Publishers -> 1 .. Manifest + 1]
      BY <3>1
    <3>3. odd' = [odd EXCEPT ![p] = @ \cup {"absent"}] /\ pos[p] \in Objects
      BY <1>9, <2>1 DEF ReadbackProbe
    <3>4. odd' \in [Publishers -> SUBSET {"absent", "differs"}]
      BY <3>3
    <3>5. pc' = [pc EXCEPT ![p] = "readback"]
      BY <1>9, <2>1 DEF ReadbackProbe
    <3>6. QED
      BY <1>9, <3>2, <3>4, <3>5 DEF ReadbackProbe
  <2>2. CASE kv[pos[p]] # Absent
    BY <1>9, <2>2 DEF ReadbackProbe
  <2>3. QED
    BY <2>1, <2>2
<1>10. ASSUME NEW p \in Publishers, ReadbackDone(p)
      PROVE  TypeOK'
  BY <1>10 DEF ReadbackDone
<1>11. ASSUME NEW p \in Publishers, TransportFails(p)
      PROVE  TypeOK'
  BY <1>11 DEF TransportFails
<1>12. ASSUME NEW r \in Readers, ReadManifest(r)
      PROVE  TypeOK'
  <2>1. rpc' \in [Readers -> ReaderPhases]
    BY <1>12 DEF ReadManifest
  <2>2. rversion' \in [Readers -> Nat]
    BY <1>12 DEF ReadManifest
  <2>3. QED
    BY <1>12, <2>1, <2>2 DEF ReadManifest
<1>13. ASSUME NEW r \in Readers, ReadChunk(r)
      PROVE  TypeOK'
  <2>1. CASE Stored(rpos[r])
    <3>1. rpos' = [rpos EXCEPT ![r] = @ + 1] /\ rpos[r] <= Chunks
      BY <1>13, <2>1 DEF ReadChunk
    <3>2. rpos' \in [Readers -> 1 .. Chunks + 1]
      BY <3>1
    <3>3. QED
      BY <1>13, <2>1, <3>2 DEF ReadChunk
  <2>2. CASE ~Stored(rpos[r])
    BY <1>13, <2>2 DEF ReadChunk
  <2>3. QED
    BY <2>1, <2>2
<1>14. ASSUME NEW r \in Readers, RecheckManifest(r)
      PROVE  TypeOK'
  BY <1>14 DEF RecheckManifest
<1>15. ASSUME NEW r \in Readers, ReaderTransportFails(r)
      PROVE  TypeOK'
  BY <1>15 DEF ReaderTransportFails
<1>16. ASSUME NEW p \in Publishers, NEW o \in Objects, ServeCreate(p, o)
      PROVE  TypeOK'
  <2>1. [state |-> "live", data |-> "package", version |-> 1] \in Rows
    OBVIOUS
  <2>2. kv' \in [Objects -> Rows]
    BY <1>16, <2>1 DEF ServeCreate
  <2>3. missing' \in [Publishers -> SUBSET Objects]
    BY <1>16 DEF ServeCreate
  <2>4. \/ pc' = pc
        \/ pc' = [pc EXCEPT ![p] = "creating"]
        \/ pc' = [pc EXCEPT ![p] = "failed"]
    BY <1>16 DEF ServeCreate
  <2>5. QED
    BY <1>16, <2>2, <2>3, <2>4 DEF ServeCreate
<1>17. ASSUME NEW o \in Objects, Overwrite(o)
      PROVE  TypeOK'
  BY <1>17 DEF Overwrite, Edit, Absent
<1>18. ASSUME NEW o \in Objects, SoftDelete(o)
      PROVE  TypeOK'
  <2>1. kv[o] \in Rows
    OBVIOUS
  <2>2. [kv[o] EXCEPT !.state = "deleted"] \in Rows
    BY <2>1
  <2>3. kv' = [kv EXCEPT ![o] = [kv[o] EXCEPT !.state = "deleted"]]
    BY <1>18 DEF SoftDelete, Edit
  <2>4. kv' \in [Objects -> Rows]
    BY <2>2, <2>3, Zenon
  <2>5. edits' = edits + 1 /\ (purges' = purges \/ purges' = purges + 1)
    BY <1>18, Zenon DEF SoftDelete, Edit
  <2>6. UNCHANGED <<inflight, publisher, reader>>
    BY <1>18 DEF SoftDelete, Edit
  <2>7. QED
    BY <2>4, <2>5, <2>6
<1>19. ASSUME NEW o \in Objects, PurgeMetadata(o)
      PROVE  TypeOK'
  BY <1>19 DEF PurgeMetadata, Edit, Absent
<1>20. CASE Finished \/ UNCHANGED vars
  BY <1>20 DEF Finished, vars
<1>21. QED
  BY <1>1, <1>2, <1>3, <1>4, <1>5, <1>6, <1>7, <1>8, <1>9, <1>10, <1>11, <1>12,
     <1>13, <1>14, <1>15, <1>16, <1>17, <1>18, <1>19, <1>20
  DEF Next, PublisherStep, ReaderStep

\* Every variable keeps its type.
THEOREM TypeCorrect == Spec => []TypeOK
BY TypeInit, TypeStep, PTL DEF Spec

-----------------------------------------------------------------------------
\* While the operator keeps away, what is stored stays as it is.
LEMMA StoredIsKept ==
  ASSUME TypeOK, [Next]_vars, edits' = 0
  PROVE  /\ edits = 0
         /\ \A o \in Objects : Stored(o) => Stored(o)' /\ kv'[o] = kv[o]
<1> USE DEF TypeOK, store, operator, publisher, reader
<1>1. ASSUME NEW p \in Publishers, NEW o \in Objects, ServeCreate(p, o)
      PROVE  /\ edits = 0
             /\ \A i \in Objects : Stored(i) => Stored(i)' /\ kv'[i] = kv[i]
  BY <1>1 DEF ServeCreate, Stored, Absent
<1>2. ASSUME NEW o \in Objects, Overwrite(o) \/ SoftDelete(o) \/ PurgeMetadata(o)
      PROVE  FALSE
  BY <1>2 DEF Overwrite, SoftDelete, PurgeMetadata, Edit
<1>3. CASE UNCHANGED <<kv, edits>>
  BY <1>3 DEF Stored
<1>4. QED
  BY <1>1, <1>2, <1>3
  DEF Next, PublisherStep, PreflightRead, PreflightUnexpected, PreflightProbe,
      PreflightDone, SendCreate, StartReadback, ReadbackRead, ReadbackNotFound,
      ReadbackProbe, ReadbackDone, TransportFails, ReaderStep, ReadManifest,
      ReadChunk, RecheckManifest, ReaderTransportFails, Finished, vars

\* The inductive invariant holds of an empty store.
LEMMA CustodyInit == Init => CustodyInv
BY CustodyAssumption
DEF Init, CustodyInv, StoredIsPrefix, PreflightIsRight, RequestsInOrder,
    ReadersAreRight, VerifiedIsStored, Stored, Absent, Objects, Manifest

\* A publisher's own steps, those of Vault on its requests apart.
LEMMA PublisherKeepsInv ==
  ASSUME TypeOK, CustodyInv, edits = 0, NEW p \in Publishers,
         \/ PreflightRead(p) \/ PreflightUnexpected(p) \/ PreflightProbe(p)
         \/ PreflightDone(p) \/ SendCreate(p) \/ StartReadback(p)
         \/ ReadbackRead(p) \/ ReadbackNotFound(p) \/ ReadbackProbe(p)
         \/ ReadbackDone(p) \/ TransportFails(p)
  PROVE  CustodyInv'
<1> USE CustodyAssumption
    DEF TypeOK, CustodyInv, Goto, store, operator, reader, Stored, Objects,
        Manifest
<1>1. UNCHANGED kv
  BY DEF PreflightRead, PreflightUnexpected, PreflightProbe, PreflightDone,
     SendCreate, StartReadback, ReadbackRead, ReadbackNotFound, ReadbackProbe,
     ReadbackDone, TransportFails
<1>2. StoredIsPrefix'
  BY <1>1 DEF StoredIsPrefix, Absent
<1>3. ReadersAreRight'
  BY <1>1
  DEF ReadersAreRight, PreflightRead, PreflightUnexpected, PreflightProbe,
      PreflightDone, SendCreate, StartReadback, ReadbackRead, ReadbackNotFound,
      ReadbackProbe, ReadbackDone, TransportFails
<1>4. RequestsInOrder'
  <2>1. CASE SendCreate(p)
    BY <1>1, <2>1 DEF SendCreate, RequestsInOrder, PreflightIsRight, NextMissing
  <2>2. CASE UNCHANGED inflight
    BY <1>1, <2>2 DEF RequestsInOrder
  <2>3. QED
    BY <2>1, <2>2
    DEF PreflightRead, PreflightUnexpected, PreflightProbe, PreflightDone,
        StartReadback, ReadbackRead, ReadbackNotFound, ReadbackProbe,
        ReadbackDone, TransportFails
<1>5. PreflightIsRight'
  <2>1. CASE PreflightRead(p) \/ PreflightUnexpected(p)
    BY <1>1, <2>1 DEF PreflightIsRight, PreflightRead, PreflightUnexpected
  <2>2. CASE PreflightProbe(p)
    <3>1. CASE kv[pos[p]] = Absent
      <4>1. /\ pos' = [pos EXCEPT ![p] = @ + 1]
            /\ missing' = [missing EXCEPT ![p] = @ \cup {pos[p]}]
            /\ pc' = [pc EXCEPT ![p] = "preflight"]
            /\ pc[p] = "preflight404"
        BY <2>2, <3>1 DEF PreflightProbe
      <4>2. \A i \in Objects :
              i < pos'[p] => i \in missing'[p] \/ Stored(i)
        BY <4>1 DEF PreflightIsRight
      <4>3. QED
        BY <1>1, <4>1, <4>2 DEF PreflightIsRight
    <3>2. CASE kv[pos[p]] # Absent
      BY <1>1, <2>2, <3>2 DEF PreflightIsRight, PreflightProbe
    <3>3. QED
      BY <3>1, <3>2
  <2>3. CASE PreflightDone(p)
    <3>1. /\ UNCHANGED <<pos, missing>>
          /\ \E phase \in {"failed", "creating", "done"} :
               pc' = [pc EXCEPT ![p] = phase]
          /\ pc[p] = "preflight" /\ pos[p] = Manifest + 1
      BY <2>3 DEF PreflightDone
    <3>2. \A i \in Objects : i \in missing[p] \/ Stored(i)
      BY <3>1 DEF PreflightIsRight
    <3>3. QED
      BY <1>1, <3>1, <3>2 DEF PreflightIsRight
  <2>4. CASE SendCreate(p) \/ TransportFails(p)
    BY <1>1, <2>4 DEF PreflightIsRight, SendCreate, TransportFails
  <2>5. CASE StartReadback(p)
    BY <1>1, <2>5 DEF PreflightIsRight, StartReadback
  <2>6. CASE ReadbackRead(p) \/ ReadbackNotFound(p)
    BY <1>1, <2>6 DEF PreflightIsRight, ReadbackRead, ReadbackNotFound
  <2>7. CASE ReadbackProbe(p) \/ ReadbackDone(p)
    BY <1>1, <2>7 DEF PreflightIsRight, ReadbackProbe, ReadbackDone
  <2>8. QED
    BY <2>1, <2>2, <2>3, <2>4, <2>5, <2>6, <2>7
<1>6. VerifiedIsStored'
  <2>1. CASE PreflightDone(p)
    <3>1. /\ pc[p] = "preflight" /\ pos[p] = Manifest + 1
          /\ \/ report' = report
             \/ report' = [report EXCEPT ![p] =
                             IF missing[p] = {} THEN "verified" ELSE "planned"]
      BY <2>1 DEF PreflightDone
    <3>2. \A i \in Objects : i \in missing[p] \/ Stored(i)
      BY <3>1 DEF PreflightIsRight
    <3>3. QED
      BY <1>1, <3>1, <3>2 DEF VerifiedIsStored
  <2>2. CASE ReadbackDone(p)
    BY <1>1, <2>2 DEF VerifiedIsStored, ReadbackDone, PreflightIsRight
  <2>3. CASE UNCHANGED report
    BY <1>1, <2>3 DEF VerifiedIsStored
  <2>4. QED
    BY <2>1, <2>2, <2>3
    DEF PreflightRead, PreflightUnexpected, PreflightProbe, SendCreate,
        StartReadback, ReadbackRead, ReadbackNotFound, ReadbackProbe,
        TransportFails
<1>7. QED
  BY <1>2, <1>3, <1>4, <1>5, <1>6

\* Vault creates an object: everything before it is there already.
LEMMA ServeKeepsInv ==
  ASSUME TypeOK, CustodyInv, edits = 0, NEW p \in Publishers,
         NEW o \in Objects, ServeCreate(p, o)
  PROVE  CustodyInv'
<1> USE CustodyAssumption
    DEF TypeOK, CustodyInv, Goto, store, operator, publisher, reader, Objects,
        Manifest
<1>1. /\ \A i \in Objects : Stored(i) => Stored(i)' /\ kv'[i] = kv[i]
      /\ \A i \in Objects \ {o} : kv'[i] = kv[i] /\ (Stored(i)' <=> Stored(i))
      /\ Stored(o)'
  <2>1. Stored(o) \/ kv[o] = Absent
    BY DEF StoredIsPrefix
  <2>2. QED
    BY <2>1 DEF ServeCreate, Stored, Absent
<1>2. StoredIsPrefix'
  <2>1. \A i \in Objects : Stored(i)' \/ kv'[i] = Absent
    BY <1>1 DEF StoredIsPrefix
  <2>2. \A i \in 1 .. o - 1 : Stored(i)'
    BY <1>1 DEF ServeCreate, RequestsInOrder
  <2>3. \A m \in Objects : Stored(m)' => \A i \in 1 .. m - 1 : Stored(i)'
    BY <1>1, <2>2 DEF StoredIsPrefix
  <2>4. Absent' = Absent
    BY DEF Absent
  <2>5. QED
    BY <2>1, <2>3, <2>4 DEF StoredIsPrefix
<1>3. PreflightIsRight'
  <2>1. CASE pc[p] = "waiting" /\ kv[o] = Absent
    <3>1. /\ missing' = [missing EXCEPT ![p] = @ \ {o}]
          /\ pc' = [pc EXCEPT ![p] = "creating"]
          /\ UNCHANGED pos
      BY <2>1 DEF ServeCreate
    <3>2. QED
      BY <1>1, <2>1, <3>1 DEF PreflightIsRight
  <2>2. CASE ~(pc[p] = "waiting" /\ kv[o] = Absent)
    <3>1. /\ UNCHANGED <<missing, pos>>
          /\ pc' = pc \/ pc' = [pc EXCEPT ![p] = "failed"]
      BY <2>2 DEF ServeCreate
    <3>2. QED
      BY <1>1, <3>1 DEF PreflightIsRight
  <2>3. QED
    BY <2>1, <2>2
<1>4. RequestsInOrder'
  BY <1>1 DEF RequestsInOrder, ServeCreate
<1>5. ReadersAreRight'
  BY <1>1 DEF ReadersAreRight, ServeCreate
<1>6. VerifiedIsStored'
  BY <1>1 DEF VerifiedIsStored, ServeCreate
<1>7. QED
  BY <1>2, <1>3, <1>4, <1>5, <1>6

\* A retrieval only reads, so it cannot disturb what is stored.
LEMMA ReaderKeepsInv ==
  ASSUME TypeOK, CustodyInv, edits = 0, NEW r \in Readers,
         ReaderStep(r) \/ ReaderTransportFails(r)
  PROVE  CustodyInv'
<1> USE CustodyAssumption
    DEF TypeOK, CustodyInv, RGoto, store, operator, publisher, Stored, Objects,
        Manifest
<1> UNCHANGED <<store, publisher>>
  BY DEF ReaderStep, ReadManifest, ReadChunk, RecheckManifest,
     ReaderTransportFails
<1>1. StoredIsPrefix' /\ PreflightIsRight' /\ RequestsInOrder' /\ VerifiedIsStored'
  BY DEF StoredIsPrefix, PreflightIsRight, RequestsInOrder, VerifiedIsStored,
     Absent
<1>2. ReadersAreRight'
  BY DEF ReadersAreRight, ReaderStep, ReadManifest, ReadChunk, RecheckManifest,
     ReaderTransportFails, StoredIsPrefix
<1>3. QED
  BY <1>1, <1>2

\* Every step keeps the inductive invariant.
LEMMA CustodyStep == TypeOK /\ CustodyInv /\ [Next]_vars => CustodyInv'
<1> SUFFICES ASSUME TypeOK, CustodyInv, [Next]_vars, edits' = 0
             PROVE  CustodyInv'
  BY DEF CustodyInv
<1>1. edits = 0
  BY StoredIsKept
<1>2. ASSUME NEW o \in Objects, Overwrite(o) \/ SoftDelete(o) \/ PurgeMetadata(o)
      PROVE  FALSE
  BY <1>1, <1>2 DEF Overwrite, SoftDelete, PurgeMetadata, Edit
<1>3. CASE Finished \/ UNCHANGED vars
  BY <1>3
  DEF Finished, vars, store, operator, publisher, reader, CustodyInv,
      StoredIsPrefix, PreflightIsRight, RequestsInOrder, ReadersAreRight,
      VerifiedIsStored, Stored, Absent, Objects, Manifest
<1>4. QED
  BY <1>1, <1>2, <1>3, PublisherKeepsInv, ServeKeepsInv, ReaderKeepsInv
  DEF Next, PublisherStep

\* What vault_custody stores is always a prefix of one package's objects, and
\* what a publisher or a reader knows of it is right.
THEOREM CustodyInvariant == Spec => []CustodyInv
BY TypeInit, TypeStep, CustodyInit, CustodyStep, PTL DEF Spec

\* The manifest commits the package: whatever the publishers, their failures
\* and the order in which Vault serves their requests.
THEOREM ManifestCommitsPackage == Spec => []ManifestCommits
<1>1. CustodyInv => ManifestCommits
  BY CustodyAssumption
  DEF CustodyInv, ManifestCommits, StoredIsPrefix, Objects, Manifest, Stored
<1>2. QED
  BY <1>1, CustodyInvariant, PTL

\* A reader that found the manifest never meets a missing chunk or a changed
\* manifest.
THEOREM RetrievalIsNotTorn == Spec => []NoTornRetrieval
<1>1. CustodyInv => NoTornRetrieval
  BY DEF CustodyInv, NoTornRetrieval, ReadersAreRight
<1>2. QED
  BY <1>1, CustodyInvariant, PTL

\* A publisher reports "verified" only of a complete custody.
THEOREM VerifiedIsComplete == Spec => []VerifiedIsStored
<1>1. CustodyInv => VerifiedIsStored
  BY DEF CustodyInv, VerifiedIsStored
<1>2. QED
  BY <1>1, CustodyInvariant, PTL

-----------------------------------------------------------------------------
\* A verified report comes from a complete readback only.
LEMMA ReportStep ==
  TypeOK /\ ReportIsFinal /\ [Next]_vars => ReportIsFinal'
<1> SUFFICES ASSUME TypeOK, ReportIsFinal, [Next]_vars
             PROVE  ReportIsFinal'
  OBVIOUS
<1> USE DEF TypeOK, ReportIsFinal, Goto, store, operator, publisher, reader
<1>1. ASSUME NEW p \in Publishers,
             PreflightRead(p) \/ PreflightUnexpected(p) \/ PreflightProbe(p)
      PROVE  ReportIsFinal'
  BY <1>1 DEF PreflightRead, PreflightUnexpected, PreflightProbe
<1>2. ASSUME NEW p \in Publishers, PreflightDone(p) \/ ReadbackDone(p)
      PROVE  ReportIsFinal'
  <2>1. /\ report' = report \/ \E v \in Reports : report' = [report EXCEPT ![p] = v]
        /\ \/ pc' = [pc EXCEPT ![p] = "done"]
           \/ report' = report /\ pc[p] # "done"
              /\ \E phase \in Phases : pc' = [pc EXCEPT ![p] = phase]
    BY <1>2 DEF PreflightDone, ReadbackDone, Reports, Phases, Working
  <2>2. QED
    BY <2>1
<1>3. ASSUME NEW p \in Publishers, NEW o \in Objects, ServeCreate(p, o)
      PROVE  ReportIsFinal'
  BY <1>3 DEF ServeCreate
<1>4. ASSUME NEW p \in Publishers,
             SendCreate(p) \/ StartReadback(p) \/ TransportFails(p)
      PROVE  ReportIsFinal'
  BY <1>4 DEF SendCreate, StartReadback, TransportFails, Working
<1>5. ASSUME NEW p \in Publishers,
             ReadbackRead(p) \/ ReadbackNotFound(p) \/ ReadbackProbe(p)
      PROVE  ReportIsFinal'
  BY <1>5 DEF ReadbackRead, ReadbackNotFound, ReadbackProbe
<1>6. CASE UNCHANGED <<pc, report>>
  BY <1>6
<1>7. QED
  BY <1>1, <1>2, <1>3, <1>4, <1>5, <1>6
  DEF Next, PublisherStep, ReaderStep, ReadManifest, ReadChunk,
      RecheckManifest, ReaderTransportFails, Overwrite, SoftDelete,
      PurgeMetadata, Edit, Finished, vars

\* Without an operator the custody is a register that is written once: the
\* manifest's creation chooses, and publishers that report "verified" and
\* readers that return a package decide for what was chosen.
THEOREM ImplementsRegister ==
  ASSUME MaxEdits = 0
  PROVE  Spec => CustodySpec
<1> DEFINE Step == Custody!Next \/ UNCHANGED <<Chosen, Decided>>
<1>1. Init => Custody!Init /\ ReportIsFinal /\ edits = 0
  BY CustodyAssumption
  DEF Init, Custody!Init, ReportIsFinal, Objects, Manifest, Nobody, Package,
      Chosen, Decided
<1>2. edits = 0 /\ [Next]_vars => (edits = 0)'
  <2> SUFFICES ASSUME edits = 0, [Next]_vars
               PROVE  edits' = 0
    OBVIOUS
  <2>1. ASSUME NEW o \in Objects, Overwrite(o) \/ SoftDelete(o) \/ PurgeMetadata(o)
        PROVE  FALSE
    BY <2>1 DEF Overwrite, SoftDelete, PurgeMetadata, Edit
  <2>2. CASE UNCHANGED edits
    BY <2>2
  <2>3. QED
    BY <2>1, <2>2
    DEF Next, PublisherStep, PreflightRead, PreflightUnexpected,
        PreflightProbe, PreflightDone, SendCreate, ServeCreate, StartReadback,
        ReadbackRead, ReadbackNotFound, ReadbackProbe, ReadbackDone,
        TransportFails, ReaderStep, ReadManifest, ReadChunk, RecheckManifest,
        ReaderTransportFails, Finished, vars, store, operator
<1>3. TypeOK /\ CustodyInv /\ ReportIsFinal /\ edits = 0 /\ (edits = 0)'
        /\ [Next]_vars => [Custody!Next]_<<Chosen, Decided>>
  <2> SUFFICES ASSUME TypeOK, CustodyInv, ReportIsFinal, edits = 0, edits' = 0,
                      [Next]_vars
               PROVE  Step
    OBVIOUS
  <2> USE DEF Nobody, Package, Chosen, Decided
  <2>0. Manifest \in Objects
    BY CustodyAssumption DEF Objects, Manifest
  <2>1. \A t \in Publishers : report[t] = "verified" => Stored(Manifest)
    BY <2>0 DEF CustodyInv, VerifiedIsStored
  <2>2. Stored(Manifest) => Chosen = Package
    BY DEF Stored, Absent
  <2>3. ASSUME UNCHANGED <<report, rpc>>
        PROVE  Step
    <3>1. Decided' = Decided
      BY <2>3
    <3>2. CASE Chosen' = Chosen
      BY <3>1, <3>2
    <3>3. CASE Chosen' # Chosen
      <4>1. kv[Manifest] = Absent
        BY <3>3, StoredIsKept, <2>0 DEF CustodyInv, StoredIsPrefix, Stored
      <4>2. Chosen = Nobody /\ Chosen' = Package
        BY <3>3, <4>1
      <4>3. Custody!Choose(Package)
        BY <3>1, <4>2 DEF Custody!Choose
      <4>4. QED
        BY <4>3 DEF Custody!Next
    <3>4. QED
      BY <3>2, <3>3
  <2>4. ASSUME NEW p \in Publishers, PreflightDone(p) \/ ReadbackDone(p)
        PROVE  Step
    <3>1. /\ UNCHANGED <<kv, rpc>>
          /\ pc[p] # "done"
          /\ \E v \in Reports : report' = [report EXCEPT ![p] = v] \/ report' = report
      BY <2>4 DEF PreflightDone, ReadbackDone, store, reader, Reports
    <3>2. Chosen' = Chosen
      BY <3>1
    <3>3. report[p] = "none"
      BY <3>1 DEF TypeOK, ReportIsFinal, Reports
    <3>4. CASE report'[p] = "verified"
      <4>1. report' = [report EXCEPT ![p] = "verified"]
        BY <3>1, <3>3, <3>4 DEF TypeOK
      <4>2. Stored(Manifest)
        <5>1. CustodyInv'
          BY CustodyStep
        <5>2. Stored(Manifest)'
          BY <5>1, <3>4, <2>0 DEF CustodyInv, VerifiedIsStored
        <5>3. QED
          BY <3>1, <5>2 DEF Stored
      <4>3. Custody!Decide(p)
        <5>1. Chosen = Package
          BY <4>2, <2>2
        <5>2. Decided[p] = Nobody
          BY <3>3
        <5>3. Decided' = [Decided EXCEPT ![p] = Package]
          BY <3>1, <4>1 DEF TypeOK
        <5>4. QED
          BY <3>2, <5>1, <5>2, <5>3 DEF Custody!Decide
      <4>4. QED
        BY <4>3 DEF Custody!Next
    <3>5. CASE report'[p] # "verified"
      <4>1. \A t \in Publishers :
              (report'[t] = "verified") <=> (report[t] = "verified")
        BY <3>1, <3>3, <3>5 DEF TypeOK
      <4>2. Decided' = Decided
        BY <3>1, <4>1
      <4>3. QED
        BY <3>2, <4>2
    <3>6. QED
      BY <3>4, <3>5
  <2>5. ASSUME NEW r \in Readers, ReaderStep(r) \/ ReaderTransportFails(r)
        PROVE  Step
    <3>1. /\ UNCHANGED <<kv, report>>
          /\ rpc[r] # "done"
          /\ \E v \in ReaderPhases : rpc' = [rpc EXCEPT ![r] = v] \/ rpc' = rpc
          /\ rpc'[r] = "done" => Stored(Manifest)
      BY <2>5
      DEF ReaderStep, ReadManifest, ReadChunk, RecheckManifest, TypeOK,
          ReaderTransportFails, RGoto, store, publisher, ReaderPhases
    <3>2. Chosen' = Chosen
      BY <3>1
    <3>3. CASE rpc'[r] = "done" /\ r \notin Publishers
      <4>1. rpc' = [rpc EXCEPT ![r] = "done"]
        BY <3>1, <3>3 DEF TypeOK
      <4>2. Chosen = Package
        BY <3>1, <3>3, <2>2
      <4>3. Decided[r] = Nobody
        BY <3>1, <3>3
      <4>4. Decided' = [Decided EXCEPT ![r] = Package]
        BY <3>1, <3>3, <4>1 DEF TypeOK
      <4>5. Custody!Decide(r)
        BY <3>2, <4>2, <4>3, <4>4 DEF Custody!Decide
      <4>6. QED
        BY <4>5 DEF Custody!Next
    <3>4. CASE ~(rpc'[r] = "done" /\ r \notin Publishers)
      <4>1. \A t \in Readers \ Publishers : (rpc'[t] = "done") <=> (rpc[t] = "done")
        BY <3>1, <3>4 DEF TypeOK
      <4>2. Decided' = Decided
        BY <3>1, <4>1
      <4>3. QED
        BY <3>2, <4>2
    <3>5. QED
      BY <3>3, <3>4
  <2>6. ASSUME NEW o \in Objects, Overwrite(o) \/ SoftDelete(o) \/ PurgeMetadata(o)
        PROVE  UNCHANGED <<report, rpc>>
    BY <2>6
    DEF Overwrite, SoftDelete, PurgeMetadata, Edit, publisher, reader
  <2>7. QED
    BY <2>3, <2>4, <2>5, <2>6
    DEF Next, PublisherStep, PreflightRead, PreflightUnexpected,
        PreflightProbe, SendCreate, ServeCreate, StartReadback, ReadbackRead,
        ReadbackNotFound, ReadbackProbe, TransportFails, Finished, vars,
        store, publisher, reader
<1>4. QED
  BY <1>1, <1>2, <1>3, TypeInit, TypeStep, CustodyInit, CustodyStep,
     ReportStep, PTL
  DEF Spec, CustodySpec, Custody!Spec
-----------------------------------------------------------------------------
(* Damage is noticed: what the operator spoiled stays spoiled, and whoever  *)
(* has yet to read it fails.                                                *)

\* A reader's first chunk is the first.
ReaderStart == \A r \in Readers : rpc[r] = "manifest" => rpos[r] = 1

\* A publisher that meets a damaged object, or has met it, does not verify.
PublisherDoomed(p, o) ==
  /\ report[p] # "verified"
  /\ \/ StillReads(p, o)
     \/ pc[p] \in {"readback", "readback404"} /\ "differs" \in odd[p]
     \/ pc[p] \in {"done", "failed"}

ReaderDoomed(r, o) == ReaderStillReads(r, o) \/ rpc[r] \in {"torn", "failed"}

\* Neither a create nor an edit other than a purge mends a damaged object.
LEMMA DamageStays ==
  ASSUME TypeOK, [Next]_vars, NEW o \in Objects
  PROVE  /\ purges' >= purges
         /\ Damaged(o) => purges' > 0 \/ Damaged(o)'
<1> USE DEF TypeOK, store, operator, publisher, reader, Damaged, Stored
<1>1. ASSUME NEW p \in Publishers, NEW m \in Objects, ServeCreate(p, m)
      PROVE  (Damaged(o) => Damaged(o)') /\ purges' = purges
  BY <1>1 DEF ServeCreate, Absent
<1>2. ASSUME NEW m \in Objects, PurgeMetadata(m)
      PROVE  purges' = purges + 1
  BY <1>2 DEF PurgeMetadata, Edit
<1>3. ASSUME NEW m \in Objects, Overwrite(m)
      PROVE  (Damaged(o) => Damaged(o)') /\ purges' = purges
  BY <1>3 DEF Overwrite, Edit, Absent
<1>4. ASSUME NEW m \in Objects, SoftDelete(m)
      PROVE  (Damaged(o) => Damaged(o)') /\ purges' = purges
  <2>1. kv[m] \in Rows /\ kv[m].state = "live"
    BY <1>4 DEF SoftDelete
  <2>2. [kv[m] EXCEPT !.state = "deleted"].state = "deleted"
    BY <2>1 DEF Rows
  <2>3. kv' = [kv EXCEPT ![m] = [kv[m] EXCEPT !.state = "deleted"]]
    BY <1>4 DEF SoftDelete, Edit
  <2>4. purges' = purges
    BY <1>4, <2>2 DEF SoftDelete, Edit, Absent
  <2>5. kv'[o] = kv[o] \/ kv'[o].state = "deleted"
    BY <2>2, <2>3
  <2>6. QED
    BY <2>4, <2>5 DEF Absent
<1>5. CASE UNCHANGED <<kv, purges>>
  BY <1>5 DEF Absent
<1>6. QED
  BY <1>1, <1>2, <1>3, <1>4, <1>5
  DEF Next, PublisherStep, PreflightRead, PreflightUnexpected, PreflightProbe,
      PreflightDone, SendCreate, StartReadback, ReadbackRead, ReadbackNotFound,
      ReadbackProbe, ReadbackDone, TransportFails, ReaderStep, ReadManifest,
      ReadChunk, RecheckManifest, ReaderTransportFails, Finished, vars

\* A publisher with a damaged object before it never verifies.
LEMMA DoomedPublisherStep ==
  ASSUME TypeOK, ReportIsFinal, [Next]_vars, NEW o \in Objects,
         NEW p \in Publishers, Damaged(o), PublisherDoomed(p, o)
  PROVE  PublisherDoomed(p, o)'
<1> USE CustodyAssumption
    DEF TypeOK, PublisherDoomed, StillReads, Goto, store, operator, publisher,
        reader, Objects, Manifest, Damaged, Stored
<1>1. CASE PreflightRead(p) \/ PreflightUnexpected(p)
  BY <1>1 DEF PreflightRead, PreflightUnexpected
<1>2. CASE PreflightProbe(p)
  BY <1>2 DEF PreflightProbe
<1>3. CASE PreflightDone(p)
  BY <1>3 DEF PreflightDone, ReportIsFinal
<1>4. CASE SendCreate(p) \/ StartReadback(p)
  BY <1>4 DEF SendCreate, StartReadback
<1>5. ASSUME NEW q \in Publishers, NEW m \in Objects, ServeCreate(q, m)
      PROVE  PublisherDoomed(p, o)'
  BY <1>5 DEF ServeCreate
<1>6. CASE ReadbackRead(p) \/ ReadbackNotFound(p)
  BY <1>6 DEF ReadbackRead, ReadbackNotFound
<1>7. CASE ReadbackProbe(p)
  BY <1>7 DEF ReadbackProbe
<1>8. CASE ReadbackDone(p)
  BY <1>8 DEF ReadbackDone
<1>9. CASE TransportFails(p)
  BY <1>9 DEF TransportFails
<1>10. ASSUME NEW q \in Publishers, q # p,
              \/ PreflightRead(q) \/ PreflightUnexpected(q) \/ PreflightProbe(q)
              \/ PreflightDone(q) \/ SendCreate(q) \/ StartReadback(q)
              \/ ReadbackRead(q) \/ ReadbackNotFound(q) \/ ReadbackProbe(q)
              \/ ReadbackDone(q) \/ TransportFails(q)
       PROVE  PublisherDoomed(p, o)'
  <2>1. /\ pc'[p] = pc[p] /\ pos'[p] = pos[p]
        /\ odd'[p] = odd[p] /\ report'[p] = report[p]
    BY <1>10
    DEF PreflightRead, PreflightUnexpected, PreflightProbe, PreflightDone,
        SendCreate, StartReadback, ReadbackRead, ReadbackNotFound,
        ReadbackProbe, ReadbackDone, TransportFails
  <2>2. QED
    BY <2>1
<1>11. CASE UNCHANGED publisher
  BY <1>11
<1>12. QED
  BY <1>1, <1>2, <1>3, <1>4, <1>5, <1>6, <1>7, <1>8, <1>9, <1>10, <1>11
  DEF Next, PublisherStep, ReaderStep, ReadManifest, ReadChunk,
      RecheckManifest, ReaderTransportFails, Overwrite, SoftDelete,
      PurgeMetadata, Edit, Finished, vars

\* A reader with a damaged object before it never returns the package.
LEMMA DoomedReaderStep ==
  ASSUME TypeOK, ReaderStart, [Next]_vars, NEW o \in Objects,
         NEW r \in Readers, Damaged(o), ReaderDoomed(r, o)
  PROVE  ReaderDoomed(r, o)'
<1> USE CustodyAssumption
    DEF TypeOK, ReaderDoomed, ReaderStillReads, RGoto, store, operator,
        publisher, reader, Objects, Manifest, Damaged, Stored
<1>1. CASE ReadManifest(r)
  BY <1>1 DEF ReadManifest, ReaderStart
<1>2. CASE ReadChunk(r)
  BY <1>2 DEF ReadChunk
<1>3. CASE RecheckManifest(r)
  BY <1>3 DEF RecheckManifest
<1>4. CASE ReaderTransportFails(r)
  BY <1>4 DEF ReaderTransportFails
<1>5. ASSUME NEW s \in Readers, s # r, ReaderStep(s) \/ ReaderTransportFails(s)
      PROVE  ReaderDoomed(r, o)'
  <2>1. rpc'[r] = rpc[r] /\ rpos'[r] = rpos[r]
    BY <1>5 DEF ReaderStep, ReadManifest, ReadChunk, RecheckManifest,
       ReaderTransportFails
  <2>2. QED
    BY <2>1
<1>6. CASE UNCHANGED reader
  BY <1>6
<1>7. QED
  BY <1>1, <1>2, <1>3, <1>4, <1>5, <1>6
  DEF Next, PublisherStep, PreflightRead, PreflightUnexpected, PreflightProbe,
      PreflightDone, SendCreate, ServeCreate, StartReadback, ReadbackRead,
      ReadbackNotFound, ReadbackProbe, ReadbackDone, TransportFails, ReaderStep,
      Overwrite, SoftDelete, PurgeMetadata, Edit, Finished, vars

\* Only the step that finds the manifest takes a reader from its start.
LEMMA ReaderStartStep ==
  TypeOK /\ ReaderStart /\ [Next]_vars => ReaderStart'
<1> SUFFICES ASSUME TypeOK, ReaderStart, [Next]_vars
             PROVE  ReaderStart'
  OBVIOUS
<1> USE DEF TypeOK, ReaderStart, RGoto, store, operator, publisher, reader
<1>1. ASSUME NEW r \in Readers, ReaderStep(r) \/ ReaderTransportFails(r)
      PROVE  ReaderStart'
  BY <1>1 DEF ReaderStep, ReadManifest, ReadChunk, RecheckManifest,
     ReaderTransportFails
<1>2. CASE UNCHANGED reader
  BY <1>2
<1>3. QED
  BY <1>1, <1>2
  DEF Next, PublisherStep, PreflightRead, PreflightUnexpected, PreflightProbe,
      PreflightDone, SendCreate, ServeCreate, StartReadback, ReadbackRead,
      ReadbackNotFound, ReadbackProbe, ReadbackDone, TransportFails,
      Overwrite, SoftDelete, PurgeMetadata, Edit, Finished, vars

\* From the moment at which an object is damaged, every publisher and every
\* reader that has yet to pass it fails or reports an incomplete custody, for
\* as long as nobody purges the store: nothing mends it silently.
THEOREM DamageIsAlwaysNoticed == Spec => DamageIsNoticed
<1> DEFINE IInv == TypeOK /\ ReportIsFinal /\ ReaderStart
<1>1. Init => IInv
  BY TypeInit DEF Init, ReportIsFinal, ReaderStart
<1>2. IInv /\ [Next]_vars => IInv'
  BY TypeStep, ReportStep, ReaderStartStep
<1>3. Spec => []IInv
  BY <1>1, <1>2, PTL DEF Spec
<1>4. ASSUME NEW o \in Objects, NEW p \in Publishers
      PROVE  Spec => [](Damaged(o) /\ StillReads(p, o)
                          => [](report[p] = "verified" => purges > 0))
  <2> DEFINE Noticed == purges > 0 \/ (Damaged(o) /\ PublisherDoomed(p, o))
  <2>1. IInv /\ Damaged(o) /\ StillReads(p, o) => Noticed
    BY DEF PublisherDoomed, StillReads, ReportIsFinal
  <2>2. IInv /\ Noticed /\ [Next]_vars => Noticed'
    <3> SUFFICES ASSUME IInv, Noticed, [Next]_vars
                 PROVE  Noticed'
      OBVIOUS
    <3>1. purges \in Nat /\ purges' \in Nat
      BY <1>2 DEF TypeOK
    <3>2. CASE purges > 0
      BY <3>1, <3>2, DamageStays
    <3>3. CASE Damaged(o) /\ PublisherDoomed(p, o)
      BY <3>3, DamageStays, DoomedPublisherStep
    <3>4. QED
      BY <3>2, <3>3
  <2>3. Noticed => (report[p] = "verified" => purges > 0)
    BY DEF PublisherDoomed
  <2>4. QED
    BY <1>3, <2>1, <2>2, <2>3, PTL DEF Spec
<1>5. ASSUME NEW o \in Objects, NEW r \in Readers
      PROVE  Spec => [](Damaged(o) /\ ReaderStillReads(r, o)
                          => [](rpc[r] = "done" => purges > 0))
  <2> DEFINE Noticed == purges > 0 \/ (Damaged(o) /\ ReaderDoomed(r, o))
  <2>1. IInv /\ Damaged(o) /\ ReaderStillReads(r, o) => Noticed
    BY DEF ReaderDoomed
  <2>2. IInv /\ Noticed /\ [Next]_vars => Noticed'
    <3> SUFFICES ASSUME IInv, Noticed, [Next]_vars
                 PROVE  Noticed'
      OBVIOUS
    <3>1. purges \in Nat /\ purges' \in Nat
      BY <1>2 DEF TypeOK
    <3>2. CASE purges > 0
      BY <3>1, <3>2, DamageStays
    <3>3. CASE Damaged(o) /\ ReaderDoomed(r, o)
      BY <3>3, DamageStays, DoomedReaderStep
    <3>4. QED
      BY <3>2, <3>3
  <2>3. Noticed => (rpc[r] = "done" => purges > 0)
    BY DEF ReaderDoomed, ReaderStillReads
  <2>4. QED
    BY <1>3, <2>1, <2>2, <2>3, PTL DEF Spec
<1>6. QED
  BY <1>4, <1>5 DEF DamageIsNoticed
-----------------------------------------------------------------------------
(* The race of several publishers always has a leader.                      *)

\* Where the transport holds, only the sender withdraws from waiting, when it
\* is answered.
LEMMA AwaitedStep ==
  TypeOK /\ RequestsAreAwaited /\ [Next]_vars => RequestsAreAwaited'
<1> SUFFICES ASSUME TypeOK, RequestsAreAwaited, [Next]_vars, ~Faults
             PROVE  RequestsAreAwaited'
  BY DEF RequestsAreAwaited
<1> USE DEF TypeOK, RequestsAreAwaited, NextMissing, Goto, store, operator,
        publisher, reader
<1>1. ASSUME NEW p \in Publishers,
             PreflightRead(p) \/ PreflightUnexpected(p) \/ PreflightProbe(p)
      PROVE  RequestsAreAwaited'
  BY <1>1 DEF PreflightRead, PreflightUnexpected, PreflightProbe
<1>2. ASSUME NEW p \in Publishers, PreflightDone(p) \/ StartReadback(p)
      PROVE  RequestsAreAwaited'
  BY <1>2 DEF PreflightDone, StartReadback
<1>3. ASSUME NEW p \in Publishers, SendCreate(p)
      PROVE  RequestsAreAwaited'
  BY <1>3 DEF SendCreate
<1>4. ASSUME NEW p \in Publishers, NEW o \in Objects, ServeCreate(p, o)
      PROVE  RequestsAreAwaited'
  <2>1. pc[p] = "waiting" /\ NextMissing(p, o)
    BY <1>4 DEF ServeCreate
  <2>2. \A m \in Objects : <<p, m>> \in inflight => m = o
    BY <2>1 DEF Objects, Manifest
  <2>3. \A m \in Objects : <<p, m>> \notin inflight'
    BY <1>4, <2>2 DEF ServeCreate
  <2>4. \A q \in Publishers \ {p} :
          /\ pc'[q] = pc[q] /\ missing'[q] = missing[q]
          /\ \A m \in Objects : <<q, m>> \in inflight' => <<q, m>> \in inflight
    BY <1>4 DEF ServeCreate
  <2>5. QED
    BY <2>3, <2>4
<1>5. ASSUME NEW p \in Publishers,
             ReadbackRead(p) \/ ReadbackNotFound(p) \/ ReadbackProbe(p)
             \/ ReadbackDone(p)
      PROVE  RequestsAreAwaited'
  BY <1>5 DEF ReadbackRead, ReadbackNotFound, ReadbackProbe, ReadbackDone
<1>6. CASE UNCHANGED <<inflight, pc, missing>>
  BY <1>6
<1>7. ASSUME NEW p \in Publishers, TransportFails(p)
      PROVE  FALSE
  BY <1>7 DEF TransportFails
<1>8. QED
  BY <1>1, <1>2, <1>3, <1>4, <1>5, <1>6, <1>7
  DEF Next, PublisherStep, ReaderStep, ReadManifest, ReadChunk,
      RecheckManifest, ReaderTransportFails, Overwrite, SoftDelete,
      PurgeMetadata, Edit, Finished, vars

\* A create that Vault accepts makes its publisher the leader: what comes
\* before its object is stored, and what comes after is absent and is missing.
LEMMA WinnerLeads ==
  ASSUME TypeOK, CustodyInv, RequestsAreAwaited, ~Faults, edits = 0,
         NEW p \in Publishers, NEW o \in Objects, ServeCreate(p, o),
         kv[o] = Absent
  PROVE  Stored(Manifest)' \/ Leads(p)'
<1> USE CustodyAssumption DEF TypeOK, Objects, Manifest
<1>1. /\ <<p, o>> \in inflight /\ pc[p] = "waiting" /\ NextMissing(p, o)
      /\ missing' = [missing EXCEPT ![p] = @ \ {o}]
      /\ pc' = [pc EXCEPT ![p] = "creating"]
  BY DEF ServeCreate, RequestsAreAwaited, Goto
<1>2. kv' = [kv EXCEPT ![o] =
               [state |-> "live", data |-> "package", version |-> 1]]
  BY DEF ServeCreate
<1>3. \A i \in Objects : i <= o <=> kv'[i] # Absent
  <2>1. \A i \in Objects : i < o => Stored(i)
    BY <1>1 DEF CustodyInv, RequestsInOrder
  <2>2. \A i \in Objects : i > o => kv[i] = Absent
    BY DEF CustodyInv, StoredIsPrefix, Stored, Absent
  <2>3. QED
    BY <1>2, <2>1, <2>2 DEF Stored, Absent
<1>4. \A i \in Objects : i \in missing'[p] <=> kv'[i] = Absent
  <2>1. \A i \in Objects : i \in missing[p] \/ Stored(i)
    BY <1>1 DEF CustodyInv, PreflightIsRight
  <2>2. \A i \in Objects : kv'[i] = Absent => i \in missing'[p]
    BY <1>1, <1>2, <1>3, <2>1 DEF Stored, Absent
  <2>3. \A i \in Objects : i \in missing'[p] => i > o
    BY <1>1 DEF NextMissing
  <2>4. QED
    BY <1>3, <2>2, <2>3
<1>5. missing'[p] = {i \in Objects : kv'[i] = Absent}
  BY <1>1, <1>4
<1>6. QED
  BY <1>1, <1>5 DEF Leads, InRace, Absent

\* No step leaves the race without a leader before the manifest is there.
LEMMA RaceStep ==
  TypeOK /\ CustodyInv /\ RequestsAreAwaited /\ RaceHasALeader /\ [Next]_vars
    => RaceHasALeader'
<1> SUFFICES ASSUME TypeOK, CustodyInv, RequestsAreAwaited, RaceHasALeader,
                    [Next]_vars, ~Faults, edits' = 0
             PROVE  RaceHasALeader'
  BY DEF RaceHasALeader
<1> DEFINE Begun == kv[1] # Absent \/ \E p \in Publishers : InRace(p)
           Led == Stored(Manifest) \/ \E p \in Publishers : Leads(p)
<1> USE CustodyAssumption DEF TypeOK
<1>1. /\ edits = 0 /\ (Begun => Led)
      /\ \A o \in Objects : Stored(o) => Stored(o)'
      /\ 1 \in Objects /\ Manifest \in Objects
  BY StoredIsKept DEF RaceHasALeader, Objects, Manifest
<1>2. ASSUME NEW p \in Publishers, NEW o \in Objects, ServeCreate(p, o)
      PROVE  Led'
  <2>1. CASE kv[o] = Absent
    BY <1>1, <1>2, <2>1, WinnerLeads
  <2>2. CASE kv[o] # Absent
    <3>1. InRace(p) /\ NextMissing(p, o)
      BY <1>2 DEF ServeCreate, RequestsAreAwaited, InRace
    <3>2. ~Leads(p)
      BY <2>2, <3>1 DEF Leads, NextMissing
    <3>3. Led
      BY <1>1, <3>1
    <3>4. UNCHANGED <<kv, missing>> /\ \A q \in Publishers \ {p} : pc'[q] = pc[q]
      BY <1>2, <2>2 DEF ServeCreate, Goto
    <3>5. \A q \in Publishers \ {p} : Leads(q) => Leads(q)'
      BY <3>4 DEF Leads, InRace, Absent
    <3>6. QED
      BY <1>1, <3>2, <3>3, <3>5
  <2>3. QED
    BY <2>1, <2>2
<1>3. ASSUME NEW p \in Publishers, PreflightDone(p)
      PROVE  Begun' => Led'
  <2>1. /\ UNCHANGED <<kv, missing>> /\ pc[p] = "preflight"
        /\ \A q \in Publishers \ {p} : pc'[q] = pc[q]
    BY <1>3 DEF PreflightDone, Goto, store
  <2>2. \A q \in Publishers : Leads(q) => Leads(q)'
    BY <2>1 DEF Leads, InRace, Absent
  <2>3. CASE Begun
    BY <1>1, <2>2, <2>3
  <2>4. CASE ~Begun /\ InRace(p)'
    <3>1. pos[p] = Manifest + 1
      BY <1>3 DEF PreflightDone
    <3>2. \A i \in Objects : kv[i] = Absent
      <4>1. kv[1] = Absent /\ ~Stored(1)
        BY <2>4 DEF Stored, Absent
      <4>2. ASSUME NEW i \in Objects, Stored(i)
            PROVE  FALSE
        <5>1. i # 1
          BY <4>1, <4>2
        <5>2. 1 \in 1 .. i - 1
          BY <5>1 DEF Objects, Manifest
        <5>3. Stored(1)
          BY <1>1, <4>2, <5>2 DEF CustodyInv, StoredIsPrefix
        <5>4. QED
          BY <4>1, <5>3
      <4>3. QED
        BY <1>1, <4>2 DEF CustodyInv, StoredIsPrefix
    <3>3. \A i \in Objects : i \in missing[p]
      BY <1>1, <2>1, <3>1, <3>2
      DEF CustodyInv, PreflightIsRight, Stored, Absent, Objects, Manifest
    <3>4. missing'[p] = {i \in Objects : kv'[i] = Absent'}
      BY <2>1, <3>2, <3>3 DEF Absent
    <3>5. QED
      BY <2>4, <3>4 DEF Leads
  <2>5. CASE ~Begun /\ ~InRace(p)'
    <3>1. ~Begun'
      BY <2>1, <2>5 DEF InRace, Absent
    <3>2. QED
      BY <3>1
  <2>6. QED
    BY <2>3, <2>4, <2>5
<1>4. ASSUME NEW p \in Publishers, StartReadback(p)
      PROVE  Begun' => Led'
  <2>1. /\ UNCHANGED <<kv, missing>> /\ missing[p] = {} /\ InRace(p)
        /\ \A q \in Publishers \ {p} : pc'[q] = pc[q]
    BY <1>4 DEF StartReadback, Goto, store, InRace
  <2>2. Leads(p) => Stored(Manifest)
    BY <1>1, <2>1 DEF Leads, CustodyInv, StoredIsPrefix
  <2>3. \A q \in Publishers \ {p} : Leads(q) => Leads(q)'
    BY <2>1 DEF Leads, InRace, Absent
  <2>4. QED
    BY <1>1, <2>1, <2>2, <2>3
<1>5. ASSUME NEW p \in Publishers, SendCreate(p)
      PROVE  Begun' => Led'
  <2>1. /\ UNCHANGED <<kv, missing>> /\ InRace(p) /\ InRace(p)'
        /\ \A q \in Publishers \ {p} : pc'[q] = pc[q]
    BY <1>5 DEF SendCreate, Goto, InRace
  <2>2. \A q \in Publishers : Leads(q) => Leads(q)'
    BY <2>1 DEF Leads, InRace, Absent
  <2>3. QED
    BY <1>1, <2>1, <2>2
<1>6. ASSUME NEW p \in Publishers,
             \/ PreflightRead(p) \/ PreflightUnexpected(p) \/ PreflightProbe(p)
             \/ ReadbackRead(p) \/ ReadbackNotFound(p) \/ ReadbackProbe(p)
             \/ ReadbackDone(p)
      PROVE  Begun' => Led'
  <2>1. /\ UNCHANGED kv /\ ~InRace(p) /\ ~InRace(p)'
        /\ \A q \in Publishers \ {p} :
             pc'[q] = pc[q] /\ missing'[q] = missing[q]
    BY <1>6
    DEF PreflightRead, PreflightUnexpected, PreflightProbe, ReadbackRead,
        ReadbackNotFound, ReadbackProbe, ReadbackDone, Goto, store, InRace
  <2>2. \A q \in Publishers : InRace(q) <=> InRace(q)'
    BY <2>1 DEF InRace
  <2>3. \A q \in Publishers : Leads(q) => Leads(q)'
    BY <2>1, <2>2 DEF Leads, Absent
  <2>4. QED
    BY <1>1, <2>1, <2>2, <2>3 DEF Absent
<1>7. ASSUME UNCHANGED <<kv, pc, missing>>
      PROVE  Begun' => Led'
  <2>1. \A p \in Publishers : (InRace(p) <=> InRace(p)') /\ (Leads(p) => Leads(p)')
    BY <1>7 DEF Leads, InRace, Absent
  <2>2. Begun' => Begun
    BY <1>7, <2>1 DEF Absent
  <2>3. QED
    BY <1>1, <2>1, <2>2
<1>8. ASSUME NEW p \in Publishers, TransportFails(p)
      PROVE  FALSE
  BY <1>8 DEF TransportFails
<1>9. ASSUME NEW o \in Objects, Overwrite(o) \/ SoftDelete(o) \/ PurgeMetadata(o)
      PROVE  FALSE
  BY <1>1, <1>9 DEF Overwrite, SoftDelete, PurgeMetadata, Edit
<1>10. Begun' => Led'
  <2>1. ASSUME NEW p \in Publishers, PublisherStep(p)
        PROVE  Begun' => Led'
    BY <1>2, <1>3, <1>4, <1>5, <1>6, <2>1, Zenon DEF PublisherStep
  <2>2. ASSUME NEW r \in Readers, ReaderStep(r) \/ ReaderTransportFails(r)
        PROVE  UNCHANGED <<kv, pc, missing>>
    BY <2>2 DEF ReaderStep, ReadManifest, ReadChunk, RecheckManifest,
       ReaderTransportFails, store, publisher
  <2>3. CASE Finished \/ UNCHANGED vars
    BY <1>7, <2>3 DEF Finished, vars, store, publisher
  <2>4. QED
    BY <1>7, <1>8, <1>9, <2>1, <2>2, <2>3, Zenon DEF Next
<1>11. QED
  BY <1>10 DEF RaceHasALeader

\* Where the transport holds and nobody edits the store, publishers who get in
\* each other's way cannot all be refused: the one whose create was accepted
\* last holds the exact rest of the package.
THEOREM RaceKeepsALeader == Spec => []RaceHasALeader
<1>1. Init => RaceHasALeader /\ RequestsAreAwaited
  BY CustodyAssumption
  DEF Init, RaceHasALeader, RequestsAreAwaited, InRace, Objects, Manifest
<1>2. QED
  BY <1>1, TypeInit, TypeStep, CustodyInit, CustodyStep, AwaitedStep, RaceStep,
     PTL DEF Spec

\* A publisher whose create is refused was overtaken: the manifest is there, or
\* another publisher holds the exact rest.  So a publisher that is alone is
\* never refused, which is what module CustodyRole takes a refusal to mean.
THEOREM RefusedByARival ==
  ASSUME ~Faults
  PROVE  Spec => [][\A p \in Publishers :
                      edits = 0 /\ pc[p] = "waiting" /\ pc'[p] = "failed" =>
                        \/ Stored(Manifest)
                        \/ \E q \in Publishers \ {p} : Leads(q)]_vars
<1> DEFINE IInv == TypeOK /\ CustodyInv /\ RequestsAreAwaited /\ RaceHasALeader
           Refused(p) == edits = 0 /\ pc[p] = "waiting" /\ pc'[p] = "failed"
           Overtaken(p) == \/ Stored(Manifest)
                           \/ \E q \in Publishers \ {p} : Leads(q)
<1>1. Init => IInv
  BY CustodyAssumption, TypeInit, CustodyInit
  DEF Init, RaceHasALeader, RequestsAreAwaited, InRace, Objects, Manifest
<1>2. IInv /\ [Next]_vars => IInv'
  BY TypeStep, CustodyStep, AwaitedStep, RaceStep
<1>3. ASSUME IInv, Next, NEW p \in Publishers, Refused(p)
      PROVE  Overtaken(p)
  <2> USE <1>3 DEF TypeOK, Goto, store, operator, publisher, reader
  <2>1. ASSUME NEW o \in Objects, ServeCreate(p, o)
        PROVE  Overtaken(p)
    <3>1. kv[o] # Absent
      BY <2>1 DEF ServeCreate
    <3>2. InRace(p) /\ NextMissing(p, o)
      BY <2>1 DEF ServeCreate, RequestsAreAwaited, InRace
    <3>3. ~Leads(p)
      BY <3>1, <3>2 DEF Leads, NextMissing
    <3>4. QED
      BY <3>2, <3>3 DEF RaceHasALeader
  <2>2. ASSUME NEW q \in Publishers, NEW o \in Objects, ServeCreate(q, o), q # p
        PROVE  FALSE
    BY <2>2 DEF ServeCreate
  <2>3. ASSUME NEW q \in Publishers,
               \/ PreflightRead(q) \/ PreflightUnexpected(q) \/ PreflightProbe(q)
               \/ PreflightDone(q) \/ SendCreate(q) \/ StartReadback(q)
               \/ ReadbackRead(q) \/ ReadbackNotFound(q) \/ ReadbackProbe(q)
               \/ ReadbackDone(q) \/ TransportFails(q)
        PROVE  FALSE
    BY <2>3
    DEF PreflightRead, PreflightUnexpected, PreflightProbe, PreflightDone,
        SendCreate, StartReadback, ReadbackRead, ReadbackNotFound,
        ReadbackProbe, ReadbackDone, TransportFails
  <2>4. ASSUME UNCHANGED pc
        PROVE  FALSE
    BY <2>4
  <2>5. QED
    BY <2>1, <2>2, <2>3, <2>4
    DEF Next, PublisherStep, ReaderStep, ReadManifest, ReadChunk,
        RecheckManifest, ReaderTransportFails, Overwrite, SoftDelete,
        PurgeMetadata, Edit, Finished, vars
<1>4. IInv /\ [Next]_vars =>
        [\A p \in Publishers : Refused(p) => Overtaken(p)]_vars
  BY <1>3
<1>5. QED
  BY <1>1, <1>2, <1>4, PTL DEF Spec
=============================================================================
