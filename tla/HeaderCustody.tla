---------------------------- MODULE HeaderCustody ----------------------------
(***************************************************************************)
(* Custody of one LUKS header package in a Vault KV version 2 store:       *)
(* vault_custody (plan, apply, verify) and vault_read_custody.             *)
(*                                                                         *)
(* The package is cut into chunks.  Its objects live under a path that     *)
(* contains the checksum of the package, so every publisher of a path      *)
(* wants to store the same values.  A publisher first reads every object,  *)
(* then creates the missing ones in order, the manifest last and each with *)
(* cas=0, and reads everything back.  Whoever finds the manifest may rely  *)
(* on the chunks.                                                          *)
(***************************************************************************)
EXTENDS Naturals

CONSTANTS Publishers,  \* runs of vault_custody
          Readers,     \* runs of vault_read_custody
          Chunks,      \* number of chunks of the package
          Faults,      \* TRUE: the transport may fail
          MaxEdits   \* bound: steps of an operator who edits the store

ASSUME CustodyAssumption ==
  /\ Chunks \in Nat \ {0}
  /\ MaxEdits \in Nat
  /\ Faults \in BOOLEAN

Manifest == Chunks + 1
Objects == 1 .. Manifest

VARIABLES kv,        \* what Vault stores under each object's path
          inflight,  \* create requests that Vault has not served yet
          edits,     \* how many objects the operator has edited (bound)
          purges,    \* how often an object's metadata were removed, of those
          op,        \* plan, apply or verify, for each publisher
          pc,        \* where each publisher is
          pos,       \* the object it reads next
          missing,   \* the objects it found missing and has not created
          odd,       \* what its readback found amiss
          report,    \* what it returned
          rpc,       \* where each reader is
          rpos,      \* the chunk it reads next
          rversion   \* the manifest version it read first

operator == <<edits, purges>>
publisher == <<op, pc, pos, missing, odd, report>>
reader == <<rpc, rpos, rversion>>
store == <<kv, inflight, operator>>
vars == <<store, publisher, reader>>

\* An object's path: no metadata at all, a live current version, or a deleted
\* or destroyed one.  The data are this package's or somebody else's.
Absent == [state |-> "absent", data |-> "none", version |-> 0]
Stored(o) == kv[o].state = "live" /\ kv[o].data = "package"

\* apply in check mode is "plan" here: both stop after the preflight.  An apply
\* without allow_create is refused before its first request and is not modelled.
Operations == {"plan", "apply", "verify"}
Working == {"preflight", "preflight404", "creating", "waiting", "readback",
            "readback404"}
Phases == Working \cup {"done", "failed"}
ReaderPhases == {"manifest", "chunks", "done", "torn", "failed"}
Reports == {"none", "verified", "planned", "incomplete"}

Goto(p, phase) == pc' = [pc EXCEPT ![p] = phase]
RGoto(r, phase) == rpc' = [rpc EXCEPT ![r] = phase]

Init ==
  /\ kv = [o \in Objects |-> Absent]
  /\ inflight = {}
  /\ edits = 0
  /\ purges = 0
  /\ op \in [Publishers -> Operations]
  /\ pc = [p \in Publishers |-> "preflight"]
  /\ pos = [p \in Publishers |-> 1]
  /\ missing = [p \in Publishers |-> {}]
  /\ odd = [p \in Publishers |-> {}]
  /\ report = [p \in Publishers |-> "none"]
  /\ rpc = [r \in Readers |-> "manifest"]
  /\ rpos = [r \in Readers |-> 1]
  /\ rversion = [r \in Readers |-> 0]

-----------------------------------------------------------------------------
(* Publishers.                                                             *)

\* VaultHTTP.read asks for the data; on a 404 it asks for the metadata, which
\* is another request.  The first question finds the expected value, ...
PreflightRead(p) ==
  /\ pc[p] = "preflight" /\ pos[p] \in Objects
  /\ Stored(pos[p])
  /\ pos' = [pos EXCEPT ![p] = @ + 1]
  /\ UNCHANGED <<store, op, pc, missing, odd, report, reader>>

\* ... or somebody else's, which is never overwritten, or nothing.
PreflightUnexpected(p) ==
  /\ pc[p] = "preflight" /\ pos[p] \in Objects
  /\ ~Stored(pos[p])
  /\ Goto(p, IF kv[pos[p]].state = "live" THEN "failed" ELSE "preflight404")
  /\ UNCHANGED <<store, op, pos, missing, odd, report, reader>>

\* Any history at all fails the run: a deleted or destroyed version is not
\* permission to recreate custody, and an object that was created since the
\* first question looks the same.
PreflightProbe(p) ==
  /\ pc[p] = "preflight404" /\ pos[p] \in Objects
  /\ \/ /\ kv[pos[p]] = Absent
        /\ missing' = [missing EXCEPT ![p] = @ \cup {pos[p]}]
        /\ pos' = [pos EXCEPT ![p] = @ + 1]
        /\ Goto(p, "preflight")
     \/ /\ kv[pos[p]] # Absent
        /\ Goto(p, "failed")
        /\ UNCHANGED <<pos, missing>>
  /\ UNCHANGED <<store, op, odd, report, reader>>

\* Variant, for the mutation runs: a plan counts as a verification.
PreflightDoneOptimistic(p) ==
  /\ pc[p] = "preflight" /\ pos[p] = Manifest + 1
  /\ Goto(p, IF op[p] = "apply" THEN "creating" ELSE "done")
  /\ report' = [report EXCEPT ![p] = IF op[p] = "apply" THEN @ ELSE "verified"]
  /\ UNCHANGED <<store, op, pos, missing, odd, reader>>

\* Every object was read: verify refuses an incomplete custody, plan reports,
\* apply goes on.
PreflightDone(p) ==
  /\ pc[p] = "preflight" /\ pos[p] = Manifest + 1
  /\ \/ /\ op[p] = "verify" /\ missing[p] # {}
        /\ Goto(p, "failed") /\ UNCHANGED report
     \/ /\ op[p] = "apply"
        /\ Goto(p, "creating") /\ UNCHANGED report
     \/ /\ op[p] = "verify" => missing[p] = {}
        /\ op[p] # "apply"
        /\ Goto(p, "done")
        /\ report' = [report EXCEPT ![p] =
                        IF missing[p] = {} THEN "verified" ELSE "planned"]
  /\ UNCHANGED <<store, op, pos, missing, odd, reader>>

\* The next missing object, in the order of the package.
NextMissing(p, o) == o \in missing[p] /\ \A m \in missing[p] : o <= m

\* Variant, for the mutation runs: the manifest is created first.
SendCreateManifestFirst(p) ==
  /\ pc[p] = "creating"
  /\ \E o \in missing[p] :
       /\ \A m \in missing[p] : m <= o
       /\ inflight' = inflight \cup {<<p, o>>}
  /\ Goto(p, "waiting")
  /\ UNCHANGED <<kv, operator, op, pos, missing, odd, report, reader>>

\* Variant, for the mutation runs: the objects are created in any order.
SendCreateAnyOrder(p) ==
  /\ pc[p] = "creating"
  /\ \E o \in missing[p] : inflight' = inflight \cup {<<p, o>>}
  /\ Goto(p, "waiting")
  /\ UNCHANGED <<kv, operator, op, pos, missing, odd, report, reader>>

\* Variant, for the mutation runs: requests are sent without waiting.
SendCreatePipelined(p) ==
  /\ pc[p] = "creating"
  /\ \E o \in Objects :
       /\ NextMissing(p, o)
       /\ inflight' = inflight \cup {<<p, o>>}
       /\ missing' = [missing EXCEPT ![p] = @ \ {o}]
  /\ UNCHANGED <<kv, operator, op, pc, pos, odd, report, reader>>

\* The POST of VaultHTTP.create.  The publisher waits for the answer.
SendCreate(p) ==
  /\ pc[p] = "creating"
  /\ \E o \in Objects : NextMissing(p, o) /\ inflight' = inflight \cup {<<p, o>>}
  /\ Goto(p, "waiting")
  /\ UNCHANGED <<kv, operator, op, pos, missing, odd, report, reader>>

\* Variant, for the mutation runs: the create carries no cas.
ServeCreateOverwriting(p, o) ==
  /\ <<p, o>> \in inflight
  /\ inflight' = inflight \ {<<p, o>>}
  /\ kv' = [kv EXCEPT ![o] = [state |-> "live", data |-> "package",
                              version |-> @.version + 1]]
  /\ IF pc[p] # "waiting" THEN UNCHANGED <<pc, missing>>
     ELSE missing' = [missing EXCEPT ![p] = @ \ {o}] /\ Goto(p, "creating")
  /\ UNCHANGED <<operator, op, pos, odd, report, reader>>

\* Vault serves a create with cas=0: it succeeds only where no version ever
\* was.  A publisher that is still waiting goes on, or raises.
ServeCreate(p, o) ==
  /\ <<p, o>> \in inflight
  /\ inflight' = inflight \ {<<p, o>>}
  /\ kv' = IF kv[o] = Absent
           THEN [kv EXCEPT ![o] =
                   [state |-> "live", data |-> "package", version |-> 1]]
           ELSE kv
  /\ IF pc[p] # "waiting" THEN UNCHANGED <<pc, missing>>
     ELSE IF kv[o] = Absent
     THEN /\ missing' = [missing EXCEPT ![p] = @ \ {o}]
          /\ Goto(p, "creating")
     ELSE Goto(p, "failed") /\ UNCHANGED missing
  /\ UNCHANGED <<operator, op, pos, odd, report, reader>>

StartReadback(p) ==
  /\ pc[p] = "creating" /\ missing[p] = {}
  /\ pos' = [pos EXCEPT ![p] = 1]
  /\ Goto(p, "readback")
  /\ UNCHANGED <<store, op, missing, odd, report, reader>>

ReadbackRead(p) ==
  /\ pc[p] = "readback" /\ pos[p] \in Objects
  /\ kv[pos[p]].state = "live"
  /\ odd' = [odd EXCEPT ![p] =
               IF Stored(pos[p]) THEN @ ELSE @ \cup {"differs"}]
  /\ pos' = [pos EXCEPT ![p] = @ + 1]
  /\ UNCHANGED <<store, op, pc, missing, report, reader>>

ReadbackNotFound(p) ==
  /\ pc[p] = "readback" /\ pos[p] \in Objects
  /\ kv[pos[p]].state # "live"
  /\ Goto(p, "readback404")
  /\ UNCHANGED <<store, op, pos, missing, odd, report, reader>>

ReadbackProbe(p) ==
  /\ pc[p] = "readback404" /\ pos[p] \in Objects
  /\ \/ /\ kv[pos[p]] = Absent
        /\ odd' = [odd EXCEPT ![p] = @ \cup {"absent"}]
        /\ pos' = [pos EXCEPT ![p] = @ + 1]
        /\ Goto(p, "readback")
     \/ /\ kv[pos[p]] # Absent
        /\ Goto(p, "failed")
        /\ UNCHANGED <<pos, odd>>
  /\ UNCHANGED <<store, op, missing, report, reader>>

\* An absent row makes the result incomplete, and only a complete result is
\* compared with the package.
ReadbackDone(p) ==
  /\ pc[p] = "readback" /\ pos[p] = Manifest + 1
  /\ \/ /\ "absent" \in odd[p]
        /\ Goto(p, "done") /\ report' = [report EXCEPT ![p] = "incomplete"]
     \/ /\ odd[p] = {"differs"}
        /\ Goto(p, "failed") /\ UNCHANGED report
     \/ /\ odd[p] = {}
        /\ Goto(p, "done") /\ report' = [report EXCEPT ![p] = "verified"]
  /\ UNCHANGED <<store, op, pos, missing, odd, reader>>

\* A timeout or a lost answer: "outcome may be unknown".  There is no retry;
\* a request that was sent may still reach Vault.
TransportFails(p) ==
  /\ Faults
  /\ pc[p] \in Working \ {"creating"}
  /\ Goto(p, "failed")
  /\ UNCHANGED <<store, op, pos, missing, odd, report, reader>>

-----------------------------------------------------------------------------
(* Readers.                                                                *)

ReadManifest(r) ==
  /\ rpc[r] = "manifest"
  /\ \/ /\ Stored(Manifest)
        /\ rversion' = [rversion EXCEPT ![r] = kv[Manifest].version]
        /\ RGoto(r, "chunks")
     \/ ~Stored(Manifest) /\ RGoto(r, "failed") /\ UNCHANGED rversion
  /\ UNCHANGED <<store, publisher, rpos>>

\* Variant, for the mutation runs: the manifest is read as one more chunk.
ReadChunkPastEnd(r) ==
  /\ rpc[r] = "chunks" /\ rpos[r] <= Manifest
  /\ Stored(rpos[r])
  /\ rpos' = [rpos EXCEPT ![r] = @ + 1]
  /\ UNCHANGED <<store, publisher, rpc, rversion>>

\* Missing, deleted or not this package's: the retrieval fails.
ReadChunk(r) ==
  /\ rpc[r] = "chunks" /\ rpos[r] <= Chunks
  /\ \/ /\ Stored(rpos[r])
        /\ rpos' = [rpos EXCEPT ![r] = @ + 1]
        /\ UNCHANGED rpc
     \/ ~Stored(rpos[r]) /\ RGoto(r, "torn") /\ UNCHANGED rpos
  /\ UNCHANGED <<store, publisher, rversion>>

\* The manifest is read again and must be the same version.
RecheckManifest(r) ==
  /\ rpc[r] = "chunks" /\ rpos[r] = Chunks + 1
  /\ RGoto(r, IF Stored(Manifest) /\ kv[Manifest].version = rversion[r]
              THEN "done" ELSE "torn")
  /\ UNCHANGED <<store, publisher, rpos, rversion>>

ReaderTransportFails(r) ==
  /\ Faults
  /\ rpc[r] \in {"manifest", "chunks"}
  /\ RGoto(r, "failed")
  /\ UNCHANGED <<store, publisher, rpos, rversion>>

-----------------------------------------------------------------------------
(* An operator who works on the store with another tool.                   *)

Edit(o, row) ==
  /\ edits < MaxEdits
  /\ edits' = edits + 1
  /\ purges' = IF row = Absent THEN purges + 1 ELSE purges
  /\ kv' = [kv EXCEPT ![o] = row]
  /\ UNCHANGED <<inflight, publisher, reader>>

Overwrite(o) ==
  Edit(o, [state |-> "live", data |-> "other", version |-> kv[o].version + 1])

SoftDelete(o) ==
  kv[o].state = "live" /\ Edit(o, [kv[o] EXCEPT !.state = "deleted"])

PurgeMetadata(o) == kv[o] # Absent /\ Edit(o, Absent)

-----------------------------------------------------------------------------
PublisherStep(p) ==
  \/ PreflightRead(p) \/ PreflightUnexpected(p) \/ PreflightProbe(p)
  \/ PreflightDone(p)
  \/ SendCreate(p)
  \/ \E o \in Objects : ServeCreate(p, o)
  \/ StartReadback(p)
  \/ ReadbackRead(p) \/ ReadbackNotFound(p) \/ ReadbackProbe(p)
  \/ ReadbackDone(p)

ReaderStep(r) == ReadManifest(r) \/ ReadChunk(r) \/ RecheckManifest(r)

Finished ==
  /\ \A p \in Publishers : pc[p] \in {"done", "failed"}
  /\ \A r \in Readers : rpc[r] \in {"done", "torn", "failed"}
  /\ UNCHANGED vars

Next ==
  \/ \E p \in Publishers : PublisherStep(p) \/ TransportFails(p)
  \/ \E r \in Readers : ReaderStep(r) \/ ReaderTransportFails(r)
  \/ \E o \in Objects : Overwrite(o) \/ SoftDelete(o) \/ PurgeMetadata(o)
  \/ Finished

Spec == Init /\ [][Next]_vars

\* A run of the module is sequential code, and Vault answers.
FairSpec ==
  /\ Spec
  /\ \A p \in Publishers : WF_vars(PublisherStep(p))
  /\ \A r \in Readers : WF_vars(ReaderStep(r))

-----------------------------------------------------------------------------
Rows == [state: {"absent", "live", "deleted"},
         data: {"none", "package", "other"}, version: Nat]

TypeOK ==
  /\ kv \in [Objects -> Rows]
  /\ inflight \subseteq Publishers \X Objects
  /\ edits \in Nat
  /\ purges \in Nat
  /\ op \in [Publishers -> Operations]
  /\ pc \in [Publishers -> Phases]
  /\ pos \in [Publishers -> 1 .. Manifest + 1]
  /\ missing \in [Publishers -> SUBSET Objects]
  /\ odd \in [Publishers -> SUBSET {"absent", "differs"}]
  /\ report \in [Publishers -> Reports]
  /\ rpc \in [Readers -> ReaderPhases]
  /\ rpos \in [Readers -> 1 .. Chunks + 1]
  /\ rversion \in [Readers -> Nat]

\* The manifest commits the package: while no operator interferes it is never
\* there without every chunk, whichever publishers ran, failed or were
\* overtaken, and whenever Vault served the requests they left behind.
ManifestCommits ==
  edits = 0 /\ kv[Manifest] # Absent => \A o \in Objects : Stored(o)

\* A reader that finds the manifest finds the whole package: publishers do
\* not tear a retrieval that runs at the same time.
NoTornRetrieval == edits = 0 => \A r \in Readers : rpc[r] # "torn"

\* "verified" is reported only for a custody that is complete.
VerifiedIsStored ==
  edits = 0 =>
    \A p \in Publishers, o \in Objects : report[p] = "verified" => Stored(o)

\* What the operator overwrote or deleted, and did not purge, fails every
\* publisher and every reader who has not passed the object for the last time:
\* nothing they send, not even a request that is served long after its sender
\* gave up, puts the package's value back.
Damaged(o) == ~Stored(o) /\ kv[o] # Absent

StillReads(p, o) ==
  \/ pc[p] \in {"preflight", "preflight404", "readback", "readback404"}
     /\ pos[p] <= o
  \/ pc[p] \in {"creating", "waiting"}

ReaderStillReads(r, o) ==
  \/ rpc[r] = "manifest"
  \/ rpc[r] = "chunks" /\ (rpos[r] <= o \/ o = Manifest)

DamageIsNoticed ==
  \A o \in Objects :
    /\ \A p \in Publishers :
         [](Damaged(o) /\ StillReads(p, o)
              => [](report[p] = "verified" => purges > 0))
    /\ \A r \in Readers :
         [](Damaged(o) /\ ReaderStillReads(r, o)
              => [](rpc[r] = "done" => purges > 0))

\* Publishers of one package who get in each other's way do not all fail: on
\* a working store, once one of them has begun to create objects the manifest
\* is eventually committed.
SomeoneCommits ==
  (\E p \in Publishers : pc[p] = "creating") ~> Stored(Manifest)

\* The safety half of the same promise: from the first create on, as long as
\* the manifest is not there, one of the publishers in the race holds exactly
\* the list of what is still absent, so the store will not refuse its next
\* create unless another publisher takes its place at that moment.
InRace(p) == pc[p] \in {"creating", "waiting"}

Leads(p) == InRace(p) /\ missing[p] = {o \in Objects : kv[o] = Absent}

RaceHasALeader ==
  ~Faults /\ edits = 0 /\ (kv[1] # Absent \/ \E p \in Publishers : InRace(p)) =>
    Stored(Manifest) \/ \E p \in Publishers : Leads(p)

-----------------------------------------------------------------------------
(* The custody as a register that is written once.                         *)

Package == "package"
Nobody == "none"

Chosen == IF kv[Manifest] = Absent THEN Nobody ELSE Package

Decided ==
  [t \in Publishers \cup Readers |->
     IF t \in Publishers
     THEN IF report[t] = "verified" THEN Package ELSE Nobody
     ELSE IF rpc[t] = "done" THEN Package ELSE Nobody]

Custody == INSTANCE DocumentConsensus WITH
  Tasks <- Publishers \cup Readers, Values <- {Package}, None <- Nobody,
  chosen <- Chosen, decided <- Decided

CustodySpec == Custody!Spec

-----------------------------------------------------------------------------
(* The inductive strengthening of ManifestCommits, in named parts.         *)

\* Objects are only ever added at the end.
StoredIsPrefix ==
  /\ \A o \in Objects : Stored(o) \/ kv[o] = Absent
  /\ \A o \in Objects : Stored(o) => \A i \in 1 .. o - 1 : Stored(i)

\* What a publisher does not count as missing is stored.
PreflightIsRight ==
  \A p \in Publishers :
    /\ pc[p] \in {"preflight", "preflight404"} =>
         \A i \in Objects : i < pos[p] => i \in missing[p] \/ Stored(i)
    /\ pc[p] \in {"creating", "waiting", "readback", "readback404"} =>
         \A i \in Objects : i \in missing[p] \/ Stored(i)
    /\ pc[p] \in {"readback", "readback404"} => missing[p] = {}

\* A request is sent when everything before its object is stored.
RequestsInOrder ==
  \A p \in Publishers, o \in Objects :
    <<p, o>> \in inflight => \A i \in 1 .. o - 1 : Stored(i)

ReadersAreRight ==
  \A r \in Readers :
    /\ rpc[r] # "torn"
    /\ rpc[r] \in {"chunks", "done"} =>
         Stored(Manifest) /\ rversion[r] = kv[Manifest].version

\* A publisher that returned takes no further step.
ReportIsFinal == \A p \in Publishers : report[p] # "none" => pc[p] = "done"

\* Where the transport holds, a request belongs to a publisher that waits for
\* its answer.
RequestsAreAwaited ==
  ~Faults =>
    \A p \in Publishers, o \in Objects :
      <<p, o>> \in inflight => pc[p] = "waiting" /\ NextMissing(p, o)

CustodyInv ==
  edits = 0 => /\ StoredIsPrefix /\ PreflightIsRight /\ RequestsInOrder
                 /\ ReadersAreRight /\ VerifiedIsStored
=============================================================================
