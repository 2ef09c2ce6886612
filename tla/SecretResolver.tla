---------------------------- MODULE SecretResolver ----------------------------
(***************************************************************************)
(* Role secret_resolver: runs of the role that resolve their requests, one *)
(* after the other, from a chain of providers, generate what no provider   *)
(* has, and write it to one HashiCorp Vault KV version 2 document.  The    *)
(* document holds the keys of several requests, and each write replaces    *)
(* the whole of it: the role reads the document, adds its key and writes   *)
(* with check-and-set.  Other runs and operators use the document between  *)
(* any two calls, and a call may time out and be served later.             *)
(* A value is a pair of where it came from and what it was made for.       *)
(***************************************************************************)
EXTENDS Integers, Sequences

CONSTANTS Runs,        \* runs of the role
          Requests,    \* the requests they are given
          Plan,        \* secret_resolver_requests of each run
          Keys,        \* keys of the document
          KeyOf,       \* the key each request reads and writes
          Order,       \* provider order, "generated" appended if enabled
          FallbackOn,  \* fallback_on, or nothing if fallback is not allowed
          WriteBack,   \* requests with write_back enabled
          Migrate,     \* requests with migration enabled
          Overwrite,   \* requests whose write_back or migration overwrites
          MustPersist, \* requests with persistence_required
          Required,    \* requests that are not optional
          WithDefault, \* requests with an explicit default
          CheckRuns,   \* runs in check mode
          External, Default, Operator, \* origins of values
          Nothing,     \* no value
          MaxEdits     \* bound: what operators do to the document

Providers == {"hashicorp_vault", "external", "generated"}
Absence == {"secret_not_found", "secret_key_missing"}
Trouble == {"provider_unavailable"}

Values == (Runs \cup {External, Default, Operator})
            \X (Requests \cup 0..MaxEdits)

ASSUME ResolverAssumption ==
  /\ Plan \in [Runs -> Seq(Requests)]
  /\ \A r \in Runs : Plan[r] # <<>>
  /\ KeyOf \in [Requests -> Keys]
  /\ Order \in [Requests -> Seq(Providers)]
  /\ FallbackOn \in [Requests -> SUBSET (Absence \cup Trouble)]
  /\ {External, Default, Operator} \cap Runs = {}
  /\ Nothing \notin Values
  /\ Keys # {}
  /\ MaxEdits \in Nat

\* validate_request.yml: a write-back reads its own target first, a migration
\* has one provider, which is not the target, and no fallback.
ValidRequests ==
  /\ WriteBack \cup Migrate \subseteq Requests
  /\ \A q \in WriteBack : Order[q] # <<>> /\ Order[q][1] = "hashicorp_vault"
  /\ \A q \in Migrate : Order[q] = <<"external">> /\ FallbackOn[q] = {}
  /\ WriteBack \cap Migrate = {}
  /\ MustPersist \subseteq WriteBack
  /\ WithDefault \cap (WriteBack \cup Migrate) = {}

ASSUME PolicyAssumption == ValidRequests

VARIABLES data,      \* the keys of the latest version
          version,   \* its number, 0 if nothing was ever written
          live,      \* FALSE if it does not exist or is soft-deleted
          inflight,  \* writes that Vault has not served
          edits,     \* what operators have done so far (bound)
          phase,     \* where each run is
          at,        \* the request it is at
          turn,      \* the provider it is at
          failures,  \* attempt_failures: the categories of failed attempts
          value,     \* the value of the request
          snap,      \* the document it builds its write on
          results,   \* the result dictionary
          before     \* history: the keys Vault had when the run started

document == <<data, version, live>>
run == <<phase, at, turn, failures, value, snap, results, before>>
vars == <<document, inflight, edits, run>>

Document == [Keys -> Values \cup {Nothing}]
Empty == [k \in Keys |-> Nothing]
Phases == {"idle", "attempt", "persist", "write", "sent", "accept", "published",
           "failed"}
Active(r) == phase[r] \notin {"idle", "published", "failed"}

Request(r) == Plan[r][at[r]]
Key(r) == KeyOf[Request(r)]
Generated(r) == <<r, Request(r)>>

Clear == [cas |-> 0, data |-> Empty]

\* What a read of the document shows.
Visible == IF live THEN data ELSE Empty

\* A run is at one of its requests, and at a provider or past the last one.
Placed(a, t, r) ==
  /\ a[r] \in 1..Len(Plan[r])
  /\ t[r] \in 1..Len(Order[Plan[r][a[r]]]) + 1

TypeOK ==
  /\ data \in Document /\ version \in Nat /\ live \in BOOLEAN
  /\ inflight \subseteq [run : Runs, cas : Nat, data : Document]
  /\ edits \in 0..MaxEdits
  /\ phase \in [Runs -> Phases]
  /\ at \in [Runs -> Nat] /\ turn \in [Runs -> Nat]
  /\ \A r \in Runs : Placed(at, turn, r)
  /\ failures \in [Runs -> Seq(Absence \cup Trouble)]
  /\ value \in [Runs -> Values \cup {Nothing}]
  /\ snap \in [Runs -> [cas : Nat, data : Document]]
  /\ results \in [Runs -> [Requests -> Values \cup {Nothing}]]
  /\ before \in [Runs -> SUBSET Keys]

Init ==
  /\ data = Empty /\ version = 0 /\ live = FALSE
  /\ inflight = {} /\ edits = 0
  /\ phase = [r \in Runs |-> "idle"]
  /\ at = [r \in Runs |-> 1]
  /\ turn = [r \in Runs |-> 1]
  /\ failures = [r \in Runs |-> <<>>]
  /\ value = [r \in Runs |-> Nothing]
  /\ snap = [r \in Runs |-> Clear]
  /\ results = [r \in Runs |-> [q \in Requests |-> Nothing]]
  /\ before = [r \in Runs |-> {}]

Goto(r, p) == phase' = [phase EXCEPT ![r] = p]

\* The outputs are cleared and the configuration is valid.
Start(r) ==
  /\ phase[r] = "idle"
  /\ Goto(r, "attempt")
  /\ before' = [before EXCEPT ![r] = {k \in Keys : Visible[k] # Nothing}]
  /\ UNCHANGED <<document, inflight, edits, at, turn, failures, value, snap,
                 results>>

(***************************************************************************)
(* attempt_provider.yml                                                    *)
(***************************************************************************)

Last(s) == s[Len(s)]
LastFailure(r) ==
  IF failures[r] = <<>> THEN "secret_not_found" ELSE Last(failures[r])

AtProvider(r, p) ==
  /\ phase[r] = "attempt"
  /\ turn[r] <= Len(Order[Request(r)])
  /\ Order[Request(r)][turn[r]] = p

\* Variant of Eligible that lets generation follow any failure.
EligibleAfterAll(r, p) ==
  \/ failures[r] = <<>>
  \/ p = "generated"
  \/ LastFailure(r) \in FallbackOn[Request(r)]

\* The first provider is tried, generation follows an absence, and otherwise
\* the last failure must be one that the request falls back on.
Eligible(r, p) ==
  \/ failures[r] = <<>>
  \/ p = "generated" /\ LastFailure(r) \in Absence
  \/ LastFailure(r) \in FallbackOn[Request(r)]

Skip(r) ==
  /\ \E p \in Providers : AtProvider(r, p) /\ ~Eligible(r, p)
  /\ turn' = [turn EXCEPT ![r] = @ + 1]
  /\ UNCHANGED <<document, inflight, edits, phase, at, failures, value, snap,
                 results, before>>

NeedsPersistence(r, v) ==
  \/ v = Generated(r) /\ Request(r) \in WriteBack
  \/ Request(r) \in Migrate

Resolve(r, v) ==
  /\ value' = [value EXCEPT ![r] = v]
  /\ Goto(r, IF NeedsPersistence(r, v) THEN "persist" ELSE "accept")
  /\ UNCHANGED <<document, inflight, edits, at, turn, failures, snap, results,
                 before>>

RecordFailure(r, c) ==
  /\ failures' = [failures EXCEPT ![r] = Append(@, c)]
  /\ turn' = [turn EXCEPT ![r] = @ + 1]
  /\ UNCHANGED <<document, inflight, edits, phase, at, value, snap, results,
                 before>>

Attempts(r, p) == AtProvider(r, p) /\ Eligible(r, p)

ReadVault(r) ==
  /\ Attempts(r, "hashicorp_vault")
  /\ IF Visible[Key(r)] # Nothing
     THEN Resolve(r, Visible[Key(r)])
     ELSE RecordFailure(r, IF live THEN "secret_key_missing"
                                   ELSE "secret_not_found")

ReadExternal(r) ==
  /\ Attempts(r, "external")
  /\ \/ Resolve(r, <<External, Request(r)>>)
     \/ \E c \in Absence : RecordFailure(r, c)

NoAnswer(r) ==
  /\ \E p \in {"hashicorp_vault", "external"} : Attempts(r, p)
  /\ \E c \in Trouble : RecordFailure(r, c)

Generate(r) ==
  /\ Attempts(r, "generated")
  /\ Resolve(r, Generated(r))

(***************************************************************************)
(* resolve_request.yml, after the providers                                *)
(***************************************************************************)

Exhausted(r) ==
  phase[r] = "attempt" /\ turn[r] > Len(Order[Request(r)])

UseDefault(r) ==
  /\ Exhausted(r)
  /\ LastFailure(r) \in Absence
  /\ Request(r) \in WithDefault
  /\ Resolve(r, <<Default, Request(r)>>)

\* The private state of a run is cleared when it ends, in any case.
Finish(r, p) ==
  /\ Goto(r, p)
  /\ at' = [at EXCEPT ![r] = 1]
  /\ turn' = [turn EXCEPT ![r] = 1]
  /\ failures' = [failures EXCEPT ![r] = <<>>]
  /\ value' = [value EXCEPT ![r] = Nothing]
  /\ snap' = [snap EXCEPT ![r] = Clear]

\* Variant of NextRequest that keeps the provider of the last request.
NextRequestInPlace(r) ==
  IF at[r] = Len(Plan[r])
  THEN Finish(r, "published")
  ELSE /\ Goto(r, "attempt")
       /\ at' = [at EXCEPT ![r] = @ + 1]
       /\ UNCHANGED <<turn, failures, value, snap>>

\* The run goes on to its next request, or publishes its results.
NextRequest(r) ==
  IF at[r] = Len(Plan[r])
  THEN Finish(r, "published")
  ELSE /\ Goto(r, "attempt")
       /\ at' = [at EXCEPT ![r] = @ + 1]
       /\ turn' = [turn EXCEPT ![r] = 1]
       /\ failures' = [failures EXCEPT ![r] = <<>>]
       /\ value' = [value EXCEPT ![r] = Nothing]
       /\ snap' = [snap EXCEPT ![r] = Clear]

\* An optional request that is absent is left out of the result.
LeaveOut(r) ==
  /\ Exhausted(r)
  /\ LastFailure(r) \in Absence
  /\ Request(r) \notin WithDefault \cup Required
  /\ NextRequest(r)
  /\ UNCHANGED <<document, inflight, edits, results, before>>

Accept(r) ==
  /\ phase[r] = "accept"
  /\ results' = [results EXCEPT ![r] = [@ EXCEPT ![Request(r)] = value[r]]]
  /\ NextRequest(r)
  /\ UNCHANGED <<document, inflight, edits, before>>

(***************************************************************************)
(* persist_hashicorp_vault.yml                                             *)
(***************************************************************************)

SameValue(r) == Visible[Key(r)] = value[r]

\* A different value of the key may be replaced only with overwrite=true.
MayWrite(r) ==
  /\ ~SameValue(r)
  /\ Visible[Key(r)] = Nothing \/ Request(r) \in Overwrite

\* The read of the whole target document.  Check mode ends here: the value
\* would be written, which is not enough if persistence is required.
ReadTarget(r) ==
  /\ phase[r] = "persist"
  /\ snap' = [snap EXCEPT ![r] =
                [cas |-> IF live THEN version ELSE 0, data |-> Visible]]
  /\ \/ SameValue(r) /\ Goto(r, "accept")
     \/ MayWrite(r) /\ r \notin CheckRuns /\ Goto(r, "write")
     \/ /\ MayWrite(r) /\ r \in CheckRuns /\ Request(r) \notin MustPersist
        /\ Goto(r, "accept")
  /\ UNCHANGED <<document, inflight, edits, at, turn, failures, value, results,
                 before>>

\* Variant of NewDocument that holds nothing but the key.
NewDocumentOfKey(r) == [Empty EXCEPT ![Key(r)] = value[r]]

\* The document that was read, with the key in it.
NewDocument(r) == [snap[r].data EXCEPT ![Key(r)] = value[r]]

SendWrite(r) ==
  /\ phase[r] = "write"
  /\ inflight' = inflight \cup
       {[run |-> r, cas |-> snap[r].cas, data |-> NewDocument(r)]}
  /\ Goto(r, "sent")
  /\ UNCHANGED <<document, edits, at, turn, failures, value, snap, results,
                 before>>

\* The run hears the outcome if it still waits for this write.
Answered(w, p) ==
  IF phase[w.run] = "sent" THEN Goto(w.run, p) ELSE UNCHANGED phase

\* Variant of Rejected that takes the rescue for a success.
RejectedUnnoticed(w) ==
  /\ w.cas # version
  /\ Answered(w, "accept")
  /\ UNCHANGED document

Unchanged(w) ==
  /\ live /\ data = w.data
  /\ Answered(w, "accept")
  /\ UNCHANGED document

Applied(w) ==
  /\ ~(live /\ data = w.data)
  /\ w.cas = version
  /\ version' = version + 1 /\ data' = w.data /\ live' = TRUE
  /\ Answered(w, "accept")

Rejected(w) ==
  /\ ~(live /\ data = w.data)
  /\ w.cas # version
  /\ Answered(w, "failed")
  /\ UNCHANGED document

\* vault_kv2_write with read_before_write, and Vault's check-and-set.
Serve(w) ==
  /\ Unchanged(w) \/ Applied(w) \/ Rejected(w)
  /\ inflight' = inflight \ {w}
  /\ UNCHANGED <<edits, at, turn, failures, value, snap, results, before>>

Lose(w) ==
  /\ inflight' = inflight \ {w}
  /\ UNCHANGED <<document, edits, run>>

(***************************************************************************)
(* Failures and operators                                                  *)
(***************************************************************************)

\* A refused check, a category that is no absence, an overwrite that is not
\* allowed, a call that times out, a kill: nothing is published.  A write
\* that was sent may still be served.
Fail(r) ==
  /\ Active(r)
  /\ Finish(r, "failed")
  /\ results' = [results EXCEPT ![r] = [q \in Requests |-> Nothing]]
  /\ before' = [before EXCEPT ![r] = {}]
  /\ UNCHANGED <<document, inflight, edits>>

\* An operator sets a key; a deleted document starts from nothing.
EditKey(k) ==
  /\ edits < MaxEdits
  /\ edits' = edits + 1
  /\ data' = [Visible EXCEPT ![k] = <<Operator, edits>>]
  /\ version' = version + 1 /\ live' = TRUE
  /\ UNCHANGED <<inflight, run>>

\* Soft deletion of the latest version, and its undoing.
DeleteOrRestore ==
  /\ edits < MaxEdits
  /\ version > 0
  /\ edits' = edits + 1
  /\ live' = ~live
  /\ UNCHANGED <<data, version, inflight, run>>

Resolution(r) ==
  \/ Start(r) \/ Skip(r) \/ ReadVault(r) \/ ReadExternal(r) \/ NoAnswer(r)
  \/ Generate(r) \/ UseDefault(r) \/ LeaveOut(r) \/ Accept(r)

Persistence(r) == ReadTarget(r) \/ SendWrite(r)

Surroundings ==
  \/ \E w \in inflight : Serve(w) \/ Lose(w)
  \/ \E k \in Keys : EditKey(k)
  \/ DeleteOrRestore

Next ==
  \/ \E r \in Runs : Resolution(r) \/ Persistence(r) \/ Fail(r)
  \/ Surroundings

Spec == Init /\ [][Next]_vars

-----------------------------------------------------------------------------
(***************************************************************************)
(* Properties                                                              *)
(***************************************************************************)

\* Nobody may replace the value of the key by policy.
Fixed(k) == \A q \in Overwrite : KeyOf[q] # k

\* Runs that resolve a write-back request, concurrently or one after the
\* other, agree: whatever one of them takes from Vault or has generated is what
\* Vault holds, even if writes are lost, late or rejected.  In check mode this
\* needs persistence_required.
WriteBackAgrees ==
  edits = 0 =>
    \A r \in Runs, q \in WriteBack :
      /\ Fixed(KeyOf[q])
      /\ r \notin CheckRuns \/ q \in MustPersist
      /\ results[r][q] # Nothing
      /\ results[r][q][1] \in Runs
      => live /\ data[KeyOf[q]] = results[r][q]

\* A run that starts after a key was written does not generate a value for it,
\* although it generates one whenever the first provider has none.
LaterRunRetrieves ==
  edits = 0 =>
    \A r \in Runs, q \in WriteBack :
      KeyOf[q] \in before[r] => results[r][q] # <<r, q>>

\* The role writes whole documents on a read that may be stale, but a write that
\* takes effect changes one key, and replaces its value only for a request that
\* may overwrite it: what other runs or operators have stored meanwhile is not
\* lost, also when the document was deleted and restored in between.
WritesKeepTheRest ==
  [][edits' = edits =>
       \E k \in Keys :
         /\ \A j \in Keys \ {k} : data'[j] = data[j]
         /\ data[k] # Nothing /\ data'[k] # data[k] => ~Fixed(k)]_vars

\* README.md: "Generation is attempted only after secret_not_found or
\* secret_key_missing."
GenerationFollowsAbsence ==
  \A r \in Runs :
    Active(r) /\ value[r] = Generated(r) /\ failures[r] # <<>> =>
      Last(failures[r]) \in Absence
=============================================================================
