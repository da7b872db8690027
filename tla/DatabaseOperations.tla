------------------------ MODULE DatabaseOperations ------------------------
(***************************************************************************)
(* Logical dumps and restores of databases (appcare/database): workers     *)
(* that share the SQL operation ledger, the registry of restore targets,   *)
(* the staging directory and the databases.                                *)
(*                                                                         *)
(* A request carries its idempotency key and a digest of all it asks for;  *)
(* two requests may have one key.  The broker runs the database tool in a  *)
(* session of its own, so the tool outlives a worker that dies.  Neither   *)
(* engines nor SQL are looked into: an artifact is known by the request    *)
(* that dumped it, and the content of a database by the dump whose         *)
(* artifact was restored.  A commit either takes effect or raises.         *)
(*                                                                         *)
(* A job is a name that a request brings: dumps of two sources may bring   *)
(* one, and then share a directory though not a scope of the ledger.       *)
(***************************************************************************)
EXTENDS Naturals, FiniteSets

CONSTANTS Workers,        \* workers with an adapter
          Requests,       \* records: kind, key, scope, job, target, of, bound
          MaxDbFaults     \* bound on deaths and failed commits

ASSUME MaxDbFaultsAssumption == MaxDbFaults \in Nat
\* A restore names the dump whose artifact it restores, from that dump's job;
\* bound says whether its target is registered for that source.  A key stands
\* for itself with its scope, and a target's scope is its own.
ASSUME RequestsAssumption ==
    /\ \A r \in Requests :
          /\ r.kind \in {"dump", "restore"} /\ r.bound \in BOOLEAN
          /\ r.key \notin {"none", "partial", "mixed", "empty"}
          /\ r.kind = "restore" => \E q \in Requests :
                                      q.kind = "dump" /\ r.of = q.key /\ r.job = q.job
    /\ \A r, q \in Requests :
          /\ r.key = q.key => r.scope = q.scope /\ r.kind = q.kind
          /\ r.kind = "restore" /\ q.kind = "restore" =>
                (r.target = q.target <=> r.scope = q.scope)

VARIABLES
    ledgerRow,   \* the ledger's row for each idempotency key
    stagingJob,  \* each job's staging directory and what its file holds
    restoreDb,   \* what each isolated database holds
    registry,    \* state of each restore target's registration
    dbWorker,    \* what each worker is doing
    orphans,     \* requests whose database tool runs without a worker
    startedKeys, \* history: keys a database tool was started for
    dbFaults

databaseVars == <<ledgerRow, stagingJob, restoreDb, registry, dbWorker, orphans,
                  startedKeys, dbFaults>>

Dumps == {r \in Requests : r.kind = "dump"}
Restores == {r \in Requests : r.kind = "restore"}
JobKeys == {r.key : r \in Requests}
Jobs == {r.job : r \in Requests}
RestoreTargets == {r.target : r \in Restores}
Unused == [kind |-> "none", key |-> "none", scope |-> "none", job |-> "none",
           target |-> "none", of |-> "none", bound |-> FALSE]
NoRow == [status |-> "absent", request |-> Unused, artifact |-> "none"]
NoStaging == [dir |-> FALSE, file |-> "none"]
RestingWorker == [at |-> "idle", req |-> Unused, passed |-> FALSE, artifact |-> "none"]
DbSteps == {"idle", "insert", "stage", "dump", "dumping", "measure", "resolve", "precheck",
          "restore", "restoring", "verify", "clean", "complete", "record"}
\* What a staging file holds: what a tool is writing, what several wrote into one
\* another, or the artifact of the dump with a key.
Artifacts == {"partial", "mixed"} \cup JobKeys

Row(r) == ledgerRow[r.key]
\* uq_database_operation_active_scope: these hold their scope.
Active(row) == row.status \in {"running", "recovery_required"}
ScopeTaken(scope) == \E k \in JobKeys : Active(ledgerRow[k]) /\ ledgerRow[k].request.scope = scope

JobAt(w, step) == dbWorker[w].at = step
Req(w) == dbWorker[w].req
JobGo(w, step) == dbWorker' = [dbWorker EXCEPT ![w].at = step]
Rest(w) == dbWorker' = [dbWorker EXCEPT ![w] = RestingWorker]
\* The outcome is known; it remains to complete the ledger's row.  An exception
\* leads to an except clause that completes it after the try.
Settle(w, passed) == dbWorker' = [dbWorker EXCEPT ![w].at = "complete", ![w].passed = passed]
Fails(w) ==
    dbWorker' = [dbWorker EXCEPT ![w].at = "record", ![w].passed = FALSE,
                                 ![w].artifact = "none"]
NotPassed(w) == Settle(w, FALSE) \/ Fails(w)

DatabaseInit ==
    /\ ledgerRow = [k \in JobKeys |-> NoRow]
    /\ stagingJob = [j \in Jobs |-> NoStaging]
    /\ restoreDb = [t \in RestoreTargets |-> "empty"]
    /\ registry = [t \in RestoreTargets |-> "none"]
    /\ dbWorker = [w \in Workers |-> RestingWorker]
    /\ orphans = {} /\ startedKeys = {} /\ dbFaults = 0

-----------------------------------------------------------------------------
(* SqlAlchemyDatabaseOperationLedger *)

\* The staging file holds what was measured when the dump with this key passed.
Measured(job, key) ==
    ledgerRow[key].artifact # "none" /\ stagingJob[job].file = ledgerRow[key].artifact

SameRequest(r) == Row(r).request = r
\* What a claim answers from the rows that it finds.
Decision(r) ==
    CASE Row(r).status = "absent" -> IF ScopeTaken(r.scope) THEN "active" ELSE "new"
      [] Row(r).status # "absent" /\ ~SameRequest(r) -> "conflict"
      [] Row(r).status \in {"succeeded", "failed"} /\ SameRequest(r) -> "duplicate"
      [] OTHER -> "recovery_required"

\* What a duplicate of a dump that passed returns, once its file is measured.
ReplayedDump(r) ==
    Decision(r) = "duplicate" /\ Row(r).status = "succeeded" /\ Measured(r.job, r.key)

\* A restore is asked for with an artifact that a dump returned.
Requestable(r) ==
    r \in Restores => \E q \in Dumps : q.key = r.of /\ ReplayedDump(q)

\* The first reads of claim.  Duplicate, conflict, recovery required and
\* active are answers that change nothing.
ReadLedger(w, r) ==
    /\ JobAt(w, "idle") /\ Requestable(r)
    /\ Decision(r) = "new"
    /\ dbWorker' = [dbWorker EXCEPT ![w] = [RestingWorker EXCEPT !.at = "insert", !.req = r]]
    /\ UNCHANGED <<ledgerRow, stagingJob, restoreDb, registry, orphans, startedKeys,
                   dbFaults>>

FirstDbStep == [dump |-> "stage", restore |-> "resolve"]

Running(w) == [NoRow EXCEPT !.status = "running", !.request = Req(w)]

\* Mutant: without the index on active scopes only the key is unique.
InsertKeyOnly(w) ==
    /\ JobAt(w, "insert")
    /\ IF Row(Req(w)).status # "absent"
         THEN Rest(w) /\ UNCHANGED ledgerRow
         ELSE /\ ledgerRow' = [ledgerRow EXCEPT
                                 ![Req(w).key] = Running(w)]
              /\ JobGo(w, FirstDbStep[Req(w).kind])
    /\ UNCHANGED <<stagingJob, restoreDb, registry, orphans, startedKeys, dbFaults>>

\* The flush is refused by either unique index, and the claim answers from
\* what the other session has committed.
InsertClaim(w) ==
    /\ JobAt(w, "insert")
    /\ IF Row(Req(w)).status # "absent" \/ ScopeTaken(Req(w).scope)
         THEN Rest(w) /\ UNCHANGED ledgerRow
         ELSE /\ ledgerRow' = [ledgerRow EXCEPT
                                 ![Req(w).key] = Running(w)]
              /\ JobGo(w, FirstDbStep[Req(w).kind])
    /\ UNCHANGED <<stagingJob, restoreDb, registry, orphans, startedKeys, dbFaults>>

OutcomeOf(w) == IF dbWorker[w].passed THEN "succeeded" ELSE "failed"
CompleteOperation(w) ==
    /\ dbWorker[w].at \in {"complete", "record"}
    /\ ledgerRow' = [ledgerRow EXCEPT ![Req(w).key].status = OutcomeOf(w),
                                      ![Req(w).key].artifact = dbWorker[w].artifact]
    /\ Rest(w)
    /\ UNCHANGED <<stagingJob, restoreDb, registry, orphans, startedKeys, dbFaults>>

\* At start-up, whoever else is running.
MarkRestartRecovery ==
    /\ \E k \in JobKeys : ledgerRow[k].status = "running"
    /\ ledgerRow' = [k \in JobKeys |-> IF ledgerRow[k].status = "running"
                                   THEN [ledgerRow[k] EXCEPT !.status = "recovery_required"]
                                   ELSE ledgerRow[k]]
    /\ UNCHANGED <<stagingJob, restoreDb, registry, dbWorker, orphans, startedKeys, dbFaults>>

-----------------------------------------------------------------------------
(* LogicalDatabaseAdapter.dump *)

\* rmdir of the job's directory, which only an empty one survives not.
Emptied(j) == IF stagingJob[j].file = "none" THEN NoStaging ELSE stagingJob[j]

\* Other tools that write to the job's file, with a worker or without one.
OtherTools(w) ==
    {Req(v) : v \in {u \in Workers \ {w} : JobAt(u, "dumping") /\ Req(u).job = Req(w).job}}
    \cup {r \in orphans : r.kind = "dump" /\ r.job = Req(w).job}

\* What a tool that ran to its end leaves in a file that is still there: its
\* artifact, unless others wrote to the file or made it again.
Left(r) ==
    {c \in {r.key, "mixed", stagingJob[r.job].file} :
        stagingJob[r.job].file = "partial" => c = r.key}

\* The directory of a job that exists is removed if it is empty, whoever made it.
StageJob(w) ==
    /\ JobAt(w, "stage")
    /\ IF stagingJob[Req(w).job].dir
         THEN stagingJob' = [stagingJob EXCEPT ![Req(w).job] = Emptied(Req(w).job)] /\ Fails(w)
         ELSE stagingJob' = [stagingJob EXCEPT ![Req(w).job].dir = TRUE] /\ JobGo(w, "dump")
    /\ UNCHANGED <<ledgerRow, restoreDb, registry, orphans, startedKeys, dbFaults>>

\* Without a credential file and directory are removed, without a process the
\* file; whoever wrote it.
DumpNotStarted(w) ==
    /\ JobAt(w, "dump")
    /\ \/ stagingJob' = [stagingJob EXCEPT ![Req(w).job] = NoStaging] /\ Fails(w)
       \/ stagingJob' = [stagingJob EXCEPT ![Req(w).job].file = "none"] /\ Settle(w, FALSE)
    /\ UNCHANGED <<ledgerRow, restoreDb, registry, orphans, startedKeys, dbFaults>>

\* The tool truncates the file, if the directory is still there.
StartDump(w) ==
    /\ JobAt(w, "dump")
    /\ IF stagingJob[Req(w).job].dir
         THEN stagingJob' = [stagingJob EXCEPT ![Req(w).job].file =
                                IF OtherTools(w) = {} THEN "partial" ELSE "mixed"]
         ELSE UNCHANGED stagingJob
    /\ JobGo(w, "dumping")
    /\ startedKeys' = startedKeys \cup {Req(w).key}
    /\ UNCHANGED <<ledgerRow, restoreDb, registry, orphans, dbFaults>>

\* The tool fails, is cut off or times out, or its file is gone: the file at
\* that path goes, the directory stays.  If only the credential's file cannot
\* be removed, the dump fails but its file stays.
DumpEnds(w) ==
    /\ JobAt(w, "dumping")
    /\ \/ /\ stagingJob[Req(w).job].file # "none"
          /\ \E c \in Left(Req(w)) : stagingJob' = [stagingJob EXCEPT ![Req(w).job].file = c]
          /\ JobGo(w, "measure") \/ Settle(w, FALSE)
       \/ /\ stagingJob' = [stagingJob EXCEPT ![Req(w).job].file = "none"]
          /\ Settle(w, FALSE)
    /\ UNCHANGED <<ledgerRow, restoreDb, registry, orphans, startedKeys, dbFaults>>

\* What the file holds is measured, inspected and described as the request's
\* artifact; or all of it is removed.
MeasureDump(w) ==
    /\ JobAt(w, "measure")
    /\ \/ /\ stagingJob[Req(w).job].file # "none"
          /\ dbWorker' = [dbWorker EXCEPT ![w].at = "complete", ![w].passed = TRUE,
                                          ![w].artifact = stagingJob[Req(w).job].file]
          /\ UNCHANGED stagingJob
       \/ stagingJob' = [stagingJob EXCEPT ![Req(w).job] = NoStaging] /\ Fails(w)
    /\ UNCHANGED <<ledgerRow, restoreDb, registry, orphans, startedKeys, dbFaults>>

-----------------------------------------------------------------------------
(* LogicalDatabaseAdapter.restore and its registry of isolated targets *)

Target(w) == Req(w).target
\* What the verification query answers, by name and number of objects.
TargetHolds(w) == restoreDb[Target(w)]
Resolves(r) == registry[r.target] = "active" /\ r.bound
Quarantined(t) == [registry EXCEPT ![t] = "quarantined"]

RegisterTarget(t) ==
    /\ registry[t] = "none"
    /\ registry' = [registry EXCEPT ![t] = "active"]
    /\ UNCHANGED <<ledgerRow, stagingJob, restoreDb, dbWorker, orphans, startedKeys, dbFaults>>

\* An unregistered, quarantined or differently bound target, or an artifact
\* that is not the manifest's, ends the restore before anything was done.
ResolveTarget(w) ==
    /\ JobAt(w, "resolve")
    /\ IF Resolves(Req(w)) /\ Measured(Req(w).job, Req(w).of)
         THEN JobGo(w, "precheck")
         ELSE Fails(w)
    /\ UNCHANGED <<ledgerRow, stagingJob, restoreDb, registry, orphans, startedKeys, dbFaults>>

\* The database must be empty: what it holds is somebody's, and the target is
\* quarantined.  The quarantine itself may fail.
PrecheckTarget(w) ==
    /\ JobAt(w, "precheck")
    /\ \/ TargetHolds(w) = "empty" /\ JobGo(w, "restore") /\ UNCHANGED registry
       \/ /\ TargetHolds(w) # "empty" /\ Settle(w, FALSE)
          /\ registry' \in {registry, Quarantined(Target(w))}
       \/ NotPassed(w) /\ UNCHANGED registry
    /\ UNCHANGED <<ledgerRow, stagingJob, restoreDb, orphans, startedKeys, dbFaults>>

\* Without a credential or the artifact the call raises; without a process it
\* counts as attempted.
RestoreNotStarted(w) ==
    /\ JobAt(w, "restore")
    /\ Fails(w) \/ JobGo(w, "clean")
    /\ UNCHANGED <<ledgerRow, stagingJob, restoreDb, registry, orphans, startedKeys, dbFaults>>

\* The artifact is checked once more through the descriptor the tool reads.
StartRestore(w) ==
    /\ JobAt(w, "restore")
    /\ Measured(Req(w).job, Req(w).of)
    /\ restoreDb' = [restoreDb EXCEPT ![Target(w)] = "partial"]
    /\ JobGo(w, "restoring")
    /\ startedKeys' = startedKeys \cup {Req(w).key}
    /\ UNCHANGED <<ledgerRow, stagingJob, registry, orphans, dbFaults>>

\* A tool that reports success may still have left objects out.  When the call
\* raises after the tool ran, restore_attempted is not yet set and nothing is
\* cleaned.
RestoreEnds(w) ==
    /\ JobAt(w, "restoring")
    /\ restoreDb' \in {restoreDb, [restoreDb EXCEPT ![Target(w)] = Req(w).of]}
    /\ JobGo(w, "verify") \/ JobGo(w, "clean") \/ Fails(w)
    /\ UNCHANGED <<ledgerRow, stagingJob, registry, orphans, startedKeys, dbFaults>>

\* Mutant: any object will do.
VerifySomething(w) ==
    /\ JobAt(w, "verify")
    /\ \/ TargetHolds(w) # "empty" /\ Settle(w, TRUE)
       \/ JobGo(w, "clean")
    /\ UNCHANGED <<ledgerRow, stagingJob, restoreDb, registry, orphans, startedKeys, dbFaults>>

\* The database answers its name and as many objects as the artifact creates.
VerifyRestore(w) ==
    /\ JobAt(w, "verify")
    /\ \/ TargetHolds(w) = Req(w).of /\ Settle(w, TRUE)
       \/ JobGo(w, "clean")
    /\ UNCHANGED <<ledgerRow, stagingJob, restoreDb, registry, orphans, startedKeys, dbFaults>>

\* The broker cleans the database, or the target is quarantined, or neither
\* works and only the evidence says that a cleanup is required.
CleanTarget(w) ==
    /\ JobAt(w, "clean") /\ NotPassed(w)
    /\ \/ restoreDb' = [restoreDb EXCEPT ![Target(w)] = "empty"] /\ UNCHANGED registry
       \/ registry' = Quarantined(Target(w)) /\ UNCHANGED restoreDb
       \/ UNCHANGED <<restoreDb, registry>>
    /\ UNCHANGED <<ledgerRow, stagingJob, orphans, startedKeys, dbFaults>>

-----------------------------------------------------------------------------
(* Faults *)

\* Inside the try the exception is caught: what a dump left is removed, a restore
\* that was attempted is cleaned up again, and the failure is recorded.  After
\* it the outcome is lost with the exception, and its row stays running.
CompletionFails(w) ==
    /\ dbFaults < MaxDbFaults /\ dbFaults' = dbFaults + 1
    /\ \/ /\ JobAt(w, "complete") /\ Req(w).kind = "dump"
          /\ stagingJob' = [stagingJob EXCEPT ![Req(w).job] = NoStaging] /\ Fails(w)
       \/ /\ JobAt(w, "complete") /\ Req(w).kind = "restore" /\ ~dbWorker[w].passed
          /\ JobGo(w, IF Req(w).key \in startedKeys THEN "clean" ELSE "record")
          /\ UNCHANGED stagingJob
       \/ /\ \/ JobAt(w, "record")
             \/ JobAt(w, "complete") /\ Req(w).kind = "restore" /\ dbWorker[w].passed
          /\ Rest(w) /\ UNCHANGED stagingJob
    /\ UNCHANGED <<ledgerRow, restoreDb, registry, orphans, startedKeys>>

\* The row and the staging directory stay; the tool, if it runs, runs on.
DbWorkerDies(w) ==
    /\ ~JobAt(w, "idle") /\ dbFaults < MaxDbFaults
    /\ dbFaults' = dbFaults + 1
    /\ orphans' = IF dbWorker[w].at \in {"dumping", "restoring"}
                    THEN orphans \cup {Req(w)} ELSE orphans
    /\ Rest(w)
    /\ UNCHANGED <<ledgerRow, stagingJob, restoreDb, registry, startedKeys>>

OrphanEnds(r) ==
    /\ r \in orphans /\ orphans' = orphans \ {r}
    /\ \/ /\ r.kind = "dump" /\ stagingJob[r.job].file # "none"
          /\ \E c \in Left(r) : stagingJob' = [stagingJob EXCEPT ![r.job].file = c]
          /\ UNCHANGED restoreDb
       \/ /\ r.kind = "restore"
          /\ restoreDb' = [restoreDb EXCEPT ![r.target] = r.of]
          /\ UNCHANGED stagingJob
       \/ UNCHANGED <<stagingJob, restoreDb>>
    /\ UNCHANGED <<ledgerRow, registry, dbWorker, startedKeys, dbFaults>>

DatabaseNext ==
    \/ \E w \in Workers :
          \/ \E r \in Requests : ReadLedger(w, r)
          \/ InsertClaim(w) \/ CompleteOperation(w)
          \/ StageJob(w) \/ DumpNotStarted(w) \/ StartDump(w) \/ DumpEnds(w) \/ MeasureDump(w)
          \/ ResolveTarget(w) \/ PrecheckTarget(w) \/ RestoreNotStarted(w) \/ StartRestore(w)
          \/ RestoreEnds(w) \/ VerifyRestore(w) \/ CleanTarget(w)
          \/ CompletionFails(w) \/ DbWorkerDies(w)
    \/ MarkRestartRecovery
    \/ \E t \in RestoreTargets : RegisterTarget(t)
    \/ \E r \in Requests : OrphanEnds(r)

DatabaseSpec == DatabaseInit /\ [][DatabaseNext]_databaseVars

-----------------------------------------------------------------------------
(* Properties *)

\* Every variable has its type.
DatabaseTypeOK ==
    /\ ledgerRow \in [JobKeys -> {NoRow} \cup
          [status : {"running", "recovery_required", "succeeded", "failed"},
           request : Requests, artifact : {"none"} \cup Artifacts]]
    /\ stagingJob \in [Jobs -> [dir : BOOLEAN, file : {"none"} \cup Artifacts]]
    /\ restoreDb \in [RestoreTargets -> {"empty", "partial"} \cup JobKeys]
    /\ registry \in [RestoreTargets -> {"none", "active", "quarantined"}]
    /\ dbWorker \in [Workers -> [at : DbSteps, req : Requests \cup {Unused}, passed : BOOLEAN,
                                artifact : {"none"} \cup Artifacts]]
    /\ orphans \subseteq Requests /\ startedKeys \subseteq JobKeys
    /\ dbFaults \in 0..MaxDbFaults

Restoring == {Req(w) : w \in {v \in Workers : JobAt(v, "restoring")}} \cup
             {r \in orphans : r.kind = "restore"}

\* Every dump of the job is of one source, so of one scope of the ledger.
OneSource(job) == \A q, r \in Dumps : q.job = job /\ r.job = job => q.scope = r.scope

\* An operation recorded as succeeded left what it says: a restore a database
\* that holds exactly the artifact it names, whoever else dumps to that
\* artifact's job; and a dump the artifact of its own request, if no other
\* source dumps to its job (result.passed of adapters.py, completed in the
\* ledger).  Two sources that share a job remove and overwrite one another's
\* files, and each may record as its own what the other wrote.
OutcomeIsTrue ==
    \A k \in JobKeys : ledgerRow[k].status = "succeeded" =>
        LET r == ledgerRow[k].request
        IN  IF r.kind = "restore" THEN restoreDb[r.target] = r.of
            ELSE OneSource(r.job) => stagingJob[r.job].file = k

\* A restore never starts over what a database holds, nor while another
\* restore, even one whose worker is dead, still writes to that database; and
\* the tool of one request is started once.
RestoreStartsAlone ==
    [][\A w \in Workers :
          JobAt(w, "restore") /\ dbWorker'[w].at = "restoring" =>
              /\ restoreDb[Target(w)] = "empty"
              /\ \A r \in Restoring : r.target # Target(w)
              /\ Req(w).key \notin startedKeys]_databaseVars
=============================================================================
