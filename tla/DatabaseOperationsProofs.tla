----------------------- MODULE DatabaseOperationsProofs -----------------------
(***************************************************************************)
(* Theorems about DatabaseOperations, for any workers, requests and number *)
(* of faults.  The inductive invariant DatabaseInv rests on ownership: an  *)
(* operation in hand, of a worker or of a tool that runs on without one,   *)
(* has an active row (HoldOK, OrphanOK), and a scope has one active row    *)
(* (ScopeOK); so nobody else is at its target, nor at its job's directory   *)
(* if one source dumps to that job, and what each step found there still   *)
(* holds at the next (DumpOK, RestoreOK).                                  *)
(***************************************************************************)
EXTENDS DatabaseOperations, TLAPS

\* The operation's row is made and not completed.
Holding(w) == dbWorker[w].at \notin {"idle", "insert"}
DumpSteps == {"stage", "dump", "dumping", "measure"}
RestoreSteps == {"resolve", "precheck", "restore", "restoring", "verify", "clean"}
Unstarted == {"stage", "dump", "resolve", "precheck", "restore"}

\* A row that was made.
Rows == [status : {"running", "recovery_required", "succeeded", "failed"},
         request : Requests, artifact : {"none"} \cup Artifacts]

RowsOK ==
    \A k \in JobKeys : ledgerRow[k].status # "absent" =>
        ledgerRow[k].request \in Requests /\ ledgerRow[k].request.key = k

\* A scope has one active row.
ScopeOK ==
    \A k, l \in JobKeys :
        /\ Active(ledgerRow[k]) /\ Active(ledgerRow[l])
        /\ ledgerRow[k].request.scope = ledgerRow[l].request.scope
        => k = l

\* The row of a request in hand is active and its own.
Owned(r) == Active(Row(r)) /\ Row(r).request = r
HoldOK(w) ==
    /\ ~JobAt(w, "idle") => Req(w) \in Requests
    /\ Holding(w) => Owned(Req(w))
    /\ dbWorker[w].at \in DumpSteps => Req(w).kind = "dump"
    /\ dbWorker[w].at \in RestoreSteps => Req(w).kind = "restore"
    /\ dbWorker[w].at \in Unstarted => Req(w).key \notin startedKeys
    /\ JobAt(w, "record") => dbWorker[w].passed = FALSE

\* No two workers have one operation in hand, and a tool without a worker is of
\* an operation that no worker has.
SoleOK ==
    /\ \A v, w \in Workers :
          Holding(v) /\ Holding(w) /\ Req(v).key = Req(w).key => v = w
    /\ \A r \in orphans : Owned(r) /\ \A w \in Workers : Holding(w) => Req(w).key # r.key

StartedOK == \A k \in startedKeys : ledgerRow[k].status # "absent"

StagingOK == \A j \in Jobs : ~stagingJob[j].dir => stagingJob[j].file = "none"

\* No dump of the job has succeeded, if one source dumps to it; and no restore
\* to the target has.
Undumped(j) ==
    OneSource(j) =>
        \A k \in JobKeys : ledgerRow[k].status = "succeeded" /\ ledgerRow[k].request.kind = "dump"
                           => ledgerRow[k].request.job # j
Unrestored(t) ==
    \A k \in JobKeys : ledgerRow[k].status = "succeeded" /\ ledgerRow[k].request.kind = "restore"
                       => ledgerRow[k].request.target # t

Completes(w, kind) == JobAt(w, "complete") /\ Req(w).kind = kind
PassedIn(w, kind) == Completes(w, kind) /\ dbWorker[w].passed
InDump(w) == dbWorker[w].at \in {"dump", "dumping", "measure"} \/ Completes(w, "dump")
InDatabase(w) ==
    \/ dbWorker[w].at \in {"restoring", "verify", "clean"}
    \/ Completes(w, "restore") /\ Req(w).key \in startedKeys
    \/ PassedIn(w, "restore")

\* The file is the worker's own until it is recorded.
OwnFile(w) ==
    /\ JobAt(w, "dumping") => stagingJob[Req(w).job].file \in {"none", "partial"}
    /\ JobAt(w, "measure") \/ PassedIn(w, "dump") => stagingJob[Req(w).job].file = Req(w).key
DumpOK(w) ==
    /\ InDump(w) => Undumped(Req(w).job)
    /\ OneSource(Req(w).job) => OwnFile(w)

\* The target is empty when the restore starts, and nobody relies on it until
\* it is recorded.
RestoreOK(w) ==
    /\ JobAt(w, "restore") => restoreDb[Target(w)] = "empty"
    /\ InDatabase(w) => Unrestored(Target(w))
    /\ PassedIn(w, "restore") => restoreDb[Target(w)] = Req(w).of

OrphanOK(r) ==
    /\ r.kind = "dump" => Undumped(r.job)
    /\ r.kind = "restore" => Unrestored(r.target)

DatabaseInv ==
    /\ DatabaseTypeOK
    /\ RowsOK /\ ScopeOK /\ SoleOK /\ StartedOK /\ StagingOK
    /\ \A w \in Workers : HoldOK(w) /\ DumpOK(w) /\ RestoreOK(w)
    /\ \A r \in orphans : OrphanOK(r)
    /\ OutcomeIsTrue

-----------------------------------------------------------------------------
(* Ownership *)

\* What is of a request.
LEMMA RequestOK ==
    ASSUME NEW r \in Requests
    PROVE  /\ r.key \in JobKeys /\ r.job \in Jobs
           /\ r.key \notin {"none", "partial", "mixed", "empty"}
           /\ r.kind \in {"dump", "restore"}
           /\ r.kind = "dump" => r \in Dumps
           /\ r.kind = "restore" => r.target \in RestoreTargets /\ r.of \in JobKeys
BY RequestsAssumption DEF JobKeys, Jobs, Dumps, Restores, RestoreTargets

\* Keys are told from what a file or a database holds otherwise.
LEMMA KeysAreProper == \A c \in {"none", "partial", "mixed", "empty"} : c \notin JobKeys
BY RequestsAssumption DEF JobKeys

\* Whoever has operations of one scope in hand has one operation.
LEMMA OneHolder ==
    ASSUME DatabaseInv, NEW v \in Workers, NEW w \in Workers, Holding(v), Holding(w),
           Req(v).scope = Req(w).scope
    PROVE  v = w
<1>1. Req(v) \in Requests /\ Req(w) \in Requests /\ Owned(Req(v)) /\ Owned(Req(w))
  BY DEF DatabaseInv, HoldOK, Holding, JobAt
<1>2. Req(v).key \in JobKeys /\ Req(w).key \in JobKeys
  BY <1>1, RequestOK
<1>3. Req(v).key = Req(w).key
  BY <1>1, <1>2 DEF DatabaseInv, ScopeOK, Owned, Row
<1>4. QED BY <1>3 DEF DatabaseInv, SoleOK

LEMMA OneOrphan ==
    ASSUME DatabaseInv, NEW q \in orphans, NEW r \in orphans, q.scope = r.scope
    PROVE  q = r
<1>1. q \in Requests /\ r \in Requests /\ Owned(q) /\ Owned(r)
  BY DEF DatabaseInv, SoleOK, DatabaseTypeOK
<1>2. q.key \in JobKeys /\ r.key \in JobKeys
  BY <1>1, RequestOK
<1>3. q.key = r.key
  BY <1>1, <1>2 DEF DatabaseInv, ScopeOK, Owned, Row
<1>4. QED BY <1>1, <1>3 DEF Owned, Row

LEMMA HolderOrOrphan ==
    ASSUME DatabaseInv, NEW w \in Workers, Holding(w), NEW r \in orphans
    PROVE  Req(w).scope # r.scope
<1> SUFFICES ASSUME Req(w).scope = r.scope PROVE FALSE
  OBVIOUS
<1>1. Req(w) \in Requests /\ r \in Requests /\ Owned(Req(w)) /\ Owned(r)
  BY DEF DatabaseInv, HoldOK, Holding, JobAt, SoleOK, DatabaseTypeOK
<1>2. Req(w).key \in JobKeys /\ r.key \in JobKeys
  BY <1>1, RequestOK
<1>3. Req(w).key = r.key
  BY <1>1, <1>2 DEF DatabaseInv, ScopeOK, Owned, Row
<1>4. QED BY <1>3 DEF DatabaseInv, SoleOK

\* Restores into one target have one scope, and so have dumps to a job that one
\* source dumps to.
LEMMA SameScope ==
    ASSUME NEW q \in Requests, NEW r \in Requests, q.kind = r.kind,
           q.kind = "dump" => q.job = r.job /\ OneSource(q.job),
           q.kind = "restore" => q.target = r.target
    PROVE  q.scope = r.scope
BY RequestsAssumption DEF OneSource, Dumps, Restores

\* An operation in hand has not succeeded.
LEMMA NotSucceeded ==
    ASSUME DatabaseInv, NEW k \in JobKeys, ledgerRow[k].status = "succeeded",
           NEW r, Owned(r)
    PROVE  r.key # k
BY DEF Owned, Active, Row

-----------------------------------------------------------------------------
(* A step of one worker on the operation that it has in hand *)

WorkerStates == [at : DbSteps, req : Requests \cup {Unused}, passed : BOOLEAN,
                 artifact : {"none"} \cup Artifacts]
MovedAlone(w) ==
    /\ dbWorker' \in [Workers -> WorkerStates]
    /\ \A v \in Workers : v # w => dbWorker'[v] = dbWorker[v]

LEMMA StateOf == DatabaseInv => \A w \in Workers : dbWorker[w] \in WorkerStates
BY DEF DatabaseInv, DatabaseTypeOK, WorkerStates

LEMMA WorkerBecomes ==
    ASSUME DatabaseInv, NEW w \in Workers, NEW i \in WorkerStates,
           dbWorker' = [dbWorker EXCEPT ![w] = i]
    PROVE  MovedAlone(w) /\ dbWorker'[w] = i
BY DEF DatabaseInv, DatabaseTypeOK, WorkerStates, MovedAlone

LEMMA RestOK ==
    ASSUME DatabaseInv, NEW w \in Workers, Rest(w)
    PROVE  MovedAlone(w) /\ dbWorker'[w] = RestingWorker /\ dbWorker'[w].at = "idle"
<1>1. RestingWorker \in WorkerStates /\ RestingWorker.at = "idle"
  BY DEF RestingWorker, WorkerStates, DbSteps
<1>2. QED BY <1>1, WorkerBecomes DEF Rest

LEMMA GoOK ==
    ASSUME DatabaseInv, NEW w \in Workers, NEW step \in DbSteps, JobGo(w, step)
    PROVE  /\ MovedAlone(w) /\ dbWorker'[w].at = step /\ dbWorker'[w].req = Req(w)
           /\ dbWorker'[w].passed = dbWorker[w].passed
<1> DEFINE i == [dbWorker[w] EXCEPT !.at = step]
<1>1. dbWorker[w] \in WorkerStates
  BY StateOf
<1>2. /\ i \in WorkerStates /\ i.at = step /\ i.req = dbWorker[w].req
      /\ i.passed = dbWorker[w].passed
  BY <1>1 DEF WorkerStates
<1>3. dbWorker' = [dbWorker EXCEPT ![w] = i]
  BY DEF JobGo
<1> HIDE DEF i
<1>4. QED BY <1>2, <1>3, WorkerBecomes DEF Req

LEMMA SettleOK ==
    ASSUME DatabaseInv, NEW w \in Workers, NEW passed \in BOOLEAN, Settle(w, passed)
    PROVE  /\ MovedAlone(w) /\ dbWorker'[w].at = "complete" /\ dbWorker'[w].req = Req(w)
           /\ dbWorker'[w].passed = passed
<1> DEFINE i == [dbWorker[w] EXCEPT !.at = "complete", !.passed = passed]
<1>1. dbWorker[w] \in WorkerStates
  BY StateOf
<1>2. /\ i \in WorkerStates /\ i.at = "complete" /\ i.req = dbWorker[w].req
      /\ i.passed = passed
  BY <1>1 DEF WorkerStates, DbSteps
<1>3. dbWorker' = [dbWorker EXCEPT ![w] = i]
  BY DEF Settle
<1> HIDE DEF i
<1>4. QED BY <1>2, <1>3, WorkerBecomes DEF Req

LEMMA FailsOK ==
    ASSUME DatabaseInv, NEW w \in Workers, Fails(w)
    PROVE  /\ MovedAlone(w) /\ dbWorker'[w].at = "record" /\ dbWorker'[w].req = Req(w)
           /\ dbWorker'[w].passed = FALSE
<1> DEFINE i == [dbWorker[w] EXCEPT !.at = "record", !.passed = FALSE, !.artifact = "none"]
<1>1. dbWorker[w] \in WorkerStates
  BY StateOf
<1>2. /\ i \in WorkerStates /\ i.at = "record" /\ i.req = dbWorker[w].req
      /\ i.passed = FALSE
  BY <1>1 DEF WorkerStates, DbSteps
<1>3. dbWorker' = [dbWorker EXCEPT ![w] = i]
  BY DEF Fails
<1> HIDE DEF i
<1>4. QED BY <1>2, <1>3, WorkerBecomes DEF Req

Staging == [dir : BOOLEAN, file : {"none"} \cup Artifacts]

\* It goes on, or rests; it changes its own job's directory, on which no recorded
\* dump relies, or its own target, if no restore to it succeeded.
OwnStep(w) ==
    /\ Holding(w) /\ MovedAlone(w)
    /\ \/ dbWorker'[w].at = "idle"
       \/ dbWorker'[w].req = Req(w) /\ dbWorker'[w].at \notin {"idle", "insert"}
    /\ UNCHANGED <<ledgerRow, orphans>>
    /\ registry' \in [RestoreTargets -> {"none", "active", "quarantined"}]
    /\ dbFaults' \in 0..MaxDbFaults
    /\ startedKeys \subseteq startedKeys' /\ startedKeys' \subseteq startedKeys \cup {Req(w).key}
    /\ stagingJob' \in [Jobs -> Staging] /\ StagingOK'
    /\ stagingJob' = stagingJob \/
         /\ Req(w).kind = "dump" /\ Undumped(Req(w).job)
         /\ \A j \in Jobs : j # Req(w).job => stagingJob'[j] = stagingJob[j]
    /\ restoreDb' \in [RestoreTargets -> {"empty", "partial"} \cup JobKeys]
    /\ restoreDb' = restoreDb \/
         /\ Req(w).kind = "restore" /\ Unrestored(Target(w))
         /\ \A t \in RestoreTargets : t # Target(w) => restoreDb'[t] = restoreDb[t]
    /\ HoldOK(w)' /\ DumpOK(w)' /\ RestoreOK(w)'

\* Nobody else's operation, and no recorded outcome, is disturbed by a step on
\* the operation in hand.
LEMMA OwnStepKeeps ==
    ASSUME DatabaseInv, NEW w \in Workers, OwnStep(w)
    PROVE  DatabaseInv'
<1>1. Req(w) \in Requests /\ Owned(Req(w)) /\ Req(w).key \in JobKeys
  BY RequestOK DEF DatabaseInv, HoldOK, OwnStep, Holding, JobAt
<1>2. /\ \A v \in Workers \ {w} : dbWorker'[v] = dbWorker[v]
      /\ ledgerRow' = ledgerRow /\ orphans' = orphans
  BY DEF OwnStep, MovedAlone
<1>3. DatabaseTypeOK'
  BY <1>1 DEF DatabaseInv, DatabaseTypeOK, OwnStep, MovedAlone, WorkerStates, Staging
<1>4. RowsOK' /\ ScopeOK'
  BY <1>2 DEF DatabaseInv, RowsOK, ScopeOK, JobKeys
<1>5. \A r : Owned(r)' <=> Owned(r)
  BY <1>2 DEF Owned, Row
<1>6. \A v \in Workers : Holding(v)' => Holding(v) /\ Req(v)' = Req(v)
  <2> SUFFICES ASSUME NEW v \in Workers, Holding(v)' PROVE Holding(v) /\ Req(v)' = Req(v)
    OBVIOUS
  <2>1. CASE v = w
    BY <2>1 DEF OwnStep, Holding, Req
  <2>2. CASE v # w
    BY <2>2, <1>2 DEF Holding, Req
  <2> QED BY <2>1, <2>2
<1>7. SoleOK'
  <2>1. ASSUME NEW v \in Workers, NEW u \in Workers, Holding(v)', Holding(u)',
               Req(v)'.key = Req(u)'.key
        PROVE  v = u
    BY <2>1, <1>6 DEF DatabaseInv, SoleOK
  <2>2. \A r \in orphans : Owned(r)' /\ \A v \in Workers : Holding(v)' => Req(v)'.key # r.key
    BY <1>5, <1>6 DEF DatabaseInv, SoleOK
  <2> QED BY <2>1, <2>2, <1>2 DEF SoleOK
<1>8. StartedOK' /\ StagingOK'
  <2>1. ledgerRow[Req(w).key].status # "absent"
    BY <1>1 DEF Owned, Active, Row
  <2> QED BY <2>1, <1>2 DEF DatabaseInv, StartedOK, OwnStep
<1>9. ASSUME NEW v \in Workers PROVE HoldOK(v)'
  <2>1. CASE v = w
    BY <2>1 DEF OwnStep
  <2>2. CASE v # w
    <3>1. dbWorker'[v] = dbWorker[v]
      BY <2>2, <1>2
    <3>2. Holding(v) => Req(v).key # Req(w).key
      BY <2>2 DEF DatabaseInv, SoleOK, OwnStep
    <3>3. dbWorker[v].at \in Unstarted => Holding(v)
      BY DEF Unstarted, Holding
    <3>4. dbWorker[v].at \in Unstarted => Req(v).key \notin startedKeys'
      BY <3>2, <3>3 DEF DatabaseInv, HoldOK, OwnStep
    <3> QED BY <3>1, <3>4, <1>5 DEF DatabaseInv, HoldOK, Holding, JobAt, Req
  <2> QED BY <2>1, <2>2
<1>10. ASSUME NEW v \in Workers \ {w}, Holding(v), Req(v).kind = "dump", OneSource(Req(v).job)
       PROVE  stagingJob'[Req(v).job] = stagingJob[Req(v).job]
  <2>1. Req(v) \in Requests /\ Req(v).job \in Jobs
    BY <1>10, RequestOK DEF DatabaseInv, HoldOK, Holding, JobAt
  <2>2. Req(v).scope # Req(w).scope
    BY <1>10, OneHolder DEF OwnStep
  <2>3. ~(Req(w).kind = "dump" /\ Req(w).job = Req(v).job)
    BY <1>1, <1>10, <2>1, <2>2, SameScope
  <2> QED BY <2>1, <2>3 DEF OwnStep
<1>11. ASSUME NEW v \in Workers \ {w}, Holding(v), Req(v).kind = "restore"
       PROVE  restoreDb'[Target(v)] = restoreDb[Target(v)]
  <2>1. Req(v) \in Requests /\ Target(v) \in RestoreTargets
    BY <1>11, RequestOK DEF DatabaseInv, HoldOK, Holding, JobAt, Target
  <2>2. Req(v).scope # Req(w).scope
    BY <1>11, OneHolder DEF OwnStep
  <2>3. ~(Req(w).kind = "restore" /\ Target(w) = Target(v))
    BY <1>1, <1>11, <2>1, <2>2, SameScope DEF Target
  <2> QED BY <2>1, <2>3 DEF OwnStep
<1>12. ASSUME NEW x PROVE (Unrestored(x)' <=> Unrestored(x)) /\ (Undumped(x)' <=> Undumped(x))
  BY <1>2 DEF Unrestored, Undumped, JobKeys, OneSource, Dumps
<1>13. ASSUME NEW v \in Workers PROVE DumpOK(v)'
  <2>1. CASE v = w
    BY <2>1 DEF OwnStep
  <2>2. CASE v # w
    <3>1. dbWorker'[v] = dbWorker[v] /\ Req(v)' = Req(v)
      BY <2>2, <1>2 DEF Req
    <3>2. InDump(v)' <=> InDump(v)
      BY <3>1 DEF InDump, Completes, JobAt
    <3>3. InDump(v)' => Undumped(Req(v).job)'
      BY <3>1, <3>2, <1>2 DEF DatabaseInv, DumpOK, Undumped, JobKeys, OneSource, Dumps
    <3>4. ASSUME OneSource(Req(v).job) PROVE OwnFile(v)'
      <4>1. OwnFile(v)
        BY <3>4 DEF DatabaseInv, DumpOK
      <4>2. InDump(v) => stagingJob'[Req(v).job] = stagingJob[Req(v).job]
        BY <2>2, <3>4, <1>10
           DEF InDump, DatabaseInv, HoldOK, Holding, DumpSteps, Completes, JobAt
      <4> QED BY <3>1, <4>1, <4>2 DEF OwnFile, InDump, PassedIn, Completes, JobAt
    <3>5. OneSource(Req(v).job)' <=> OneSource(Req(v).job)
      BY <3>1 DEF OneSource, Dumps
    <3> QED BY <3>3, <3>4, <3>5 DEF DumpOK
  <2> QED BY <2>1, <2>2
<1>14. ASSUME NEW v \in Workers PROVE RestoreOK(v)'
  <2>1. CASE v = w
    BY <2>1 DEF OwnStep
  <2>2. CASE v # w
    <3>1. dbWorker'[v] = dbWorker[v] /\ Target(v)' = Target(v) /\ Req(v)' = Req(v)
      BY <2>2, <1>2 DEF Target, Req
    <3>2. JobAt(v, "restore") \/ Completes(v, "restore") => Holding(v) /\ Req(v).kind = "restore"
      BY DEF DatabaseInv, HoldOK, Holding, RestoreSteps, Completes, JobAt
    <3>3. JobAt(v, "restore") \/ PassedIn(v, "restore")
          => restoreDb'[Target(v)] = restoreDb[Target(v)]
      BY <2>2, <3>2, <1>11 DEF PassedIn
    <3>4. Completes(v, "restore") => Req(v).key # Req(w).key
      BY <2>2, <3>2 DEF DatabaseInv, SoleOK, OwnStep
    <3>5. /\ JobAt(v, "restore")' <=> JobAt(v, "restore")
          /\ PassedIn(v, "restore")' <=> PassedIn(v, "restore")
          /\ InDatabase(v)' => InDatabase(v)
      BY <3>1, <3>4 DEF JobAt, PassedIn, Completes, InDatabase, OwnStep
    <3>6. Unrestored(Target(v))' <=> Unrestored(Target(v))
      BY <3>1, <1>2 DEF Unrestored, JobKeys
    <3> QED BY <3>1, <3>3, <3>5, <3>6 DEF DatabaseInv, RestoreOK
  <2> QED BY <2>1, <2>2
<1>15. ASSUME NEW r \in orphans PROVE OrphanOK(r)'
  BY <1>12 DEF DatabaseInv, OrphanOK
<1>16. OutcomeIsTrue'
  <2> SUFFICES ASSUME NEW k \in JobKeys, ledgerRow[k].status = "succeeded"
               PROVE  LET r == ledgerRow[k].request
                      IN  IF r.kind = "restore" THEN restoreDb'[r.target] = r.of
                          ELSE OneSource(r.job) => stagingJob'[r.job].file = k
    BY <1>2 DEF OutcomeIsTrue, JobKeys, OneSource, Dumps
  <2> DEFINE r == ledgerRow[k].request
  <2>1. r \in Requests
    BY DEF DatabaseInv, RowsOK
  <2>2. CASE r.kind # "restore"
    <3> SUFFICES ASSUME OneSource(r.job) PROVE stagingJob'[r.job].file = k
      BY <2>2
    <3>1. r.kind = "dump" /\ r.job \in Jobs /\ stagingJob[r.job].file = k
      BY <2>1, <2>2, RequestOK DEF DatabaseInv, OutcomeIsTrue
    <3>2. stagingJob'[r.job] = stagingJob[r.job]
      BY <3>1 DEF OwnStep, Undumped
    <3> QED BY <3>1, <3>2
  <2>3. CASE r.kind = "restore"
    <3>1. r.target \in RestoreTargets /\ restoreDb[r.target] = r.of
      BY <2>1, <2>3, RequestOK DEF DatabaseInv, OutcomeIsTrue
    <3>2. restoreDb'[r.target] = restoreDb[r.target]
      BY <2>3, <3>1 DEF OwnStep, Unrestored
    <3> QED BY <2>3, <3>1, <3>2
  <2> QED BY <2>2, <2>3
<1>17. QED
  BY <1>2, <1>3, <1>4, <1>7, <1>8, <1>9, <1>13, <1>14, <1>15, <1>16 DEF DatabaseInv

\* What a job's file or a target holds tells what has not succeeded there.
LEMMA UnwrittenIsUndumped ==
    ASSUME DatabaseInv, NEW j \in Jobs, stagingJob[j].file \notin JobKeys
    PROVE  Undumped(j)
BY DEF DatabaseInv, RowsOK, OutcomeIsTrue, Undumped

LEMMA EmptyIsUnrestored ==
    ASSUME DatabaseInv, NEW t \in RestoreTargets, restoreDb[t] = "empty"
    PROVE  Unrestored(t)
<1> SUFFICES ASSUME NEW k \in JobKeys, ledgerRow[k].status = "succeeded",
                    ledgerRow[k].request.kind = "restore", ledgerRow[k].request.target = t
             PROVE  FALSE
  BY DEF Unrestored
<1>1. ledgerRow[k].request \in Requests
  BY DEF DatabaseInv, RowsOK
<1>2. ledgerRow[k].request.of \in JobKeys
  BY <1>1, RequestOK
<1>3. restoreDb[t] = ledgerRow[k].request.of
  BY DEF DatabaseInv, OutcomeIsTrue
<1>4. QED BY <1>2, <1>3, KeysAreProper

\* The frames of a step: staging and databases that it leaves or sets.
LEMMA StagingStays ==
    ASSUME DatabaseInv, UNCHANGED stagingJob
    PROVE  stagingJob' \in [Jobs -> Staging] /\ StagingOK'
BY DEF DatabaseInv, DatabaseTypeOK, Staging, StagingOK, Jobs

LEMMA StagingBecomes ==
    ASSUME DatabaseInv, NEW j \in Jobs, NEW i \in Staging, ~i.dir => i.file = "none",
           stagingJob' = [stagingJob EXCEPT ![j] = i]
    PROVE  /\ stagingJob' \in [Jobs -> Staging] /\ StagingOK' /\ stagingJob'[j] = i
           /\ \A l \in Jobs : l # j => stagingJob'[l] = stagingJob[l]
<1>1. stagingJob \in [Jobs -> Staging] /\ StagingOK
  BY DEF DatabaseInv, DatabaseTypeOK, Staging
<1>2. /\ stagingJob' \in [Jobs -> Staging] /\ stagingJob'[j] = i
      /\ \A l \in Jobs : l # j => stagingJob'[l] = stagingJob[l]
  BY <1>1
<1>3. ASSUME NEW l \in Jobs, ~stagingJob'[l].dir PROVE stagingJob'[l].file = "none"
  BY <1>1, <1>2, <1>3 DEF StagingOK
<1>4. QED BY <1>2, <1>3 DEF StagingOK, Jobs

LEMMA DatabaseBecomes ==
    ASSUME DatabaseInv, NEW t \in RestoreTargets, NEW c \in {"empty", "partial"} \cup JobKeys,
           restoreDb' = [restoreDb EXCEPT ![t] = c]
    PROVE  /\ restoreDb' \in [RestoreTargets -> {"empty", "partial"} \cup JobKeys]
           /\ restoreDb'[t] = c
           /\ \A u \in RestoreTargets : u # t => restoreDb'[u] = restoreDb[u]
BY DEF DatabaseInv, DatabaseTypeOK

\* Removing a job's empty directory.
LEMMA EmptiedOK ==
    ASSUME DatabaseInv, NEW j \in Jobs, stagingJob' = [stagingJob EXCEPT ![j] = Emptied(j)]
    PROVE  /\ stagingJob' \in [Jobs -> Staging] /\ StagingOK'
           /\ stagingJob' = stagingJob \/
                /\ Undumped(j)
                /\ \A l \in Jobs : l # j => stagingJob'[l] = stagingJob[l]
<1>0. stagingJob \in [Jobs -> Staging]
  BY DEF DatabaseInv, DatabaseTypeOK, Staging
<1>1. CASE stagingJob[j].file = "none"
  <2>1. Emptied(j) \in Staging /\ (~Emptied(j).dir => Emptied(j).file = "none")
    BY <1>1 DEF Emptied, NoStaging, Staging
  <2>2. Undumped(j)
    BY <1>1, KeysAreProper, UnwrittenIsUndumped
  <2> HIDE DEF Emptied
  <2> QED BY <2>1, <2>2, StagingBecomes
<1>2. CASE stagingJob[j].file # "none"
  <2>1. stagingJob' = stagingJob
    BY <1>0, <1>2 DEF Emptied
  <2> QED BY <2>1, StagingStays
<1>3. QED BY <1>1, <1>2

\* The worker of an operation that goes on, that fails, and that is let go.
LEMMA HoldGoesOn ==
    ASSUME DatabaseInv, NEW w \in Workers, Holding(w), UNCHANGED ledgerRow,
           dbWorker'[w].req = Req(w), dbWorker'[w].at \notin {"idle", "insert"},
           dbWorker'[w].at \in DumpSteps => Req(w).kind = "dump",
           dbWorker'[w].at \in RestoreSteps => Req(w).kind = "restore",
           dbWorker'[w].at \in Unstarted => Req(w).key \notin startedKeys',
           dbWorker'[w].at = "record" => dbWorker'[w].passed = FALSE
    PROVE  HoldOK(w)'
<1>1. Req(w) \in Requests /\ Owned(Req(w))
  BY DEF DatabaseInv, HoldOK, Holding, JobAt
<1>2. Owned(Req(w))' /\ Req(w)' = Req(w)
  BY <1>1 DEF Owned, Row, Req
<1>3. QED BY <1>1, <1>2 DEF HoldOK, JobAt, Holding

\* A failure is to be recorded, by the try or by an except clause; the restore
\* that it ends was not recorded before.
LEMMA NotPassedOK ==
    ASSUME DatabaseInv, NEW w \in Workers, Holding(w), UNCHANGED <<ledgerRow, startedKeys>>,
           NotPassed(w), Req(w).kind = "dump" => Undumped(Req(w).job),
           Req(w).kind = "restore" /\ Req(w).key \in startedKeys => Unrestored(Target(w))
    PROVE  /\ MovedAlone(w) /\ dbWorker'[w].req = Req(w)
           /\ dbWorker'[w].at \notin {"idle", "insert"}
           /\ HoldOK(w)' /\ DumpOK(w)' /\ RestoreOK(w)'
<1>1. /\ MovedAlone(w) /\ dbWorker'[w].at \in {"complete", "record"}
      /\ dbWorker'[w].req = Req(w) /\ dbWorker'[w].passed = FALSE
  BY SettleOK, FailsOK DEF NotPassed
<1>2. HoldOK(w)'
  BY <1>1, HoldGoesOn DEF DumpSteps, RestoreSteps, Unstarted
<1>3. Req(w)' = Req(w) /\ Target(w)' = Target(w)
  BY <1>1 DEF Req, Target
<1>4. DumpOK(w)'
  <2>1. Req(w).kind = "dump" => Undumped(Req(w).job)'
    BY <1>3 DEF Undumped, JobKeys, OneSource, Dumps
  <2> QED BY <1>1, <1>3, <2>1 DEF DumpOK, OwnFile, InDump, PassedIn, Completes, JobAt
<1>5. RestoreOK(w)'
  <2>1. Unrestored(Target(w))' <=> Unrestored(Target(w))
    BY <1>3 DEF Unrestored, JobKeys
  <2> QED BY <1>1, <1>3, <2>1 DEF RestoreOK, InDatabase, PassedIn, Completes, JobAt
<1>6. QED BY <1>1, <1>2, <1>4, <1>5

LEMMA LetGo ==
    ASSUME NEW w \in Workers, dbWorker'[w].at = "idle"
    PROVE  HoldOK(w)' /\ DumpOK(w)' /\ RestoreOK(w)'
BY DEF HoldOK, DumpOK, RestoreOK, OwnFile, InDump, InDatabase, PassedIn, Completes, JobAt,
       Holding, DumpSteps, RestoreSteps, Unstarted

\* What the other variables of a step are.
LEMMA DatabaseTypesOf ==
    ASSUME DatabaseInv
    PROVE  /\ registry \in [RestoreTargets -> {"none", "active", "quarantined"}]
           /\ restoreDb \in [RestoreTargets -> {"empty", "partial"} \cup JobKeys]
           /\ dbFaults \in 0..MaxDbFaults
           /\ \A w \in Workers : Holding(w) => Req(w) \in Requests
BY DEF DatabaseInv, DatabaseTypeOK, HoldOK, Holding, JobAt

-----------------------------------------------------------------------------
(* Dumps *)

\* What a worker in a dump has in hand.
LEMMA AtDump ==
    ASSUME DatabaseInv, NEW w \in Workers, dbWorker[w].at \in DumpSteps
    PROVE  /\ Holding(w) /\ Req(w) \in Requests /\ Req(w).kind = "dump"
           /\ Req(w).job \in Jobs /\ Req(w).key \in JobKeys
           /\ dbWorker[w].at \in Unstarted => Req(w).key \notin startedKeys
           /\ dbWorker[w].at # "stage" => Undumped(Req(w).job)
           /\ OneSource(Req(w).job) => OwnFile(w)
BY DatabaseTypesOf, RequestOK DEF DumpSteps, Holding, DatabaseInv, HoldOK, DumpOK, InDump

\* A dump goes on with its file.
LEMMA DumpGoesOn ==
    ASSUME DatabaseInv, NEW w \in Workers, Holding(w), Req(w).kind = "dump",
           UNCHANGED ledgerRow, MovedAlone(w), dbWorker'[w].req = Req(w),
           dbWorker'[w].at \in {"dump", "dumping", "measure", "complete"},
           dbWorker'[w].at = "dump" => Req(w).key \notin startedKeys',
           Undumped(Req(w).job),
           OneSource(Req(w).job) =>
               /\ dbWorker'[w].at = "dumping"
                  => stagingJob'[Req(w).job].file \in {"none", "partial"}
               /\ \/ dbWorker'[w].at = "measure"
                  \/ dbWorker'[w].at = "complete" /\ dbWorker'[w].passed
                  => stagingJob'[Req(w).job].file = Req(w).key
    PROVE  HoldOK(w)' /\ DumpOK(w)' /\ RestoreOK(w)'
<1>1. HoldOK(w)'
  BY HoldGoesOn DEF DumpSteps, RestoreSteps, Unstarted
<1>2. Req(w)' = Req(w)
  BY DEF Req
<1>3. Undumped(Req(w).job)'
  BY <1>2 DEF Undumped, JobKeys, OneSource, Dumps
<1>4. OneSource(Req(w).job) => OwnFile(w)'
  BY <1>2 DEF OwnFile, PassedIn, Completes, JobAt
<1>5. OneSource(Req(w).job)' <=> OneSource(Req(w).job)
  BY <1>2 DEF OneSource, Dumps
<1>6. DumpOK(w)'
  BY <1>3, <1>4, <1>5 DEF DumpOK
<1>7. RestoreOK(w)'
  BY <1>2 DEF RestoreOK, InDatabase, PassedIn, Completes, JobAt
<1>8. QED BY <1>1, <1>6, <1>7

\* A dump whose directory is removed, or whose file is.
LEMMA GoneOK ==
    ASSUME DatabaseInv, NEW j \in Jobs,
           \/ stagingJob' = [stagingJob EXCEPT ![j] = NoStaging]
           \/ stagingJob' = [stagingJob EXCEPT ![j].file = "none"]
    PROVE  /\ stagingJob' \in [Jobs -> Staging] /\ StagingOK'
           /\ \A l \in Jobs : l # j => stagingJob'[l] = stagingJob[l]
<1> DEFINE i == [stagingJob[j] EXCEPT !.file = "none"]
<1>1. NoStaging \in Staging /\ NoStaging.file = "none"
  BY DEF NoStaging, Staging
<1>2. i \in Staging /\ i.file = "none"
  BY DEF DatabaseInv, DatabaseTypeOK, Staging
<1>3. \/ stagingJob' = [stagingJob EXCEPT ![j] = NoStaging]
      \/ stagingJob' = [stagingJob EXCEPT ![j] = i]
  OBVIOUS
<1> HIDE DEF i
<1>4. QED BY <1>1, <1>2, <1>3, StagingBecomes

\* A file that is there gets other contents.
LEMMA WrittenOK ==
    ASSUME DatabaseInv, NEW j \in Jobs, stagingJob[j].dir, NEW c \in Artifacts,
           stagingJob' = [stagingJob EXCEPT ![j].file = c]
    PROVE  /\ stagingJob' \in [Jobs -> Staging] /\ StagingOK' /\ stagingJob'[j].file = c
           /\ \A l \in Jobs : l # j => stagingJob'[l] = stagingJob[l]
<1> DEFINE i == [stagingJob[j] EXCEPT !.file = c]
<1>1. i \in Staging /\ i.dir /\ i.file = c
  BY DEF DatabaseInv, DatabaseTypeOK, Staging
<1>2. stagingJob' = [stagingJob EXCEPT ![j] = i]
  OBVIOUS
<1> HIDE DEF i
<1>3. QED BY <1>1, <1>2, StagingBecomes

\* What a tool leaves is an artifact, and its own if it alone wrote.
LEMMA LeftOK ==
    ASSUME DatabaseInv, NEW r \in Requests, stagingJob[r.job].file # "none", NEW c \in Left(r)
    PROVE  /\ stagingJob[r.job].dir /\ c \in Artifacts
           /\ stagingJob[r.job].file = "partial" => c = r.key
<1>1. r.job \in Jobs /\ r.key \in JobKeys
  BY RequestOK
<1>2. stagingJob[r.job] \in Staging /\ stagingJob[r.job].dir
  BY <1>1 DEF DatabaseInv, DatabaseTypeOK, Staging, StagingOK
<1>3. QED BY <1>1, <1>2 DEF Left, Artifacts, Staging

LEMMA StageJobOwn == ASSUME DatabaseInv, NEW w \in Workers, StageJob(w) PROVE OwnStep(w)
<1>0. /\ Holding(w) /\ Req(w) \in Requests /\ Req(w).job \in Jobs /\ Req(w).kind = "dump"
      /\ Req(w).key \notin startedKeys
  BY AtDump DEF StageJob, JobAt, DumpSteps, Unstarted
<1>1. CASE stagingJob[Req(w).job].dir
  <2>1. Fails(w) /\ stagingJob' = [stagingJob EXCEPT ![Req(w).job] = Emptied(Req(w).job)]
    BY <1>1 DEF StageJob
  <2>2. /\ MovedAlone(w) /\ dbWorker'[w].at = "record" /\ dbWorker'[w].req = Req(w)
        /\ dbWorker'[w].passed = FALSE
    BY <2>1, FailsOK
  <2>3. HoldOK(w)'
    BY <1>0, <2>2, HoldGoesOn DEF StageJob, DumpSteps, RestoreSteps, Unstarted
  <2>4. DumpOK(w)' /\ RestoreOK(w)'
    BY <2>2 DEF DumpOK, RestoreOK, OwnFile, InDump, InDatabase, PassedIn, Completes, JobAt
  <2> QED BY <1>0, <2>1, <2>2, <2>3, <2>4, EmptiedOK, DatabaseTypesOf DEF StageJob, OwnStep
<1>2. CASE ~stagingJob[Req(w).job].dir
  <2> DEFINE i == [stagingJob[Req(w).job] EXCEPT !.dir = TRUE]
  <2>1. stagingJob \in [Jobs -> Staging] /\ stagingJob[Req(w).job].file = "none"
    BY <1>0, <1>2 DEF DatabaseInv, DatabaseTypeOK, Staging, StagingOK
  <2>2. i \in Staging /\ i.dir
    BY <1>0, <2>1 DEF Staging
  <2>3. stagingJob' = [stagingJob EXCEPT ![Req(w).job] = i]
    BY <1>2 DEF StageJob
  <2> HIDE DEF i
  <2>4. /\ stagingJob' \in [Jobs -> Staging] /\ StagingOK'
        /\ \A l \in Jobs : l # Req(w).job => stagingJob'[l] = stagingJob[l]
    BY <1>0, <2>2, <2>3, StagingBecomes
  <2>5. Undumped(Req(w).job)
    BY <1>0, <2>1, KeysAreProper, UnwrittenIsUndumped
  <2>6. MovedAlone(w) /\ dbWorker'[w].at = "dump" /\ dbWorker'[w].req = Req(w)
    BY <1>2, GoOK DEF StageJob, DbSteps
  <2>7. HoldOK(w)' /\ DumpOK(w)' /\ RestoreOK(w)'
    BY <1>0, <2>5, <2>6, DumpGoesOn DEF StageJob
  <2> QED BY <1>0, <2>4, <2>5, <2>6, <2>7, DatabaseTypesOf DEF StageJob, OwnStep
<1>3. QED BY <1>1, <1>2

LEMMA DumpNotStartedOwn ==
    ASSUME DatabaseInv, NEW w \in Workers, DumpNotStarted(w) PROVE OwnStep(w)
<1>0. /\ Holding(w) /\ Req(w) \in Requests /\ Req(w).job \in Jobs /\ Req(w).kind = "dump"
      /\ Undumped(Req(w).job)
  BY AtDump DEF DumpNotStarted, JobAt, DumpSteps
<1>1. /\ stagingJob' \in [Jobs -> Staging] /\ StagingOK'
      /\ \A l \in Jobs : l # Req(w).job => stagingJob'[l] = stagingJob[l]
  BY <1>0, GoneOK DEF DumpNotStarted
<1>2. NotPassed(w) /\ UNCHANGED <<ledgerRow, startedKeys>>
  BY DEF DumpNotStarted, NotPassed
<1>3. QED BY <1>0, <1>1, <1>2, NotPassedOK, DatabaseTypesOf DEF DumpNotStarted, OwnStep

\* Where one source dumps to a job, no other tool writes to it.
LEMMA NoOtherTool ==
    ASSUME DatabaseInv, NEW w \in Workers, dbWorker[w].at \in DumpSteps, OneSource(Req(w).job)
    PROVE  OtherTools(w) = {}
<1>0. Holding(w) /\ Req(w) \in Requests /\ Req(w).kind = "dump"
  BY AtDump
<1>1. ASSUME NEW v \in Workers \ {w}, JobAt(v, "dumping"), Req(v).job = Req(w).job PROVE FALSE
  <2>1. Holding(v) /\ Req(v) \in Requests /\ Req(v).kind = "dump"
    BY <1>1, AtDump DEF JobAt, DumpSteps
  <2>2. Req(v).scope = Req(w).scope
    BY <1>0, <1>1, <2>1, SameScope
  <2> QED BY <1>0, <2>1, <2>2, OneHolder
<1>2. ASSUME NEW r \in orphans, r.kind = "dump", r.job = Req(w).job PROVE FALSE
  <2>1. r \in Requests
    BY DEF DatabaseInv, DatabaseTypeOK
  <2>2. r.scope = Req(w).scope
    BY <1>0, <1>2, <2>1, SameScope
  <2> QED BY <1>0, <2>2, HolderOrOrphan
<1>3. QED BY <1>1, <1>2 DEF OtherTools

LEMMA StartDumpOwn == ASSUME DatabaseInv, NEW w \in Workers, StartDump(w) PROVE OwnStep(w)
<1>0. /\ Holding(w) /\ Req(w) \in Requests /\ Req(w).job \in Jobs /\ Req(w).kind = "dump"
      /\ Undumped(Req(w).job) /\ dbWorker[w].at \in DumpSteps
  BY AtDump DEF StartDump, JobAt, DumpSteps
<1>1. MovedAlone(w) /\ dbWorker'[w].at = "dumping" /\ dbWorker'[w].req = Req(w)
  BY GoOK DEF StartDump, DbSteps
<1>2. /\ stagingJob' \in [Jobs -> Staging] /\ StagingOK'
      /\ \A l \in Jobs : l # Req(w).job => stagingJob'[l] = stagingJob[l]
      /\ OneSource(Req(w).job) => stagingJob'[Req(w).job].file \in {"none", "partial"}
  <2>1. CASE stagingJob[Req(w).job].dir
    <3> DEFINE c == IF OtherTools(w) = {} THEN "partial" ELSE "mixed"
    <3>1. stagingJob' = [stagingJob EXCEPT ![Req(w).job].file = c]
      BY <2>1 DEF StartDump
    <3>2. c \in Artifacts /\ (OneSource(Req(w).job) => c = "partial")
      BY <1>0, NoOtherTool DEF Artifacts
    <3> HIDE DEF c
    <3> QED BY <1>0, <2>1, <3>1, <3>2, WrittenOK
  <2>2. CASE ~stagingJob[Req(w).job].dir
    <3>1. UNCHANGED stagingJob
      BY <2>2 DEF StartDump
    <3>2. stagingJob[Req(w).job].file = "none"
      BY <1>0, <2>2 DEF DatabaseInv, StagingOK
    <3> QED BY <3>1, <3>2, StagingStays
  <2> QED BY <2>1, <2>2
<1>3. HoldOK(w)' /\ DumpOK(w)' /\ RestoreOK(w)'
  BY <1>0, <1>1, <1>2, DumpGoesOn DEF StartDump
<1>4. QED BY <1>0, <1>1, <1>2, <1>3, DatabaseTypesOf DEF StartDump, OwnStep

LEMMA DumpEndsOwn == ASSUME DatabaseInv, NEW w \in Workers, DumpEnds(w) PROVE OwnStep(w)
<1>0. /\ Holding(w) /\ Req(w) \in Requests /\ Req(w).job \in Jobs /\ Req(w).kind = "dump"
      /\ Undumped(Req(w).job)
      /\ OneSource(Req(w).job) => stagingJob[Req(w).job].file \in {"none", "partial"}
  BY AtDump DEF DumpEnds, JobAt, DumpSteps, OwnFile
<1>1. CASE /\ stagingJob[Req(w).job].file # "none"
           /\ \E c \in Left(Req(w)) : stagingJob' = [stagingJob EXCEPT ![Req(w).job].file = c]
           /\ JobGo(w, "measure") \/ Settle(w, FALSE)
  <2>1. PICK c \in Left(Req(w)) : stagingJob' = [stagingJob EXCEPT ![Req(w).job].file = c]
    BY <1>1
  <2>2. /\ stagingJob[Req(w).job].dir /\ c \in Artifacts
        /\ OneSource(Req(w).job) => c = Req(w).key
    BY <1>0, <1>1, LeftOK
  <2>3. /\ stagingJob' \in [Jobs -> Staging] /\ StagingOK' /\ stagingJob'[Req(w).job].file = c
        /\ \A l \in Jobs : l # Req(w).job => stagingJob'[l] = stagingJob[l]
    BY <1>0, <2>1, <2>2, WrittenOK
  <2>4. CASE JobGo(w, "measure")
    <3>1. MovedAlone(w) /\ dbWorker'[w].at = "measure" /\ dbWorker'[w].req = Req(w)
      BY <2>4, GoOK DEF DbSteps
    <3>2. HoldOK(w)' /\ DumpOK(w)' /\ RestoreOK(w)'
      BY <1>0, <2>2, <2>3, <3>1, DumpGoesOn DEF DumpEnds
    <3> QED BY <1>0, <2>3, <3>1, <3>2, DatabaseTypesOf DEF DumpEnds, OwnStep
  <2>5. CASE Settle(w, FALSE)
    <3>1. NotPassed(w) /\ UNCHANGED <<ledgerRow, startedKeys>>
      BY <2>5 DEF DumpEnds, NotPassed
    <3> QED BY <1>0, <2>3, <3>1, NotPassedOK, DatabaseTypesOf DEF DumpEnds, OwnStep
  <2> QED BY <1>1, <2>4, <2>5
<1>2. CASE /\ stagingJob' = [stagingJob EXCEPT ![Req(w).job].file = "none"]
           /\ Settle(w, FALSE)
  <2>1. /\ stagingJob' \in [Jobs -> Staging] /\ StagingOK'
        /\ \A l \in Jobs : l # Req(w).job => stagingJob'[l] = stagingJob[l]
    BY <1>0, <1>2, GoneOK
  <2>2. NotPassed(w) /\ UNCHANGED <<ledgerRow, startedKeys>>
    BY <1>2 DEF DumpEnds, NotPassed
  <2> QED BY <1>0, <2>1, <2>2, NotPassedOK, DatabaseTypesOf DEF DumpEnds, OwnStep
<1>3. QED BY <1>1, <1>2 DEF DumpEnds

LEMMA MeasureDumpOwn == ASSUME DatabaseInv, NEW w \in Workers, MeasureDump(w) PROVE OwnStep(w)
<1>0. /\ Holding(w) /\ Req(w) \in Requests /\ Req(w).job \in Jobs /\ Req(w).kind = "dump"
      /\ Undumped(Req(w).job)
      /\ OneSource(Req(w).job) => stagingJob[Req(w).job].file = Req(w).key
  BY AtDump DEF MeasureDump, JobAt, DumpSteps, OwnFile
<1>1. CASE /\ stagingJob[Req(w).job].file # "none"
           /\ dbWorker' = [dbWorker EXCEPT ![w].at = "complete", ![w].passed = TRUE,
                                           ![w].artifact = stagingJob[Req(w).job].file]
           /\ UNCHANGED stagingJob
  <2> DEFINE i == [dbWorker[w] EXCEPT !.at = "complete", !.passed = TRUE,
                                      !.artifact = stagingJob[Req(w).job].file]
  <2>1. dbWorker[w] \in WorkerStates /\ stagingJob[Req(w).job].file \in {"none"} \cup Artifacts
    BY <1>0, StateOf DEF DatabaseInv, DatabaseTypeOK
  <2>2. i \in WorkerStates /\ i.at = "complete" /\ i.req = dbWorker[w].req /\ i.passed = TRUE
    BY <2>1 DEF WorkerStates, DbSteps
  <2>3. dbWorker' = [dbWorker EXCEPT ![w] = i]
    BY <1>1
  <2> HIDE DEF i
  <2>4. MovedAlone(w) /\ dbWorker'[w].at = "complete" /\ dbWorker'[w].req = Req(w)
    BY <2>2, <2>3, WorkerBecomes DEF Req
  <2>5. HoldOK(w)' /\ DumpOK(w)' /\ RestoreOK(w)'
    BY <1>0, <1>1, <2>4, DumpGoesOn DEF MeasureDump
  <2> QED BY <1>0, <1>1, <2>4, <2>5, StagingStays, DatabaseTypesOf DEF MeasureDump, OwnStep
<1>2. CASE stagingJob' = [stagingJob EXCEPT ![Req(w).job] = NoStaging] /\ Fails(w)
  <2>1. /\ stagingJob' \in [Jobs -> Staging] /\ StagingOK'
        /\ \A l \in Jobs : l # Req(w).job => stagingJob'[l] = stagingJob[l]
    BY <1>0, <1>2, GoneOK
  <2>2. NotPassed(w) /\ UNCHANGED <<ledgerRow, startedKeys>>
    BY <1>2 DEF MeasureDump, NotPassed
  <2> QED BY <1>0, <2>1, <2>2, NotPassedOK, DatabaseTypesOf DEF MeasureDump, OwnStep
<1>3. QED BY <1>1, <1>2 DEF MeasureDump

-----------------------------------------------------------------------------
(* Restores *)

\* A restore goes on at the next step.
LEMMA RestoreGoesOn ==
    ASSUME DatabaseInv, NEW w \in Workers, Holding(w), NEW step \in RestoreSteps,
           JobGo(w, step), Req(w).kind = "restore", UNCHANGED ledgerRow,
           step \in Unstarted => Req(w).key \notin startedKeys'
    PROVE  /\ MovedAlone(w) /\ dbWorker'[w].req = Req(w) /\ dbWorker'[w].at = step
           /\ dbWorker'[w].at \notin {"idle", "insert"}
           /\ HoldOK(w)' /\ DumpOK(w)' /\ Target(w)' = Target(w)
<1>1. /\ MovedAlone(w) /\ dbWorker'[w].at = step /\ dbWorker'[w].req = Req(w)
      /\ dbWorker'[w].passed = dbWorker[w].passed
  BY GoOK DEF RestoreSteps, DbSteps
<1>2. HoldOK(w)'
  BY <1>1, HoldGoesOn DEF DumpSteps, RestoreSteps, Unstarted
<1>3. DumpOK(w)'
  BY <1>1 DEF DumpOK, OwnFile, InDump, PassedIn, Completes, JobAt, RestoreSteps
<1>4. QED BY <1>1, <1>2, <1>3 DEF RestoreSteps, Target, Req

\* What a worker in a restore has in hand.
LEMMA InRestore ==
    ASSUME DatabaseInv, NEW w \in Workers, dbWorker[w].at \in RestoreSteps
    PROVE  /\ Holding(w) /\ Req(w) \in Requests /\ Req(w).kind = "restore"
           /\ Target(w) \in RestoreTargets /\ Req(w).of \in JobKeys
           /\ dbWorker[w].at \in Unstarted => Req(w).key \notin startedKeys
           /\ dbWorker[w].at \in {"restoring", "verify", "clean"} => Unrestored(Target(w))
           /\ JobAt(w, "restore") => restoreDb[Target(w)] = "empty"
BY DatabaseTypesOf, RequestOK
   DEF RestoreSteps, Holding, DatabaseInv, HoldOK, RestoreOK, InDatabase, Target

LEMMA ResolveTargetOwn ==
    ASSUME DatabaseInv, NEW w \in Workers, ResolveTarget(w) PROVE OwnStep(w)
<1>0. Holding(w) /\ Req(w).kind = "restore" /\ Req(w).key \notin startedKeys
  BY InRestore DEF ResolveTarget, JobAt, RestoreSteps, Unstarted
<1>1. CASE JobGo(w, "precheck")
  <2>1. /\ MovedAlone(w) /\ dbWorker'[w].req = Req(w) /\ dbWorker'[w].at = "precheck"
        /\ HoldOK(w)' /\ DumpOK(w)'
    BY <1>0, <1>1, RestoreGoesOn DEF ResolveTarget, RestoreSteps
  <2>2. RestoreOK(w)'
    BY <2>1 DEF RestoreOK, InDatabase, PassedIn, Completes, JobAt
  <2> QED BY <1>0, <2>1, <2>2, StagingStays, DatabaseTypesOf DEF ResolveTarget, OwnStep
<1>2. CASE Fails(w)
  <2>1. NotPassed(w) /\ UNCHANGED <<ledgerRow, startedKeys>>
    BY <1>2 DEF ResolveTarget, NotPassed
  <2> QED BY <1>0, <2>1, NotPassedOK, StagingStays, DatabaseTypesOf DEF ResolveTarget, OwnStep
<1>3. QED BY <1>1, <1>2 DEF ResolveTarget

LEMMA PrecheckTargetOwn ==
    ASSUME DatabaseInv, NEW w \in Workers, PrecheckTarget(w) PROVE OwnStep(w)
<1>0. /\ Holding(w) /\ Req(w).kind = "restore" /\ Req(w).key \notin startedKeys
      /\ Target(w) \in RestoreTargets
  BY InRestore DEF PrecheckTarget, JobAt, RestoreSteps, Unstarted
<1>1. registry' \in [RestoreTargets -> {"none", "active", "quarantined"}]
  BY DatabaseTypesOf DEF PrecheckTarget, Quarantined
<1>2. CASE TargetHolds(w) = "empty" /\ JobGo(w, "restore")
  <2>1. /\ MovedAlone(w) /\ dbWorker'[w].req = Req(w) /\ dbWorker'[w].at = "restore"
        /\ HoldOK(w)' /\ DumpOK(w)' /\ Target(w)' = Target(w)
    BY <1>0, <1>2, RestoreGoesOn DEF PrecheckTarget, RestoreSteps
  <2>2. RestoreOK(w)'
    BY <1>2, <2>1 DEF PrecheckTarget, RestoreOK, InDatabase, PassedIn, Completes, JobAt,
                     TargetHolds
  <2> QED BY <1>0, <1>1, <2>1, <2>2, StagingStays, DatabaseTypesOf DEF PrecheckTarget, OwnStep
<1>3. CASE NotPassed(w)
  <2>1. UNCHANGED <<ledgerRow, startedKeys>>
    BY DEF PrecheckTarget
  <2> QED BY <1>0, <1>1, <1>3, <2>1, NotPassedOK, StagingStays, DatabaseTypesOf
          DEF PrecheckTarget, OwnStep
<1>4. QED BY <1>2, <1>3 DEF PrecheckTarget, NotPassed

LEMMA RestoreNotStartedOwn ==
    ASSUME DatabaseInv, NEW w \in Workers, RestoreNotStarted(w) PROVE OwnStep(w)
<1>0. /\ Holding(w) /\ Req(w).kind = "restore" /\ Req(w).key \notin startedKeys
      /\ Target(w) \in RestoreTargets /\ restoreDb[Target(w)] = "empty"
  BY InRestore DEF RestoreNotStarted, JobAt, RestoreSteps, Unstarted
<1>1. CASE Fails(w)
  <2>1. NotPassed(w) /\ UNCHANGED <<ledgerRow, startedKeys>>
    BY <1>1 DEF RestoreNotStarted, NotPassed
  <2> QED BY <1>0, <2>1, NotPassedOK, StagingStays, DatabaseTypesOf DEF RestoreNotStarted, OwnStep
<1>2. CASE JobGo(w, "clean")
  <2>1. /\ MovedAlone(w) /\ dbWorker'[w].req = Req(w) /\ dbWorker'[w].at = "clean"
        /\ HoldOK(w)' /\ DumpOK(w)' /\ Target(w)' = Target(w)
    BY <1>0, <1>2, RestoreGoesOn DEF RestoreNotStarted, RestoreSteps, Unstarted
  <2>2. Unrestored(Target(w))
    BY <1>0, EmptyIsUnrestored
  <2>3. Unrestored(Target(w))'
    BY <2>1, <2>2 DEF RestoreNotStarted, Unrestored, JobKeys
  <2>4. RestoreOK(w)'
    BY <2>1, <2>3 DEF RestoreOK, InDatabase, PassedIn, Completes, JobAt
  <2> QED BY <1>0, <2>1, <2>4, StagingStays, DatabaseTypesOf DEF RestoreNotStarted, OwnStep
<1>3. QED BY <1>1, <1>2 DEF RestoreNotStarted

LEMMA StartRestoreOwn ==
    ASSUME DatabaseInv, NEW w \in Workers, StartRestore(w) PROVE OwnStep(w)
<1>0. /\ Holding(w) /\ Req(w).kind = "restore" /\ Target(w) \in RestoreTargets
      /\ restoreDb[Target(w)] = "empty"
  BY InRestore DEF StartRestore, JobAt, RestoreSteps
<1>1. Unrestored(Target(w))
  BY <1>0, EmptyIsUnrestored
<1>2. /\ restoreDb' \in [RestoreTargets -> {"empty", "partial"} \cup JobKeys]
      /\ \A t \in RestoreTargets : t # Target(w) => restoreDb'[t] = restoreDb[t]
  BY <1>0, DatabaseBecomes DEF StartRestore
<1>3. /\ MovedAlone(w) /\ dbWorker'[w].req = Req(w) /\ dbWorker'[w].at = "restoring"
      /\ HoldOK(w)' /\ DumpOK(w)' /\ Target(w)' = Target(w)
  BY <1>0, RestoreGoesOn DEF StartRestore, RestoreSteps, Unstarted
<1>4. Unrestored(Target(w))'
  BY <1>1, <1>3 DEF StartRestore, Unrestored, JobKeys
<1>5. RestoreOK(w)'
  BY <1>3, <1>4 DEF RestoreOK, InDatabase, PassedIn, Completes, JobAt
<1>6. QED BY <1>0, <1>1, <1>2, <1>3, <1>5, StagingStays, DatabaseTypesOf DEF StartRestore, OwnStep

\* A restore that started goes on to its verification or its cleaning.
LEMMA RestoreEndsOwn ==
    ASSUME DatabaseInv, NEW w \in Workers, RestoreEnds(w) PROVE OwnStep(w)
<1>0. /\ Holding(w) /\ Req(w).kind = "restore" /\ Target(w) \in RestoreTargets
      /\ Req(w).of \in JobKeys /\ Unrestored(Target(w))
  BY InRestore DEF RestoreEnds, JobAt, RestoreSteps
<1>1. /\ restoreDb' \in [RestoreTargets -> {"empty", "partial"} \cup JobKeys]
      /\ \A t \in RestoreTargets : t # Target(w) => restoreDb'[t] = restoreDb[t]
  BY <1>0, DatabaseBecomes, DatabaseTypesOf DEF RestoreEnds
<1>2. ASSUME NEW step \in {"verify", "clean"}, JobGo(w, step) PROVE OwnStep(w)
  <2>1. /\ MovedAlone(w) /\ dbWorker'[w].req = Req(w) /\ dbWorker'[w].at = step
        /\ HoldOK(w)' /\ DumpOK(w)' /\ Target(w)' = Target(w)
    BY <1>0, <1>2, RestoreGoesOn DEF RestoreEnds, RestoreSteps, Unstarted
  <2>2. Unrestored(Target(w))'
    BY <1>0, <2>1 DEF RestoreEnds, Unrestored, JobKeys
  <2>3. RestoreOK(w)'
    BY <2>1, <2>2 DEF RestoreOK, InDatabase, PassedIn, Completes, JobAt
  <2> QED BY <1>0, <1>1, <2>1, <2>3, StagingStays, DatabaseTypesOf DEF RestoreEnds, OwnStep
<1>3. CASE Fails(w)
  <2>1. NotPassed(w) /\ UNCHANGED <<ledgerRow, startedKeys>>
    BY <1>3 DEF RestoreEnds, NotPassed
  <2> QED BY <1>0, <1>1, <2>1, NotPassedOK, StagingStays, DatabaseTypesOf
          DEF RestoreEnds, OwnStep
<1>4. QED BY <1>2, <1>3 DEF RestoreEnds

LEMMA VerifyRestoreOwn ==
    ASSUME DatabaseInv, NEW w \in Workers, VerifyRestore(w) PROVE OwnStep(w)
<1>0. /\ Holding(w) /\ Req(w).kind = "restore" /\ Target(w) \in RestoreTargets
      /\ Unrestored(Target(w))
  BY InRestore DEF VerifyRestore, JobAt, RestoreSteps
<1>1. CASE TargetHolds(w) = Req(w).of /\ Settle(w, TRUE)
  <2>1. /\ MovedAlone(w) /\ dbWorker'[w].at = "complete" /\ dbWorker'[w].req = Req(w)
        /\ dbWorker'[w].passed = TRUE
    BY <1>1, SettleOK
  <2>2. HoldOK(w)'
    BY <1>0, <2>1, HoldGoesOn DEF VerifyRestore, DumpSteps, RestoreSteps, Unstarted
  <2>3. Req(w)' = Req(w) /\ Target(w)' = Target(w)
    BY <2>1 DEF Req, Target
  <2>4. Unrestored(Target(w))' /\ restoreDb'[Target(w)] = Req(w).of
    BY <1>0, <1>1, <2>3 DEF VerifyRestore, Unrestored, JobKeys, TargetHolds
  <2>5. DumpOK(w)' /\ RestoreOK(w)'
    BY <1>0, <2>1, <2>3, <2>4
       DEF DumpOK, RestoreOK, OwnFile, InDump, InDatabase, PassedIn, Completes, JobAt
  <2> QED BY <1>0, <2>1, <2>2, <2>5, StagingStays, DatabaseTypesOf DEF VerifyRestore, OwnStep
<1>2. CASE JobGo(w, "clean")
  <2>1. /\ MovedAlone(w) /\ dbWorker'[w].req = Req(w) /\ dbWorker'[w].at = "clean"
        /\ HoldOK(w)' /\ DumpOK(w)' /\ Target(w)' = Target(w)
    BY <1>0, <1>2, RestoreGoesOn DEF VerifyRestore, RestoreSteps, Unstarted
  <2>2. Unrestored(Target(w))'
    BY <1>0, <2>1 DEF VerifyRestore, Unrestored, JobKeys
  <2>3. RestoreOK(w)'
    BY <2>1, <2>2 DEF RestoreOK, InDatabase, PassedIn, Completes, JobAt
  <2> QED BY <1>0, <2>1, <2>3, StagingStays, DatabaseTypesOf DEF VerifyRestore, OwnStep
<1>3. QED BY <1>1, <1>2 DEF VerifyRestore

LEMMA CleanTargetOwn ==
    ASSUME DatabaseInv, NEW w \in Workers, CleanTarget(w) PROVE OwnStep(w)
<1>0. /\ Holding(w) /\ Req(w).kind = "restore" /\ Target(w) \in RestoreTargets
      /\ Unrestored(Target(w))
  BY InRestore DEF CleanTarget, JobAt, RestoreSteps
<1>1. /\ restoreDb' \in [RestoreTargets -> {"empty", "partial"} \cup JobKeys]
      /\ \A t \in RestoreTargets : t # Target(w) => restoreDb'[t] = restoreDb[t]
  BY <1>0, DatabaseBecomes, DatabaseTypesOf DEF CleanTarget
<1>2. registry' \in [RestoreTargets -> {"none", "active", "quarantined"}]
  BY DatabaseTypesOf DEF CleanTarget, Quarantined
<1>3. NotPassed(w) /\ UNCHANGED <<ledgerRow, startedKeys>>
  BY DEF CleanTarget
<1>4. QED BY <1>0, <1>1, <1>2, <1>3, NotPassedOK, StagingStays, DatabaseTypesOf
      DEF CleanTarget, OwnStep

LEMMA CompletionFailsOwn ==
    ASSUME DatabaseInv, NEW w \in Workers, CompletionFails(w) PROVE OwnStep(w)
<1>0. /\ Holding(w) /\ Req(w) \in Requests /\ Req(w).job \in Jobs /\ dbFaults' \in 0..MaxDbFaults
      /\ UNCHANGED <<ledgerRow, restoreDb, registry, orphans, startedKeys>>
  BY DatabaseTypesOf, RequestOK, MaxDbFaultsAssumption DEF CompletionFails, JobAt, Holding
<1>1. CASE /\ JobAt(w, "complete") /\ Req(w).kind = "dump"
           /\ stagingJob' = [stagingJob EXCEPT ![Req(w).job] = NoStaging] /\ Fails(w)
  <2>1. /\ stagingJob' \in [Jobs -> Staging] /\ StagingOK'
        /\ \A l \in Jobs : l # Req(w).job => stagingJob'[l] = stagingJob[l]
    BY <1>0, <1>1, GoneOK
  <2>2. Undumped(Req(w).job)
    BY <1>1 DEF DatabaseInv, DumpOK, InDump, Completes
  <2>3. NotPassed(w)
    BY <1>1 DEF NotPassed
  <2> QED BY <1>0, <1>1, <2>1, <2>2, <2>3, NotPassedOK, DatabaseTypesOf DEF OwnStep
<1>2. CASE /\ JobAt(w, "complete") /\ Req(w).kind = "restore" /\ ~dbWorker[w].passed
           /\ JobGo(w, IF Req(w).key \in startedKeys THEN "clean" ELSE "record")
           /\ UNCHANGED stagingJob
  <2>1. CASE Req(w).key \in startedKeys
    <3>1. JobGo(w, "clean") /\ Unrestored(Target(w))
      BY <1>2, <2>1 DEF DatabaseInv, RestoreOK, InDatabase, Completes
    <3>2. /\ MovedAlone(w) /\ dbWorker'[w].req = Req(w) /\ dbWorker'[w].at = "clean"
          /\ HoldOK(w)' /\ DumpOK(w)' /\ Target(w)' = Target(w)
      BY <1>0, <1>2, <3>1, RestoreGoesOn DEF RestoreSteps, Unstarted
    <3>3. Unrestored(Target(w))'
      BY <1>0, <3>1, <3>2 DEF Unrestored, JobKeys
    <3>4. RestoreOK(w)'
      BY <3>2, <3>3 DEF RestoreOK, InDatabase, PassedIn, Completes, JobAt
    <3> QED BY <1>0, <1>2, <3>2, <3>4, StagingStays, DatabaseTypesOf DEF OwnStep
  <2>2. CASE Req(w).key \notin startedKeys
    <3>1. /\ MovedAlone(w) /\ dbWorker'[w].at = "record" /\ dbWorker'[w].req = Req(w)
          /\ dbWorker'[w].passed = dbWorker[w].passed
      BY <1>2, <2>2, GoOK DEF DbSteps
    <3>2. dbWorker[w].passed = FALSE
      BY <1>2 DEF DatabaseInv, DatabaseTypeOK
    <3>3. HoldOK(w)'
      BY <1>0, <3>1, <3>2, HoldGoesOn DEF DumpSteps, RestoreSteps, Unstarted
    <3>4. DumpOK(w)' /\ RestoreOK(w)'
      BY <3>1 DEF DumpOK, RestoreOK, OwnFile, InDump, InDatabase, PassedIn, Completes, JobAt
    <3> QED BY <1>0, <1>2, <3>1, <3>3, <3>4, StagingStays, DatabaseTypesOf DEF OwnStep
  <2> QED BY <2>1, <2>2
<1>3. CASE Rest(w) /\ UNCHANGED stagingJob
  BY <1>0, <1>3, RestOK, LetGo, StagingStays, DatabaseTypesOf DEF OwnStep
<1>4. QED BY <1>1, <1>2, <1>3 DEF CompletionFails

-----------------------------------------------------------------------------
(* Steps on the ledger and of those who have nothing in hand *)

\* What a worker found stays so while its ledger, directories and databases do.
LEMMA OthersKeep ==
    ASSUME DatabaseInv, NEW v \in Workers, dbWorker'[v] = dbWorker[v],
           UNCHANGED <<stagingJob, restoreDb, startedKeys>>,
           InDump(v) => Undumped(Req(v).job)', InDatabase(v) => Unrestored(Target(v))'
    PROVE  DumpOK(v)' /\ RestoreOK(v)'
<1>1. Req(v)' = Req(v) /\ Target(v)' = Target(v)
  BY DEF Req, Target
<1>2. /\ InDump(v)' <=> InDump(v)
      /\ InDatabase(v)' <=> InDatabase(v)
      /\ PassedIn(v, "restore")' <=> PassedIn(v, "restore")
      /\ OwnFile(v)' <=> OwnFile(v)
      /\ JobAt(v, "restore")' <=> JobAt(v, "restore")
  BY <1>1 DEF InDump, InDatabase, PassedIn, OwnFile, Completes, JobAt
<1>3. OneSource(Req(v).job)' <=> OneSource(Req(v).job)
  BY <1>1 DEF OneSource, Dumps
<1>4. QED BY <1>1, <1>2, <1>3 DEF DatabaseInv, DumpOK, RestoreOK

\* A worker without an operation, or one that dies and leaves a tool running.
LEMMA WithoutOneKeeps ==
    ASSUME DatabaseInv, NEW w \in Workers, MovedAlone(w), dbWorker'[w].at \in {"idle", "insert"},
           dbWorker'[w].at = "insert" => dbWorker'[w].req \in Requests,
           UNCHANGED <<ledgerRow, stagingJob, restoreDb, registry, startedKeys>>,
           dbFaults' \in 0..MaxDbFaults,
           \/ UNCHANGED orphans
           \/ /\ Holding(w) /\ Req(w) \in Requests /\ OrphanOK(Req(w))
              /\ orphans' = orphans \cup {Req(w)}
    PROVE  DatabaseInv'
<1>1. DatabaseTypeOK'
  BY DEF DatabaseInv, DatabaseTypeOK, MovedAlone, WorkerStates
<1>2. /\ RowsOK' /\ ScopeOK' /\ StartedOK' /\ StagingOK' /\ OutcomeIsTrue'
      /\ \A r : Owned(r)' <=> Owned(r)
      /\ \A r : OrphanOK(r)' <=> OrphanOK(r)
  BY DEF DatabaseInv, RowsOK, ScopeOK, StartedOK, StagingOK, OutcomeIsTrue, Owned, Row,
         JobKeys, Jobs, OrphanOK, Undumped, Unrestored, OneSource, Dumps
<1>3. ~Holding(w)' /\ \A v \in Workers : Holding(v)' => v # w /\ Holding(v) /\ Req(v)' = Req(v)
  BY DEF Holding, MovedAlone, Req
<1>4. SoleOK'
  <2>1. ASSUME NEW v \in Workers, NEW u \in Workers, Holding(v)', Holding(u)',
               Req(v)'.key = Req(u)'.key
        PROVE  v = u
    BY <2>1, <1>3 DEF DatabaseInv, SoleOK
  <2>2. ASSUME NEW r \in orphans'
        PROVE  Owned(r)' /\ \A v \in Workers : Holding(v)' => Req(v)'.key # r.key
    <3>1. CASE r \in orphans
      BY <3>1, <1>2, <1>3 DEF DatabaseInv, SoleOK
    <3>2. CASE r \notin orphans
      <4>1. r = Req(w) /\ Holding(w)
        BY <3>2, <2>2
      <4>2. Owned(r)'
        BY <4>1, <1>2 DEF DatabaseInv, HoldOK
      <4>3. \A v \in Workers : Holding(v)' => Req(v)'.key # r.key
        BY <4>1, <1>3 DEF DatabaseInv, SoleOK
      <4> QED BY <4>2, <4>3
    <3> QED BY <3>1, <3>2
  <2> QED BY <2>1, <2>2 DEF SoleOK
<1>5. ASSUME NEW v \in Workers PROVE HoldOK(v)' /\ DumpOK(v)' /\ RestoreOK(v)'
  <2>1. CASE v = w
    BY <2>1, <1>3
       DEF HoldOK, DumpOK, RestoreOK, OwnFile, InDump, InDatabase, PassedIn, Completes,
           JobAt, Req, Holding, DumpSteps, RestoreSteps, Unstarted
  <2>2. CASE v # w
    <3>1. dbWorker'[v] = dbWorker[v]
      BY <2>2 DEF MovedAlone
    <3>2. HoldOK(v)'
      BY <3>1, <1>2 DEF DatabaseInv, HoldOK, JobAt, Req, Holding
    <3>3. /\ Undumped(Req(v).job)' <=> Undumped(Req(v).job)
          /\ Unrestored(Target(v))' <=> Unrestored(Target(v))
      BY <3>1 DEF Undumped, Unrestored, JobKeys, OneSource, Dumps, Target, Req
    <3>4. DumpOK(v)' /\ RestoreOK(v)'
      BY <3>1, <3>3, OthersKeep DEF DatabaseInv, DumpOK, RestoreOK
    <3> QED BY <3>2, <3>4
  <2> QED BY <2>1, <2>2
<1>6. \A r \in orphans' : OrphanOK(r)'
  BY <1>2 DEF DatabaseInv
<1>7. QED BY <1>1, <1>2, <1>4, <1>5, <1>6 DEF DatabaseInv

LEMMA ReadLedgerKeeps ==
    ASSUME DatabaseInv, NEW w \in Workers, NEW r \in Requests, ReadLedger(w, r)
    PROVE  DatabaseInv'
<1> DEFINE i == [RestingWorker EXCEPT !.at = "insert", !.req = r]
<1>1. i \in WorkerStates /\ i.at = "insert" /\ i.req = r
  BY DEF RestingWorker, WorkerStates, DbSteps
<1>2. dbWorker' = [dbWorker EXCEPT ![w] = i]
  BY DEF ReadLedger
<1> HIDE DEF i
<1>3. MovedAlone(w) /\ dbWorker'[w] = i
  BY <1>1, <1>2, WorkerBecomes
<1>4. QED BY <1>1, <1>3, WithoutOneKeeps, DatabaseTypesOf DEF ReadLedger

LEMMA DbWorkerDiesKeeps ==
    ASSUME DatabaseInv, NEW w \in Workers, DbWorkerDies(w) PROVE DatabaseInv'
<1>1. MovedAlone(w) /\ dbWorker'[w].at = "idle"
  BY RestOK DEF DbWorkerDies
<1>2. dbFaults' \in 0..MaxDbFaults
  BY DatabaseTypesOf, MaxDbFaultsAssumption DEF DbWorkerDies
<1>3. CASE dbWorker[w].at \in {"dumping", "restoring"}
  <2>1. Holding(w) /\ Req(w) \in Requests
    BY <1>3, DatabaseTypesOf DEF Holding
  <2>2. OrphanOK(Req(w))
    BY <1>3
       DEF DatabaseInv, HoldOK, DumpOK, RestoreOK, InDump, InDatabase, DumpSteps, RestoreSteps,
           OrphanOK, Target
  <2>3. orphans' = orphans \cup {Req(w)}
    BY <1>3 DEF DbWorkerDies
  <2> QED BY <1>1, <1>2, <2>1, <2>2, <2>3, WithoutOneKeeps DEF DbWorkerDies
<1>4. CASE dbWorker[w].at \notin {"dumping", "restoring"}
  BY <1>1, <1>2, <1>4, WithoutOneKeeps DEF DbWorkerDies
<1>5. QED BY <1>3, <1>4

LEMMA InsertClaimKeeps ==
    ASSUME DatabaseInv, NEW w \in Workers, InsertClaim(w) PROVE DatabaseInv'
<1>1. CASE Row(Req(w)).status # "absent" \/ ScopeTaken(Req(w).scope)
  <2>1. MovedAlone(w) /\ dbWorker'[w].at = "idle"
    BY <1>1, RestOK DEF InsertClaim
  <2> QED BY <1>1, <2>1, WithoutOneKeeps, DatabaseTypesOf DEF InsertClaim
<1>2. CASE ~(Row(Req(w)).status # "absent" \/ ScopeTaken(Req(w).scope))
  <2> DEFINE k == Req(w).key
             row == Running(w)
             step == FirstDbStep[Req(w).kind]
  <2>0. /\ Req(w) \in Requests /\ k \in JobKeys /\ Req(w).kind \in {"dump", "restore"}
        /\ ledgerRow[k].status = "absent" /\ ~ScopeTaken(Req(w).scope) /\ ~Holding(w)
    BY <1>2, RequestOK DEF InsertClaim, JobAt, DatabaseInv, HoldOK, Row, Holding
  <2>a. row \in Rows /\ row.status = "running" /\ row.request = Req(w)
    BY <2>0 DEF Running, NoRow, Rows
  <2>1. /\ ledgerRow' = [ledgerRow EXCEPT ![k] = row] /\ JobGo(w, step)
        /\ UNCHANGED <<stagingJob, restoreDb, registry, orphans, startedKeys, dbFaults>>
    BY <1>2 DEF InsertClaim
  <2>2. /\ step \in {"stage", "resolve"}
        /\ step = "stage" => Req(w).kind = "dump"
        /\ step = "resolve" => Req(w).kind = "restore"
    BY <2>0 DEF FirstDbStep
  <2> HIDE DEF step, row
  <2>3. MovedAlone(w) /\ dbWorker'[w].at = step /\ dbWorker'[w].req = Req(w)
    BY <2>1, <2>2, GoOK DEF DbSteps
  <2>4. ledgerRow'[k] = row /\ \A l \in JobKeys : l # k => ledgerRow'[l] = ledgerRow[l]
    BY <2>0, <2>1 DEF DatabaseInv, DatabaseTypeOK
  <2>5. DatabaseTypeOK'
    <3>1. ledgerRow' \in [JobKeys -> {NoRow} \cup Rows]
      BY <2>0, <2>a, <2>1 DEF DatabaseInv, DatabaseTypeOK, Rows
    <3> QED BY <3>1, <2>1, <2>3 DEF DatabaseInv, DatabaseTypeOK, MovedAlone, WorkerStates, Rows
  <2>6. ASSUME NEW r, Owned(r), r.key \in JobKeys PROVE r.key # k /\ Owned(r)'
    <3>1. r.key # k
      BY <2>0, <2>6 DEF Owned, Active, Row
    <3> QED BY <3>1, <2>4, <2>6 DEF Owned, Row, Active
  <2>7. RowsOK'
    BY <2>0, <2>a, <2>4 DEF DatabaseInv, RowsOK, JobKeys
  <2>8. ScopeOK'
    BY <2>0, <2>a, <2>4 DEF DatabaseInv, ScopeOK, ScopeTaken, Active, JobKeys
  <2>9. \A v \in Workers : v # w => dbWorker'[v] = dbWorker[v]
    BY <2>3 DEF MovedAlone
  <2>10. Owned(Req(w))' /\ Req(w)' = Req(w)
    BY <2>a, <2>3, <2>4 DEF Owned, Row, Active, Req
  <2>11. \A v \in Workers : Holding(v) => Req(v).key # k /\ Owned(Req(v))'
    <3> SUFFICES ASSUME NEW v \in Workers, Holding(v) PROVE Req(v).key # k /\ Owned(Req(v))'
      OBVIOUS
    <3>1. Owned(Req(v)) /\ Req(v).key \in JobKeys
      BY DatabaseTypesOf, RequestOK DEF DatabaseInv, HoldOK
    <3>2. v # w /\ Req(v)' = Req(v)
      BY <2>0, <2>9 DEF Req
    <3>3. Req(v).key # k
      BY <3>1, <2>6
    <3>4. Owned(Req(v))'
      BY <3>1, <3>2, <3>3, <2>4 DEF Owned, Row, Active
    <3> QED BY <3>3, <3>4
  <2>12. \A r \in orphans : r.key # k /\ Owned(r)'
    <3> SUFFICES ASSUME NEW r \in orphans PROVE r.key # k /\ Owned(r)'
      OBVIOUS
    <3>1. Owned(r) /\ r.key \in JobKeys
      BY RequestOK DEF DatabaseInv, DatabaseTypeOK, SoleOK
    <3> QED BY <3>1, <2>6
  <2>13. SoleOK'
    <3>1. \A v \in Workers : Holding(v)' => v = w \/ Holding(v)
      BY <2>9 DEF Holding
    <3>2. \A v \in Workers : Req(v)' = Req(v)
      BY <2>9, <2>10 DEF Req
    <3>3. ASSUME NEW v \in Workers, NEW u \in Workers, Holding(v)', Holding(u)',
                 Req(v)'.key = Req(u)'.key
          PROVE  v = u
      BY <3>1, <3>2, <3>3, <2>11 DEF DatabaseInv, SoleOK
    <3>4. \A r \in orphans : \A v \in Workers : Holding(v)' => Req(v)'.key # r.key
      BY <3>1, <3>2, <2>12 DEF DatabaseInv, SoleOK
    <3> QED BY <3>3, <3>4, <2>1, <2>12 DEF SoleOK
  <2>14. StartedOK' /\ StagingOK' /\ k \notin startedKeys
    <3>1. k \notin startedKeys
      BY <2>0 DEF DatabaseInv, StartedOK
    <3> QED BY <3>1, <2>1, <2>4 DEF DatabaseInv, DatabaseTypeOK, StartedOK, StagingOK, Jobs
  <2>15. \A l \in JobKeys :
            /\ ledgerRow'[l].status = "succeeded" <=> ledgerRow[l].status = "succeeded"
            /\ ledgerRow'[l].status = "succeeded" => ledgerRow'[l] = ledgerRow[l]
    BY <2>0, <2>a, <2>4
  <2>16. ASSUME NEW v \in Workers PROVE HoldOK(v)' /\ DumpOK(v)' /\ RestoreOK(v)'
    <3>1. CASE v = w
      BY <3>1, <2>0, <2>1, <2>2, <2>3, <2>10, <2>14
         DEF HoldOK, DumpOK, RestoreOK, OwnFile, InDump, InDatabase, PassedIn, Completes,
             JobAt, Holding, DumpSteps, RestoreSteps, Unstarted
    <3>2. CASE v # w
      <4>1. dbWorker'[v] = dbWorker[v]
        BY <3>2, <2>9
      <4>2. HoldOK(v)'
        BY <4>1, <2>1, <2>11 DEF DatabaseInv, HoldOK, JobAt, Holding, Req
      <4>3. /\ Undumped(Req(v).job)' <=> Undumped(Req(v).job)
            /\ Unrestored(Target(v))' <=> Unrestored(Target(v))
        BY <4>1, <2>15 DEF Undumped, Unrestored, JobKeys, OneSource, Dumps, Target, Req
      <4>4. DumpOK(v)' /\ RestoreOK(v)'
        BY <4>1, <4>3, <2>1, OthersKeep DEF DatabaseInv, DumpOK, RestoreOK
      <4> QED BY <4>2, <4>4
    <3> QED BY <3>1, <3>2
  <2>17. \A r \in orphans' : OrphanOK(r)'
    <3> SUFFICES ASSUME NEW r \in orphans PROVE OrphanOK(r)'
      BY <2>1
    <3>1. (Unrestored(r.target)' <=> Unrestored(r.target)) /\ (Undumped(r.job)' <=> Undumped(r.job))
      BY <2>15 DEF Unrestored, Undumped, JobKeys, OneSource, Dumps
    <3> QED BY <3>1 DEF DatabaseInv, OrphanOK
  <2>18. OutcomeIsTrue'
    <3> SUFFICES ASSUME NEW l \in JobKeys, ledgerRow'[l].status = "succeeded"
                 PROVE  LET r == ledgerRow'[l].request
                        IN  IF r.kind = "restore" THEN restoreDb'[r.target] = r.of
                            ELSE OneSource(r.job) => stagingJob'[r.job].file = l
      BY DEF OutcomeIsTrue, JobKeys, OneSource, Dumps
    <3>1. ledgerRow'[l] = ledgerRow[l]
      BY <2>15
    <3> QED BY <3>1, <2>1 DEF DatabaseInv, OutcomeIsTrue
  <2> QED BY <2>5, <2>7, <2>8, <2>13, <2>14, <2>16, <2>17, <2>18 DEF DatabaseInv
<1>3. QED BY <1>1, <1>2

LEMMA CompleteOperationKeeps ==
    ASSUME DatabaseInv, NEW w \in Workers, CompleteOperation(w) PROVE DatabaseInv'
<1> DEFINE k == Req(w).key
           q == Req(w)
           row == [ledgerRow[k] EXCEPT !.status = OutcomeOf(w), !.artifact = dbWorker[w].artifact]
<1>0. /\ Holding(w) /\ q \in Requests /\ k \in JobKeys /\ Owned(q)
      /\ OutcomeOf(w) \in {"succeeded", "failed"}
      /\ UNCHANGED <<stagingJob, restoreDb, registry, orphans, startedKeys, dbFaults>>
  BY RequestOK DEF CompleteOperation, JobAt, DatabaseInv, HoldOK, Holding, OutcomeOf
<1>1. row \in Rows /\ row.request = q /\ row.status = OutcomeOf(w)
  <2>1. ledgerRow[k] \in Rows /\ dbWorker[w].artifact \in {"none"} \cup Artifacts
    BY <1>0 DEF DatabaseInv, DatabaseTypeOK, Owned, Active, Row, NoRow, Rows
  <2> QED BY <1>0, <2>1 DEF Owned, Row, Rows
<1>2. ledgerRow' = [ledgerRow EXCEPT ![k] = row]
  BY DEF CompleteOperation
<1> HIDE DEF row
<1>3. ledgerRow'[k] = row /\ \A l \in JobKeys : l # k => ledgerRow'[l] = ledgerRow[l]
  BY <1>0, <1>2 DEF DatabaseInv, DatabaseTypeOK
<1>4. MovedAlone(w) /\ dbWorker'[w].at = "idle"
  BY RestOK DEF CompleteOperation
<1>5. DatabaseTypeOK'
  <2>1. ledgerRow' \in [JobKeys -> {NoRow} \cup Rows]
    BY <1>1, <1>2 DEF DatabaseInv, DatabaseTypeOK, Rows
  <2> QED BY <2>1, <1>0, <1>4 DEF DatabaseInv, DatabaseTypeOK, MovedAlone, WorkerStates, Rows
<1>6. RowsOK' /\ StartedOK' /\ StagingOK'
  <2>1. ledgerRow'[k].status # "absent" /\ ledgerRow'[k].request = q
    BY <1>0, <1>1, <1>3
  <2>2. RowsOK'
    BY <2>1, <1>0, <1>3 DEF DatabaseInv, RowsOK, JobKeys
  <2>3. StartedOK'
    BY <2>1, <1>0, <1>3 DEF DatabaseInv, DatabaseTypeOK, StartedOK
  <2>4. StagingOK'
    BY <1>0 DEF DatabaseInv, StagingOK, Jobs
  <2> QED BY <2>2, <2>3, <2>4
<1>7. ~Active(ledgerRow'[k])
  BY <1>0, <1>1, <1>3 DEF Active
<1>8. ScopeOK'
  BY <1>3, <1>7 DEF DatabaseInv, ScopeOK, Active, JobKeys
<1>9. /\ \A v \in Workers : v # w => dbWorker'[v] = dbWorker[v] /\ Req(v)' = Req(v)
      /\ ~Holding(w)'
  BY <1>4 DEF MovedAlone, Req, Holding
<1>10. ASSUME NEW v \in Workers, v # w, Holding(v) PROVE Owned(Req(v))' /\ Req(v).key # k
  <2>1. Req(v).key # k /\ Req(v).key \in JobKeys /\ Owned(Req(v))
    BY <1>0, <1>10, DatabaseTypesOf, RequestOK DEF DatabaseInv, SoleOK, HoldOK
  <2> QED BY <1>3, <1>9, <1>10, <2>1 DEF Owned, Row, Active
<1>11. ASSUME NEW r \in orphans PROVE Owned(r)' /\ r.key # k
  <2>1. r.key # k /\ r.key \in JobKeys /\ Owned(r)
    BY <1>0, <1>11, RequestOK DEF DatabaseInv, DatabaseTypeOK, SoleOK
  <2> QED BY <1>3, <2>1 DEF Owned, Row, Active
<1>12. SoleOK'
  <2>1. \A v \in Workers : Holding(v)' => v # w /\ Holding(v) /\ Req(v)' = Req(v)
    BY <1>9 DEF Holding
  <2> QED BY <2>1, <1>0, <1>11 DEF DatabaseInv, SoleOK
<1>13. ASSUME NEW v \in Workers PROVE HoldOK(v)' /\ DumpOK(v)' /\ RestoreOK(v)'
  <2>1. CASE v = w
    BY <2>1, <1>4, LetGo
  <2>2. CASE v # w
    <3>1. dbWorker'[v] = dbWorker[v] /\ Req(v)' = Req(v) /\ Target(v)' = Target(v)
      BY <2>2, <1>9 DEF Target
    <3>2. HoldOK(v)'
      BY <2>2, <3>1, <1>0, <1>10 DEF DatabaseInv, HoldOK, JobAt, Holding
    <3>3. InDump(v) => Undumped(Req(v).job)'
      <4> SUFFICES ASSUME InDump(v), OneSource(Req(v).job),
                          NEW l \in JobKeys, ledgerRow'[l].status = "succeeded",
                          ledgerRow'[l].request.kind = "dump",
                          ledgerRow'[l].request.job = Req(v).job
                   PROVE  FALSE
        BY <3>1 DEF Undumped, JobKeys, OneSource, Dumps
      <4>1. Holding(v) /\ Req(v) \in Requests /\ Req(v).kind = "dump"
        BY DatabaseTypesOf DEF InDump, DatabaseInv, HoldOK, DumpSteps, Holding, Completes, JobAt
      <4>2. ~(q.kind = "dump" /\ q.job = Req(v).job)
        BY <2>2, <4>1, <1>0, OneHolder, SameScope
      <4>3. l # k
        BY <4>2, <1>1, <1>3
      <4> QED BY <4>3, <1>3 DEF DatabaseInv, DumpOK, Undumped
    <3>4. InDatabase(v) => Unrestored(Target(v))'
      <4> SUFFICES ASSUME InDatabase(v),
                          NEW l \in JobKeys, ledgerRow'[l].status = "succeeded",
                          ledgerRow'[l].request.kind = "restore",
                          ledgerRow'[l].request.target = Target(v)
                   PROVE  FALSE
        BY <3>1 DEF Unrestored, JobKeys
      <4>1. Holding(v) /\ Req(v) \in Requests /\ Req(v).kind = "restore"
        BY DatabaseTypesOf
           DEF InDatabase, DatabaseInv, HoldOK, RestoreSteps, Holding, PassedIn, Completes, JobAt
      <4>2. ~(q.kind = "restore" /\ q.target = Target(v))
        BY <2>2, <4>1, <1>0, OneHolder, SameScope DEF Target
      <4>3. l # k
        BY <4>2, <1>1, <1>3
      <4> QED BY <4>3, <1>3 DEF DatabaseInv, RestoreOK, Unrestored
    <3>5. DumpOK(v)' /\ RestoreOK(v)'
      BY <3>1, <3>3, <3>4, <1>0, OthersKeep
    <3> QED BY <3>2, <3>5
  <2> QED BY <2>1, <2>2
<1>14. ASSUME NEW r \in orphans PROVE OrphanOK(r)'
  <2>1. r \in Requests /\ r.scope # q.scope /\ OrphanOK(r)
    BY <1>0, HolderOrOrphan DEF DatabaseInv, DatabaseTypeOK
  <2>2. ASSUME r.kind = "dump", OneSource(r.job) PROVE ~(q.kind = "dump" /\ q.job = r.job)
    BY <2>1, <2>2, <1>0, SameScope
  <2>3. r.kind = "restore" => ~(q.kind = "restore" /\ q.target = r.target)
    BY <2>1, <1>0, SameScope
  <2>4. r.kind = "dump" => Undumped(r.job)'
    BY <2>1, <2>2, <1>1, <1>3 DEF OrphanOK, Undumped, JobKeys, OneSource, Dumps
  <2>5. r.kind = "restore" => Unrestored(r.target)'
    BY <2>1, <2>3, <1>1, <1>3 DEF OrphanOK, Unrestored, JobKeys
  <2> QED BY <2>4, <2>5 DEF OrphanOK
<1>15. OutcomeIsTrue'
  <2> SUFFICES ASSUME NEW l \in JobKeys, ledgerRow'[l].status = "succeeded"
               PROVE  LET r == ledgerRow'[l].request
                      IN  IF r.kind = "restore" THEN restoreDb[r.target] = r.of
                          ELSE OneSource(r.job) => stagingJob[r.job].file = l
    BY <1>0 DEF OutcomeIsTrue, JobKeys, OneSource, Dumps
  <2>1. CASE l # k
    BY <2>1, <1>3 DEF DatabaseInv, OutcomeIsTrue
  <2>2. CASE l = k
    <3>0. OutcomeOf(w) = "succeeded" /\ ledgerRow'[l].request = q
      BY <2>2, <1>1, <1>3
    <3>1. dbWorker[w].passed /\ JobAt(w, "complete") /\ ledgerRow'[l].request = q
      BY <3>0 DEF OutcomeOf, CompleteOperation, DatabaseInv, HoldOK, JobAt
    <3>2. CASE q.kind = "restore"
      BY <2>2, <3>1, <3>2 DEF DatabaseInv, RestoreOK, PassedIn, Completes, Target
    <3>3. CASE q.kind # "restore"
      <4>1. PassedIn(w, "dump")
        BY <3>1, <3>3, <1>0, RequestOK DEF PassedIn, Completes
      <4> QED BY <2>2, <4>1, <3>1, <3>3 DEF DatabaseInv, DumpOK, OwnFile
    <3> QED BY <3>2, <3>3
  <2> QED BY <2>1, <2>2
<1>16. QED
  BY <1>0, <1>5, <1>6, <1>8, <1>12, <1>13, <1>14, <1>15 DEF DatabaseInv

\* The start-up of a worker takes nobody's scope away.
LEMMA MarkRestartRecoveryKeeps == ASSUME DatabaseInv, MarkRestartRecovery PROVE DatabaseInv'
<1>1. ledgerRow' \in [JobKeys -> {NoRow} \cup Rows]
  <2>1. ASSUME NEW k \in JobKeys, ledgerRow[k].status = "running"
        PROVE  [ledgerRow[k] EXCEPT !.status = "recovery_required"] \in Rows
    BY <2>1 DEF DatabaseInv, DatabaseTypeOK, NoRow, Rows
  <2>2. ASSUME NEW k \in JobKeys
        PROVE  (IF ledgerRow[k].status = "running"
                THEN [ledgerRow[k] EXCEPT !.status = "recovery_required"] ELSE ledgerRow[k]) \in
                 {NoRow} \cup Rows
    BY <2>1 DEF DatabaseInv, DatabaseTypeOK, Rows
  <2> QED BY <2>2 DEF MarkRestartRecovery
<1>2. ASSUME NEW k \in JobKeys
      PROVE  /\ Active(ledgerRow'[k]) <=> Active(ledgerRow[k])
             /\ ledgerRow'[k].status = "succeeded" <=> ledgerRow[k].status = "succeeded"
             /\ ledgerRow'[k].status = "absent" <=> ledgerRow[k].status = "absent"
             /\ ledgerRow'[k].request = ledgerRow[k].request
  <2>1. CASE ledgerRow[k].status = "running"
    <3>1. ledgerRow'[k] = [ledgerRow[k] EXCEPT !.status = "recovery_required"]
      BY <2>1 DEF MarkRestartRecovery
    <3>2. ledgerRow[k] \in Rows
      BY <2>1 DEF DatabaseInv, DatabaseTypeOK, NoRow, Rows
    <3>3. ledgerRow'[k].status = "recovery_required" /\ ledgerRow'[k].request = ledgerRow[k].request
      BY <3>1, <3>2 DEF Rows
    <3> QED BY <2>1, <3>3 DEF Active
  <2>2. CASE ledgerRow[k].status # "running"
    BY <2>2 DEF MarkRestartRecovery
  <2> QED BY <2>1, <2>2
<1>3. UNCHANGED <<stagingJob, restoreDb, registry, dbWorker, orphans, startedKeys, dbFaults>>
  BY DEF MarkRestartRecovery
<1>4. DatabaseTypeOK'
  BY <1>1, <1>3 DEF DatabaseInv, DatabaseTypeOK, Rows
<1>5. RowsOK' /\ ScopeOK' /\ StartedOK' /\ StagingOK'
  BY <1>2, <1>3
     DEF DatabaseInv, DatabaseTypeOK, RowsOK, ScopeOK, StartedOK, StagingOK, JobKeys, Jobs
<1>6. \A r : r.key \in JobKeys => (Owned(r)' <=> Owned(r))
  BY <1>2 DEF Owned, Row
<1>8. SoleOK'
  <2>1. \A v \in Workers : (Holding(v)' <=> Holding(v)) /\ Req(v)' = Req(v)
    BY <1>3 DEF Holding, Req
  <2>2. \A r \in orphans : r.key \in JobKeys
    BY RequestOK DEF DatabaseInv, DatabaseTypeOK
  <2> QED BY <1>3, <1>6, <2>1, <2>2 DEF DatabaseInv, SoleOK
<1>9. ASSUME NEW v \in Workers PROVE HoldOK(v)' /\ DumpOK(v)' /\ RestoreOK(v)'
  <2>1. /\ dbWorker'[v] = dbWorker[v] /\ Req(v)' = Req(v) /\ Target(v)' = Target(v)
        /\ Holding(v)' <=> Holding(v)
    BY <1>3 DEF Req, Target, Holding
  <2>2. Holding(v) => Owned(Req(v)) /\ Req(v).key \in JobKeys
    BY DatabaseTypesOf, RequestOK DEF DatabaseInv, HoldOK
  <2>3. Holding(v) => Owned(Req(v))'
    BY <1>2, <2>1, <2>2 DEF Owned, Row
  <2>4. HoldOK(v)'
    BY <1>3, <2>1, <2>3 DEF DatabaseInv, HoldOK, JobAt
  <2>5. /\ Undumped(Req(v).job)' <=> Undumped(Req(v).job)
        /\ Unrestored(Target(v))' <=> Unrestored(Target(v))
    BY <1>2, <2>1 DEF Undumped, Unrestored, JobKeys, OneSource, Dumps
  <2>6. DumpOK(v)' /\ RestoreOK(v)'
    BY <1>3, <2>1, <2>5, OthersKeep DEF DatabaseInv, DumpOK, RestoreOK
  <2> QED BY <2>4, <2>6
<1>10. ASSUME NEW r \in orphans PROVE OrphanOK(r)'
  <2>1. (Unrestored(r.target)' <=> Unrestored(r.target)) /\ (Undumped(r.job)' <=> Undumped(r.job))
    BY <1>2 DEF Unrestored, Undumped, JobKeys, OneSource, Dumps
  <2> QED BY <2>1 DEF DatabaseInv, OrphanOK
<1>11. OutcomeIsTrue'
  BY <1>2, <1>3 DEF DatabaseInv, OutcomeIsTrue, JobKeys, OneSource, Dumps
<1>12. QED BY <1>3, <1>4, <1>5, <1>8, <1>9, <1>10, <1>11 DEF DatabaseInv

LEMMA WorkersStutter ==
    ASSUME DatabaseInv, UNCHANGED <<ledgerRow, stagingJob, restoreDb, dbWorker, startedKeys>>,
           NEW v \in Workers
    PROVE  HoldOK(v)' /\ DumpOK(v)' /\ RestoreOK(v)'
<1>1. HoldOK(v)'
  BY DEF DatabaseInv, HoldOK, JobAt, Holding, Req, Owned, Row
<1>2. (Undumped(Req(v).job)' <=> Undumped(Req(v).job))
      /\ (Unrestored(Target(v))' <=> Unrestored(Target(v)))
  BY DEF Undumped, Unrestored, JobKeys, OneSource, Dumps, Req, Target
<1>3. QED BY <1>1, <1>2, OthersKeep DEF DatabaseInv, DumpOK, RestoreOK

LEMMA RegisterTargetKeeps ==
    ASSUME DatabaseInv, NEW t \in RestoreTargets, RegisterTarget(t) PROVE DatabaseInv'
<1>1. /\ UNCHANGED <<ledgerRow, stagingJob, restoreDb, dbWorker, orphans, startedKeys, dbFaults>>
      /\ registry' \in [RestoreTargets -> {"none", "active", "quarantined"}]
  BY DatabaseTypesOf DEF RegisterTarget
<1>2. DatabaseTypeOK'
  BY <1>1 DEF DatabaseInv, DatabaseTypeOK
<1>3. RowsOK' /\ ScopeOK' /\ SoleOK' /\ StartedOK' /\ StagingOK' /\ OutcomeIsTrue'
  BY <1>1
     DEF DatabaseInv, RowsOK, ScopeOK, SoleOK, StartedOK, StagingOK, OutcomeIsTrue, Owned,
         Row, Holding, Req, JobKeys, Jobs, OneSource, Dumps
<1>4. ASSUME NEW v \in Workers PROVE HoldOK(v)' /\ DumpOK(v)' /\ RestoreOK(v)'
  BY <1>1, WorkersStutter
<1>5. ASSUME NEW r \in orphans PROVE OrphanOK(r)'
  BY <1>1 DEF DatabaseInv, OrphanOK, Undumped, Unrestored, JobKeys, OneSource, Dumps
<1>6. QED BY <1>1, <1>2, <1>3, <1>4, <1>5 DEF DatabaseInv

\* The tool that runs on writes to nobody's job and to nobody's target.
LEMMA OrphanEndsKeeps ==
    ASSUME DatabaseInv, NEW r \in Requests, OrphanEnds(r) PROVE DatabaseInv'
<1>0. /\ r \in orphans /\ orphans' = orphans \ {r} /\ OrphanOK(r)
      /\ UNCHANGED <<ledgerRow, registry, dbWorker, startedKeys, dbFaults>>
      /\ r.key \in JobKeys /\ r.job \in Jobs
  BY RequestOK DEF OrphanEnds, DatabaseInv
<1>1. /\ stagingJob' \in [Jobs -> Staging] /\ StagingOK'
      /\ stagingJob' = stagingJob \/
           /\ r.kind = "dump" /\ Undumped(r.job)
           /\ \A j \in Jobs : j # r.job => stagingJob'[j] = stagingJob[j]
  <2>1. CASE UNCHANGED stagingJob
    BY <2>1, StagingStays
  <2>2. CASE ~UNCHANGED stagingJob
    <3>1. /\ r.kind = "dump" /\ stagingJob[r.job].file # "none"
          /\ \E c \in Left(r) : stagingJob' = [stagingJob EXCEPT ![r.job].file = c]
      BY <2>2 DEF OrphanEnds
    <3>2. PICK c \in Left(r) : stagingJob' = [stagingJob EXCEPT ![r.job].file = c]
      BY <3>1
    <3>3. stagingJob[r.job].dir /\ c \in Artifacts
      BY <3>1, LeftOK
    <3>4. Undumped(r.job)
      BY <1>0, <3>1 DEF OrphanOK
    <3> QED BY <1>0, <3>1, <3>2, <3>3, <3>4, WrittenOK
  <2> QED BY <2>1, <2>2
<1>2. /\ restoreDb' \in [RestoreTargets -> {"empty", "partial"} \cup JobKeys]
      /\ restoreDb' = restoreDb \/
           /\ r.kind = "restore" /\ Unrestored(r.target)
           /\ \A t \in RestoreTargets : t # r.target => restoreDb'[t] = restoreDb[t]
  <2>1. CASE UNCHANGED restoreDb
    BY <2>1, DatabaseTypesOf
  <2>2. CASE ~UNCHANGED restoreDb
    <3>1. r.kind = "restore" /\ restoreDb' = [restoreDb EXCEPT ![r.target] = r.of]
      BY <2>2 DEF OrphanEnds
    <3>2. r.target \in RestoreTargets /\ r.of \in JobKeys /\ Unrestored(r.target)
      BY <1>0, <3>1, RequestOK DEF OrphanOK
    <3> QED BY <3>1, <3>2, DatabaseBecomes
  <2> QED BY <2>1, <2>2
<1>3. DatabaseTypeOK'
  BY <1>0, <1>1, <1>2 DEF DatabaseInv, DatabaseTypeOK, Staging
<1>4. /\ RowsOK' /\ ScopeOK' /\ SoleOK' /\ StartedOK'
      /\ \A x : (Unrestored(x)' <=> Unrestored(x)) /\ (Undumped(x)' <=> Undumped(x))
  BY <1>0
     DEF DatabaseInv, RowsOK, ScopeOK, SoleOK, StartedOK, Owned, Row, Holding, Req,
         JobKeys, Unrestored, Undumped, OneSource, Dumps
<1>5. ASSUME NEW v \in Workers PROVE HoldOK(v)' /\ DumpOK(v)' /\ RestoreOK(v)'
  <2>1. /\ dbWorker'[v] = dbWorker[v] /\ Req(v)' = Req(v) /\ Target(v)' = Target(v)
        /\ Holding(v)' <=> Holding(v)
    BY <1>0 DEF Req, Target, Holding
  <2>2. HoldOK(v)'
    BY <1>0, <2>1 DEF DatabaseInv, HoldOK, JobAt, Owned, Row
  <2>3. Holding(v) => Req(v) \in Requests /\ Req(v).scope # r.scope
    BY <1>0, HolderOrOrphan, DatabaseTypesOf
  <2>4. ASSUME Holding(v), Req(v).kind = "dump", OneSource(Req(v).job)
        PROVE  stagingJob'[Req(v).job] = stagingJob[Req(v).job]
    BY <2>3, <2>4, <1>1, SameScope, RequestOK
  <2>5. Holding(v) /\ Req(v).kind = "restore" => restoreDb'[Target(v)] = restoreDb[Target(v)]
    BY <2>3, <1>2, SameScope, RequestOK DEF Target
  <2>6. /\ InDump(v) => Holding(v) /\ Req(v).kind = "dump"
        /\ JobAt(v, "restore") \/ InDatabase(v) => Holding(v) /\ Req(v).kind = "restore"
    BY DEF DatabaseInv, HoldOK, Holding, DumpSteps, RestoreSteps, InDump, InDatabase,
           PassedIn, Completes, JobAt
  <2>7. /\ (InDump(v)' <=> InDump(v)) /\ (InDatabase(v)' <=> InDatabase(v))
        /\ PassedIn(v, "restore")' <=> PassedIn(v, "restore")
        /\ JobAt(v, "restore")' <=> JobAt(v, "restore")
        /\ OneSource(Req(v).job)' <=> OneSource(Req(v).job)
    BY <1>0, <2>1 DEF InDump, InDatabase, PassedIn, Completes, JobAt, OneSource, Dumps
  <2>8. DumpOK(v)'
    <3>1. Undumped(Req(v).job)' <=> Undumped(Req(v).job)
      BY <1>0, <2>1 DEF Undumped, JobKeys, OneSource, Dumps
    <3>2. ASSUME OneSource(Req(v).job) PROVE OwnFile(v)'
      <4>1. OwnFile(v) /\ (InDump(v) => stagingJob'[Req(v).job] = stagingJob[Req(v).job])
        BY <3>2, <2>4, <2>6 DEF DatabaseInv, DumpOK
      <4> QED BY <2>1, <4>1 DEF OwnFile, InDump, PassedIn, Completes, JobAt
    <3> QED BY <2>1, <2>7, <3>1, <3>2 DEF DatabaseInv, DumpOK
  <2>9. RestoreOK(v)'
    <3>1. Unrestored(Target(v))' <=> Unrestored(Target(v))
      BY <1>0, <2>1 DEF Unrestored, JobKeys
    <3>2. PassedIn(v, "restore") => InDatabase(v)
      BY DEF InDatabase
    <3> QED BY <2>1, <2>5, <2>6, <2>7, <3>1, <3>2 DEF DatabaseInv, RestoreOK
  <2> QED BY <2>2, <2>8, <2>9
<1>6. ASSUME NEW q \in orphans' PROVE OrphanOK(q)'
  BY <1>0, <1>4, <1>6 DEF DatabaseInv, OrphanOK
<1>7. OutcomeIsTrue'
  <2> SUFFICES ASSUME NEW k \in JobKeys, ledgerRow[k].status = "succeeded"
               PROVE  LET q == ledgerRow[k].request
                      IN  IF q.kind = "restore" THEN restoreDb'[q.target] = q.of
                          ELSE OneSource(q.job) => stagingJob'[q.job].file = k
    BY <1>0 DEF OutcomeIsTrue, JobKeys, OneSource, Dumps
  <2> DEFINE q == ledgerRow[k].request
  <2>1. q \in Requests
    BY DEF DatabaseInv, RowsOK
  <2>2. CASE q.kind # "restore"
    <3> SUFFICES ASSUME OneSource(q.job) PROVE stagingJob'[q.job].file = k
      BY <2>2
    <3>1. q.kind = "dump" /\ q.job \in Jobs /\ stagingJob[q.job].file = k
      BY <2>1, <2>2, RequestOK DEF DatabaseInv, OutcomeIsTrue
    <3>2. stagingJob'[q.job] = stagingJob[q.job]
      BY <3>1, <1>1 DEF Undumped
    <3> QED BY <3>1, <3>2
  <2>3. CASE q.kind = "restore"
    <3>1. q.target \in RestoreTargets /\ restoreDb[q.target] = q.of
      BY <2>1, <2>3, RequestOK DEF DatabaseInv, OutcomeIsTrue
    <3>2. restoreDb'[q.target] = restoreDb[q.target]
      BY <2>3, <3>1, <1>2 DEF Unrestored
    <3> QED BY <2>3, <3>1, <3>2
  <2> QED BY <2>2, <2>3
<1>8. QED BY <1>1, <1>3, <1>4, <1>5, <1>6, <1>7 DEF DatabaseInv

LEMMA DatabaseStutters == ASSUME DatabaseInv, UNCHANGED databaseVars PROVE DatabaseInv'
<1>1. DatabaseTypeOK'
  BY DEF DatabaseInv, DatabaseTypeOK, databaseVars
<1>2. RowsOK' /\ ScopeOK' /\ SoleOK' /\ StartedOK' /\ StagingOK' /\ OutcomeIsTrue'
  BY DEF DatabaseInv, databaseVars, RowsOK, ScopeOK, SoleOK, StartedOK, StagingOK,
         OutcomeIsTrue, Owned, Row, Holding, Req, JobKeys, Jobs, OneSource, Dumps
<1>3. ASSUME NEW v \in Workers PROVE HoldOK(v)' /\ DumpOK(v)' /\ RestoreOK(v)'
  BY WorkersStutter DEF databaseVars
<1>4. \A r \in orphans' : OrphanOK(r)'
  BY DEF DatabaseInv, databaseVars, OrphanOK, Undumped, Unrestored, JobKeys, OneSource, Dumps
<1>5. QED BY <1>1, <1>2, <1>3, <1>4 DEF DatabaseInv

-----------------------------------------------------------------------------
(* The theorems *)

LEMMA DatabaseStarts == DatabaseInit => DatabaseInv
<1> SUFFICES ASSUME DatabaseInit PROVE DatabaseInv
  OBVIOUS
<1>1. \A k \in JobKeys : ledgerRow[k].status = "absent"
  BY DEF DatabaseInit, NoRow
<1>2. \A w \in Workers : dbWorker[w] = RestingWorker /\ dbWorker[w].at = "idle"
  BY DEF DatabaseInit, RestingWorker
<1>3. DatabaseTypeOK
  <2>1. RestingWorker \in WorkerStates /\ NoStaging \in Staging /\ 0 \in 0..MaxDbFaults
    BY MaxDbFaultsAssumption DEF RestingWorker, WorkerStates, DbSteps, NoStaging, Staging
  <2> QED BY <2>1 DEF DatabaseInit, DatabaseTypeOK, WorkerStates, Staging
<1>4. RowsOK /\ ScopeOK /\ SoleOK /\ StartedOK /\ StagingOK /\ OutcomeIsTrue
  <2>1. \A k \in JobKeys : ~Active(ledgerRow[k])
    BY <1>1 DEF Active
  <2> QED BY <1>1, <1>2, <2>1 DEF DatabaseInit, RowsOK, ScopeOK, SoleOK, StartedOK, StagingOK,
          NoStaging, OutcomeIsTrue, Holding
<1>5. ASSUME NEW w \in Workers PROVE HoldOK(w) /\ DumpOK(w) /\ RestoreOK(w)
  BY <1>2 DEF HoldOK, DumpOK, RestoreOK, OwnFile, InDump, InDatabase, PassedIn, Completes,
              JobAt, Holding, DumpSteps, RestoreSteps, Unstarted
<1>6. QED BY <1>3, <1>4, <1>5 DEF DatabaseInit, DatabaseInv

LEMMA DatabaseStepKeeps == DatabaseInv /\ [DatabaseNext]_databaseVars => DatabaseInv'
<1> SUFFICES ASSUME DatabaseInv, [DatabaseNext]_databaseVars PROVE DatabaseInv'
  OBVIOUS
<1>1. ASSUME NEW w \in Workers,
             \/ StageJob(w) \/ DumpNotStarted(w) \/ StartDump(w) \/ DumpEnds(w) \/ MeasureDump(w)
             \/ ResolveTarget(w) \/ PrecheckTarget(w) \/ RestoreNotStarted(w) \/ StartRestore(w)
             \/ RestoreEnds(w) \/ VerifyRestore(w) \/ CleanTarget(w) \/ CompletionFails(w)
      PROVE  DatabaseInv'
  <2>1. OwnStep(w)
    BY <1>1, StageJobOwn, DumpNotStartedOwn, StartDumpOwn, DumpEndsOwn, MeasureDumpOwn,
       ResolveTargetOwn, PrecheckTargetOwn, RestoreNotStartedOwn, StartRestoreOwn,
       RestoreEndsOwn, VerifyRestoreOwn, CleanTargetOwn, CompletionFailsOwn
  <2> QED BY <2>1, OwnStepKeeps
<1>2. ASSUME NEW w \in Workers,
             \/ \E r \in Requests : ReadLedger(w, r)
             \/ InsertClaim(w) \/ CompleteOperation(w) \/ DbWorkerDies(w)
      PROVE  DatabaseInv'
  BY <1>2, ReadLedgerKeeps, InsertClaimKeeps, CompleteOperationKeeps, DbWorkerDiesKeeps
<1>3. QED
  BY <1>1, <1>2, MarkRestartRecoveryKeeps, RegisterTargetKeeps, OrphanEndsKeeps,
     DatabaseStutters DEF DatabaseNext

\* The invariant of the ledger and of what the operations leave.
THEOREM DatabaseInvariant == DatabaseSpec => []DatabaseInv
<1>1. QED BY DatabaseStarts, DatabaseStepKeeps, PTL DEF DatabaseSpec

\* Every variable has its type.
THEOREM DatabaseTypeCorrect == DatabaseSpec => []DatabaseTypeOK
<1>1. DatabaseInv => DatabaseTypeOK
  BY DEF DatabaseInv
<1>2. QED BY <1>1, DatabaseInvariant, PTL

\* What the ledger of appcare/database/ledger.py records as succeeded is so:
\* a restored database holds exactly the artifact that the request names,
\* though other sources dump to that artifact's job, workers die, their tools
\* run on and every start-up marks the operations of others; and a job to
\* which one source dumps holds the artifact of the operation's own dump.
THEOREM OutcomesTrue == DatabaseSpec => []OutcomeIsTrue
<1>1. DatabaseInv => OutcomeIsTrue
  BY DEF DatabaseInv
<1>2. QED BY <1>1, DatabaseInvariant, PTL

\* A tool of LogicalDatabaseAdapter.restore starts on an empty database that
\* no other tool writes to, once for each request: the precheck's answer still
\* holds when the tool starts.
THEOREM RestoresStartAlone == DatabaseSpec => RestoreStartsAlone
<1>1. ASSUME DatabaseInv, NEW w \in Workers, JobAt(w, "restore")
      PROVE  /\ restoreDb[Target(w)] = "empty"
             /\ \A r \in Restoring : r.target # Target(w)
             /\ Req(w).key \notin startedKeys
  <2>1. /\ Holding(w) /\ Req(w) \in Requests /\ Req(w).kind = "restore"
        /\ restoreDb[Target(w)] = "empty" /\ Req(w).key \notin startedKeys
    BY <1>1, InRestore DEF JobAt, RestoreSteps, Unstarted
  <2>2. ASSUME NEW v \in Workers, JobAt(v, "restoring") PROVE Req(v).target # Target(w)
    <3>1. Holding(v) /\ Req(v) \in Requests /\ Req(v).kind = "restore" /\ v # w
      BY <1>1, <2>2, InRestore DEF JobAt, RestoreSteps
    <3>2. Req(v).scope # Req(w).scope
      BY <1>1, <2>1, <3>1, OneHolder
    <3> QED BY <2>1, <3>1, <3>2, SameScope DEF Target
  <2>3. ASSUME NEW r \in orphans, r.kind = "restore" PROVE r.target # Target(w)
    <3>1. r \in Requests /\ Req(w).scope # r.scope
      BY <1>1, <2>1, HolderOrOrphan DEF DatabaseInv, DatabaseTypeOK
    <3> QED BY <2>1, <2>3, <3>1, SameScope DEF Target
  <2> QED BY <2>1, <2>2, <2>3 DEF Restoring
<1>2. DatabaseInv /\ [DatabaseNext]_databaseVars =>
        [\A w \in Workers :
            JobAt(w, "restore") /\ dbWorker'[w].at = "restoring" =>
                /\ restoreDb[Target(w)] = "empty"
                /\ \A r \in Restoring : r.target # Target(w)
                /\ Req(w).key \notin startedKeys]_databaseVars
  BY <1>1
<1>3. QED BY <1>2, DatabaseInvariant, PTL DEF DatabaseSpec, RestoreStartsAlone
=============================================================================
