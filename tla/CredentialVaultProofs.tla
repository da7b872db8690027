------------------------- MODULE CredentialVaultProofs -------------------------
(***************************************************************************)
(* Theorems about CredentialVault, for any credentials, processes, tokens  *)
(* and number of faults.  The inductive invariant CustodyInv is of two     *)
(* parts.  DiskInv says what the files always are: above all, a journal's  *)
(* source is still active or revoked and its replacement absent or active, *)
(* so the rotation can be completed.  OpInv says what the operation under  *)
(* way may rely on because recovery came first: there is no journal but    *)
(* its own, and what its earlier steps left is still there.                *)
(***************************************************************************)
EXTENDS CredentialVault, TLAPS

CustodySteps == WriteSteps \cup {"recover", "return", "reserve", "done"}
OpShape == [by : Procs \cup {Nobody}, task : Tasks, step : CustodySteps,
            ref : Refs \cup {NoRef}, new : Refs \cup {NoRef}, token : Tokens \cup {NoRef},
            recovering : BOOLEAN]

Step(s) == custodyOp.step = s
Task(t) == custodyOp.task = t
RecoverySteps == {"recover", "replacement", "retire", "audit", "unjournal"}

\* The steps of a rotation, also of one that is being recovered.
InRotation ==
    \/ custodyOp.step \in {"replacement", "retire", "unjournal"}
    \/ Step("blob") /\ Task("rotate")
    \/ Step("audit") /\ (custodyOp.recovering \/ Task("rotate"))

\* Which operation takes which step.
StepOK ==
    /\ custodyOp.recovering => custodyOp.step \in RecoverySteps
    /\ Task("start") => Step("sweep")
    /\ Step("sweep") => custodyOp.task \in {"start", "materialize"}
    /\ custodyOp.step \in {"lease", "key"} => Task("materialize")
    /\ custodyOp.step \in {"reserve", "record"} => Task("store")
    /\ Step("blob") => custodyOp.task \in {"store", "rotate"}
    /\ Step("journal") => Task("rotate")
    /\ custodyOp.step \in {"replacement", "retire", "unjournal"} =>
          custodyOp.recovering \/ Task("rotate")
    /\ Step("revoke") => Task("revoke")
    /\ custodyOp.step \in {"destroy", "unblob", "unruntime"} => Task("offboard")
    /\ custodyOp.step \in {"unkey", "unlease"} => Task("release")
    /\ Step("audit") => custodyOp.recovering \/
                        custodyOp.task \in {"store", "revoke", "rotate", "offboard"}
    /\ ~Step("done")

\* The operation has its arguments.
ArgumentsOK ==
    /\ custodyOp.task \notin {"start", "release"} => custodyOp.ref \in Refs
    /\ Task("release") \/ Step("key") => custodyOp.token \in Tokens
    /\ Task("store") => replaces[custodyOp.ref] = NoRef

\* Whoever is past recovery has no journal but its own.
JournalHeld ==
    IF InRotation THEN custodyOp.new \in Refs /\ journals = {TheRotation}
    ELSE Step("recover") \/ Task("start") \/ journals = {}

Retired(r) == record[replaces[r]] = "revoked"
RotationHeld ==
    /\ Step("audit") /\ InRotation => Retired(custodyOp.new)
    /\ Step("unjournal") =>
          \/ record[custodyOp.new] = "absent"
          \/ /\ Retired(custodyOp.new)
             /\ [what |-> "rotated", ref |-> custodyOp.new] \in audit

\* The steps so far of a store, an offboarding and a materialize.
Offboards == Task("offboard") /\ ~custodyOp.recovering
ProgressHeld ==
    /\ Task("store") /\ custodyOp.step \in {"blob", "record"} => record[custodyOp.ref] = "absent"
    /\ Offboards /\ custodyOp.step \in {"unblob", "unruntime", "audit"} =>
          record[custodyOp.ref] = "destroyed"
    /\ Offboards /\ custodyOp.step \in {"unruntime", "audit"} => custodyOp.ref \notin blob
    /\ Offboards /\ Step("audit") => \A t \in Tokens : runtime[t].ref # custodyOp.ref
    /\ Step("key") => runtime[custodyOp.token].ref = custodyOp.ref /\
                      record[custodyOp.ref] = "active"

OpInv ==
    /\ custodyOp \in OpShape
    /\ custodyOp.by # Nobody =>
          StepOK /\ ArgumentsOK /\ JournalHeld /\ RotationHeld /\ ProgressHeld

\* A journal is of a rotation that was begun and can be completed.
JournalsOK ==
    /\ \A j \in journals :
          /\ j.old # j.new /\ replaces[j.new] = j.old
          /\ Completable(j)
    /\ \A i, j \in journals : i = j

\* The source of a rotation has a record.
SourcesOK == \A r \in Refs : replaces[r] # NoRef => record[replaces[r]] # "absent"

DiskInv ==
    /\ CustodyTypeOK
    /\ JournalsOK /\ SourcesOK
    /\ RotationSettles
    /\ OffboardedLeavesNothing

CustodyInv == DiskInv /\ OpInv

-----------------------------------------------------------------------------
(* Lemmas about the operation under way and about the files *)

Files == [ref : Refs \cup {NoRef}, owner : Procs \cup {Nobody}, lease : BOOLEAN, key : BOOLEAN]

LEMMA OpGoOK ==
    ASSUME OpInv, NEW s \in CustodySteps, OpGo(s)
    PROVE  /\ custodyOp' \in OpShape /\ custodyOp'.step = s
           /\ custodyOp'.by = custodyOp.by /\ custodyOp'.task = custodyOp.task
           /\ custodyOp'.ref = custodyOp.ref /\ custodyOp'.new = custodyOp.new
           /\ custodyOp'.token = custodyOp.token
           /\ custodyOp'.recovering = custodyOp.recovering
BY DEF OpInv, OpShape, OpGo

LEMMA NoOpOK ==
    /\ NoOp \in OpShape /\ NoOp.by = Nobody /\ NoOp.task = "get" /\ NoOp.step = "done"
    /\ NoOp.ref = NoRef /\ NoOp.new = NoRef /\ NoOp.token = NoRef /\ NoOp.recovering = FALSE
BY DEF NoOp, OpShape, CustodySteps, Tasks

LEMMA ReturnOK == ASSUME Return PROVE OpInv'
BY NoOpOK DEF Return, OpInv

\* What is under way is of an operation, and whose it is.
LEMMA UnderWay ==
    ASSUME OpInv, NEW s, OpAt(s)
    PROVE  /\ custodyOp \in OpShape /\ custodyOp.by # Nobody /\ custodyOp.step = s
           /\ StepOK /\ ArgumentsOK /\ JournalHeld /\ RotationHeld /\ ProgressHeld
BY DEF OpInv, OpAt

LEMMA TypesOf ==
    ASSUME DiskInv
    PROVE  /\ record \in [Refs -> CredentialStatuses] /\ blob \subseteq Refs
           /\ lapsed \subseteq Refs /\ journals \subseteq Rotation /\ {strays, torn} \subseteq BOOLEAN
           /\ runtime \in [Tokens -> Files] /\ audit \subseteq Events /\ up \subseteq Procs
           /\ faults \in 0..MaxFaults /\ replaces \in [Refs -> Refs \cup {NoRef}]
           /\ offboarded \subseteq Refs
BY DEF DiskInv, CustodyTypeOK, Files

\* A step that leaves records, journals and the audit file alone, and gives no
\* blob and no runtime file to a credential that was offboarded.
LEMMA FilesStay ==
    ASSUME DiskInv, UNCHANGED <<record, journals, audit, replaces, offboarded>>,
           custodyOp' \in OpShape, lapsed' \subseteq Refs, {strays', torn'} \subseteq BOOLEAN,
           up' \subseteq Procs, faults' \in 0..MaxFaults, runtime' \in [Tokens -> Files],
           \A r \in blob' : r \in blob \/ r \in Refs \ offboarded,
           \A t \in Tokens : runtime'[t].ref = runtime[t].ref \/ runtime'[t].ref \notin offboarded
    PROVE  DiskInv'
<1>1. CustodyTypeOK'
  BY TypesOf DEF CustodyTypeOK, Files, OpShape
<1>2. JournalsOK' /\ SourcesOK' /\ RotationSettles'
  BY DEF DiskInv, JournalsOK, Completable, SourcesOK, RotationSettles
<1>3. OffboardedLeavesNothing'
  BY DEF DiskInv, OffboardedLeavesNothing
<1>4. QED BY <1>1, <1>2, <1>3 DEF DiskInv

\* A record that is written: never absent again, never back in use, final once
\* it is destroyed, and of a rotation only while the journal is there.
LEMMA RecordKeeps ==
    ASSUME DiskInv, UNCHANGED <<journals, strays, audit, lapsed, up, replaces, offboarded>>,
           NEW r \in Refs, NEW s \in CredentialStatuses \ {"absent"},
           record' = [record EXCEPT ![r] = s],
           custodyOp' \in OpShape, torn' \in BOOLEAN, faults' \in 0..MaxFaults, blob' \subseteq blob,
           UNCHANGED runtime,
           record[r] \in {"revoked", "destroyed"} => s \in {"revoked", "destroyed"},
           record[r] = "destroyed" => s = "destroyed",
           \A j \in journals : (j.old = r => s \in {"active", "revoked"}) /\
                               (j.new = r => s = "active"),
           record[r] = "absent" /\ replaces[r] # NoRef =>
               [old |-> replaces[r], new |-> r] \in journals
    PROVE  DiskInv'
<1>0. /\ record' \in [Refs -> CredentialStatuses] /\ record'[r] = s
      /\ \A q \in Refs : q # r => record'[q] = record[q]
  BY TypesOf
<1>1. CustodyTypeOK'
  BY <1>0, TypesOf DEF CustodyTypeOK, Files, OpShape
<1>2. JournalsOK'
  BY <1>0, TypesOf DEF DiskInv, JournalsOK, Completable, Rotation
<1>3. SourcesOK'
  BY <1>0, TypesOf DEF DiskInv, SourcesOK
<1>4. RotationSettles'
  <2> SUFFICES ASSUME NEW q \in Refs, replaces[q] # NoRef, record'[q] # "absent"
               PROVE  \/ [old |-> replaces[q], new |-> q] \in journals
                      \/ /\ record'[replaces[q]] \in {"revoked", "destroyed"}
                         /\ [what |-> "rotated", ref |-> q] \in audit
    BY DEF RotationSettles
  <2>1. CASE record[q] = "absent"
    BY <2>1, <1>0
  <2>2. CASE record[q] # "absent"
    BY <2>2, <1>0, TypesOf DEF DiskInv, RotationSettles
  <2> QED BY <2>1, <2>2
<1>5. OffboardedLeavesNothing'
  BY <1>0, TypesOf DEF DiskInv, OffboardedLeavesNothing
<1>6. QED BY <1>1, <1>2, <1>3, <1>4, <1>5 DEF DiskInv

\* A step that changes no file at all.
LEMMA DiskStays ==
    ASSUME DiskInv, UNCHANGED <<disk, past, lapsed, faults>>, custodyOp' \in OpShape,
           up' \subseteq Procs
    PROVE  DiskInv'
BY TypesOf, FilesStay DEF disk, past, rotations, auditFile

LEMMA RaiseKeeps == ASSUME CustodyInv, Raise PROVE CustodyInv'
BY NoOpOK, ReturnOK, DiskStays, TypesOf DEF Raise, Return, CustodyInv, world

\* An operation that is under way goes on undisturbed.
LEMMA OpStays ==
    ASSUME OpInv, UNCHANGED <<record, blob, journals, audit, replaces, custodyOp>>,
           \/ \A t \in Tokens : runtime'[t].ref = runtime[t].ref
           \/ custodyOp.step \notin {"audit", "key"}
    PROVE  OpInv'
<1> SUFFICES ASSUME custodyOp.by # Nobody
             PROVE  StepOK' /\ ArgumentsOK' /\ JournalHeld' /\ RotationHeld' /\ ProgressHeld'
  BY DEF OpInv
<1>1. StepOK' /\ ArgumentsOK'
  BY DEF OpInv, StepOK, ArgumentsOK, Step, Task
<1>2. JournalHeld' /\ RotationHeld'
  BY DEF OpInv, JournalHeld, RotationHeld, InRotation, TheRotation, Retired, Step, Task
<1>3. ProgressHeld'
  BY DEF OpInv, ProgressHeld, ArgumentsOK, Offboards, Step, Task
<1>4. QED BY <1>1, <1>2, <1>3

-----------------------------------------------------------------------------
(* Taking the lock and recovering *)

Begun(p, t, s, r, k) == [by |-> p, task |-> t, step |-> s, ref |-> r, new |-> NoRef,
                         token |-> k, recovering |-> FALSE]

LEMMA BeginKeeps ==
    ASSUME CustodyInv, NEW p \in Procs, NEW t \in Tasks, NEW r \in Refs \cup {NoRef},
           NEW k \in Tokens \cup {NoRef}, NEW s \in {"sweep", "recover"},
           custodyOp' = Begun(p, t, s, r, k),
           UNCHANGED <<disk, world, past>>,
           s = "sweep" <=> t = "start",
           t \notin {"start", "release"} => r \in Refs,
           t = "release" => k \in Tokens,
           t = "store" => replaces[r] = NoRef
    PROVE  CustodyInv'
<1>1. /\ custodyOp' \in OpShape /\ custodyOp'.by = p /\ custodyOp'.task = t
      /\ custodyOp'.step = s /\ custodyOp'.ref = r /\ custodyOp'.token = k
      /\ custodyOp'.recovering = FALSE
  BY DEF Begun, OpShape, CustodySteps, WriteSteps
<1>2. DiskInv'
  BY <1>1, DiskStays, TypesOf DEF CustodyInv, world
<1>3. StepOK' /\ ArgumentsOK'
  BY <1>1 DEF StepOK, ArgumentsOK, Step, Task, past
<1>4. JournalHeld' /\ RotationHeld' /\ ProgressHeld'
  BY <1>1 DEF JournalHeld, RotationHeld, ProgressHeld, InRotation, Offboards, Step, Task
<1>5. QED BY <1>1, <1>2, <1>3, <1>4 DEF CustodyInv, OpInv

LEMMA StartVaultKeeps == ASSUME CustodyInv, NEW p \in Procs, StartVault(p) PROVE CustodyInv'
<1>1. custodyOp' = Begun(p, "start", "sweep", NoRef, NoRef)
  BY DEF StartVault, NoOp, Begun
<1>2. QED BY <1>1, BeginKeeps DEF StartVault, Tasks

LEMMA BeginOperationKeeps ==
    ASSUME CustodyInv, NEW p \in Procs, NEW r \in Refs, NEW t \in Tasks \ {"start", "release"},
           BeginOperation(p, t, r)
    PROVE  CustodyInv'
<1>1. custodyOp' = Begun(p, t, "recover", r, NoRef)
  BY DEF BeginOperation, NoOp, Begun
<1>2. QED BY <1>1, BeginKeeps DEF BeginOperation

LEMMA BeginReleaseKeeps ==
    ASSUME CustodyInv, NEW p \in Procs, NEW t \in Tokens, BeginRelease(p, t)
    PROVE  CustodyInv'
<1>1. custodyOp' = Begun(p, "release", "recover", NoRef, t)
  BY DEF BeginRelease, NoOp, Begun
<1>2. QED BY <1>1, BeginKeeps DEF BeginRelease, Tasks

LEMMA RecoveredKeeps == ASSUME CustodyInv, Recovered PROVE CustodyInv'
<1> DEFINE s == FirstStep[custodyOp.task]
<1>0. /\ custodyOp \in OpShape /\ custodyOp.by # Nobody /\ custodyOp.step = "recover"
      /\ StepOK /\ ArgumentsOK /\ journals = {}
  BY UnderWay DEF CustodyInv, Recovered
<1>1. custodyOp.task \in Tasks \ {"start"}
  BY <1>0 DEF OpShape, StepOK, Task, Step
<1>2. /\ s \in CustodySteps
      /\ custodyOp.task = "get" => s = "return"
      /\ custodyOp.task = "store" => s = "reserve"
      /\ custodyOp.task = "materialize" => s = "sweep"
      /\ custodyOp.task = "release" => s = "unkey"
      /\ custodyOp.task = "revoke" => s = "revoke"
      /\ custodyOp.task = "rotate" => s = "journal"
      /\ custodyOp.task = "offboard" => s = "destroy"
  BY <1>1 DEF Tasks, FirstStep, CustodySteps, WriteSteps
<1> HIDE DEF s
<1>3. /\ custodyOp' \in OpShape /\ custodyOp'.step = s /\ custodyOp'.recovering = FALSE
      /\ custodyOp'.by = custodyOp.by /\ custodyOp'.task = custodyOp.task
      /\ custodyOp'.ref = custodyOp.ref /\ custodyOp'.token = custodyOp.token
  BY <1>0, <1>2 DEF Recovered, OpShape, s
<1>4. DiskInv'
  BY <1>3, DiskStays, TypesOf DEF CustodyInv, Recovered, world
<1>5. StepOK'
  BY <1>1, <1>2, <1>3 DEF StepOK, Step, Task, Tasks
<1>6. ArgumentsOK'
  BY <1>0, <1>1, <1>2, <1>3 DEF ArgumentsOK, Step, Task, Tasks, Recovered, past
<1>7. JournalHeld' /\ RotationHeld' /\ ProgressHeld'
  BY <1>0, <1>1, <1>2, <1>3
     DEF JournalHeld, RotationHeld, ProgressHeld, InRotation, Offboards, Step, Task, Tasks,
         Recovered, disk, rotations
<1>8. QED BY <1>3, <1>4, <1>5, <1>6, <1>7 DEF CustodyInv, OpInv

LEMMA RecoverRotationKeeps ==
    ASSUME CustodyInv, NEW j \in journals, RecoverRotation(j) PROVE CustodyInv'
<1>0. /\ custodyOp \in OpShape /\ custodyOp.by # Nobody /\ custodyOp.step = "recover"
      /\ StepOK /\ ArgumentsOK
  BY UnderWay DEF CustodyInv, RecoverRotation
<1>1. /\ j.old \in Refs /\ j.new \in Refs /\ j = [old |-> j.old, new |-> j.new]
      /\ journals = {j} /\ replaces[j.new] = j.old
  BY TypesOf DEF CustodyInv, DiskInv, JournalsOK, Rotation
<1>2. PICK s \in {"unjournal", "replacement"} :
          /\ custodyOp' = [custodyOp EXCEPT !.step = s, !.new = j.new, !.recovering = TRUE]
          /\ s = "unjournal" => record[j.new] = "absent"
  BY DEF RecoverRotation
<1>3. /\ custodyOp' \in OpShape /\ custodyOp'.step = s /\ custodyOp'.recovering = TRUE
      /\ custodyOp'.by = custodyOp.by /\ custodyOp'.task = custodyOp.task
      /\ custodyOp'.ref = custodyOp.ref /\ custodyOp'.token = custodyOp.token
      /\ custodyOp'.new = j.new
  BY <1>0, <1>1, <1>2 DEF OpShape, CustodySteps, WriteSteps
<1>4. DiskInv' /\ UNCHANGED <<record, journals, replaces>>
  BY <1>3, DiskStays, TypesOf DEF CustodyInv, RecoverRotation, world, disk, rotations, past
<1>5. StepOK' /\ ArgumentsOK'
  BY <1>0, <1>2, <1>3, <1>4 DEF StepOK, ArgumentsOK, Step, Task, RecoverySteps
<1>6. JournalHeld' /\ RotationHeld' /\ ProgressHeld'
  BY <1>1, <1>2, <1>3, <1>4
     DEF JournalHeld, RotationHeld, ProgressHeld, InRotation, TheRotation, Offboards, Step,
         Task
<1>7. QED BY <1>3, <1>4, <1>5, <1>6 DEF CustodyInv, OpInv

-----------------------------------------------------------------------------
(* A rotation *)

LEMMA WriteJournalKeeps ==
    ASSUME CustodyInv, NEW n \in Refs, WriteJournal(n) PROVE CustodyInv'
<1> DEFINE q == custodyOp.ref
           j == [old |-> q, new |-> n]
<1>0. /\ custodyOp \in OpShape /\ custodyOp.by # Nobody /\ custodyOp.step = "journal"
      /\ custodyOp.task = "rotate" /\ custodyOp.recovering = FALSE /\ q \in Refs
      /\ journals = {}
  BY UnderWay
     DEF CustodyInv, WriteJournal, StepOK, ArgumentsOK, JournalHeld, InRotation, Step, Task,
         RecoverySteps, OpShape
<1>1. /\ record[q] = "active" /\ record[n] = "absent" /\ n # q /\ replaces[n] = NoRef
      /\ journals' = {j} /\ replaces' = [replaces EXCEPT ![n] = q]
      /\ UNCHANGED <<record, blob, strays, runtime, audit, torn, lapsed, up, faults, offboarded>>
  BY <1>0 DEF WriteJournal, StatusOf, auditFile, world
<1>2. /\ replaces' \in [Refs -> Refs \cup {NoRef}] /\ replaces'[n] = q
      /\ \A r \in Refs : r # n => replaces'[r] = replaces[r]
  BY <1>0, <1>1, TypesOf DEF CustodyInv
<1>3. /\ custodyOp' \in OpShape /\ custodyOp'.step = "blob" /\ custodyOp'.recovering = FALSE
      /\ custodyOp'.by = custodyOp.by /\ custodyOp'.task = "rotate"
      /\ custodyOp'.ref = q /\ custodyOp'.token = custodyOp.token /\ custodyOp'.new = n
  BY <1>0 DEF WriteJournal, OpShape, CustodySteps, WriteSteps
<1>4. CustodyTypeOK'
  BY <1>0, <1>1, <1>2, <1>3, TypesOf DEF CustodyInv, CustodyTypeOK, Files, OpShape, Rotation
<1>5. JournalsOK' /\ SourcesOK'
  BY <1>0, <1>1, <1>2 DEF CustodyInv, DiskInv, JournalsOK, Completable, SourcesOK
<1>6. RotationSettles'
  BY <1>0, <1>1, <1>2 DEF CustodyInv, DiskInv, RotationSettles
<1>7. OffboardedLeavesNothing'
  BY <1>1 DEF CustodyInv, DiskInv, OffboardedLeavesNothing
<1>8. StepOK' /\ ArgumentsOK'
  BY <1>0, <1>3 DEF StepOK, ArgumentsOK, Step, Task
<1>9. JournalHeld' /\ RotationHeld' /\ ProgressHeld'
  BY <1>1, <1>2, <1>3
     DEF JournalHeld, RotationHeld, ProgressHeld, InRotation, TheRotation, Offboards, Step,
         Task
<1>10. QED BY <1>3, <1>4, <1>5, <1>6, <1>7, <1>8, <1>9 DEF CustodyInv, DiskInv, OpInv

\* What a rotation under way, or one that is recovered, has in hand.
LEMMA Rotating ==
    ASSUME CustodyInv, custodyOp.by # Nobody, InRotation
    PROVE  /\ custodyOp \in OpShape /\ custodyOp.new \in Refs /\ replaces[custodyOp.new] \in Refs
           /\ journals = {TheRotation} /\ TheRotation.new = custodyOp.new
           /\ TheRotation.old = replaces[custodyOp.new]
           /\ replaces[custodyOp.new] # custodyOp.new
           /\ record[custodyOp.new] \in {"absent", "active"}
           /\ record[replaces[custodyOp.new]] \in {"active", "revoked"}
           /\ StepOK /\ ArgumentsOK /\ custodyOp.new \notin offboarded
           /\ custodyOp.recovering \/ Task("rotate")
<1>1. /\ custodyOp \in OpShape /\ custodyOp.new \in Refs /\ journals = {TheRotation}
      /\ StepOK /\ ArgumentsOK /\ TheRotation \in journals
  BY DEF CustodyInv, OpInv, JournalHeld
<1>2. TheRotation \in Rotation /\ Completable(TheRotation) /\ TheRotation.old # TheRotation.new
  BY <1>1, TypesOf DEF CustodyInv, DiskInv, JournalsOK
<1>3. TheRotation.old = replaces[custodyOp.new] /\ TheRotation.new = custodyOp.new
  BY DEF TheRotation
<1>4. record[custodyOp.new] \in {"absent", "active"}
  BY <1>2, <1>3 DEF Completable
<1>5. custodyOp.new \notin offboarded
  BY <1>4 DEF CustodyInv, DiskInv, OffboardedLeavesNothing
<1>6. custodyOp.recovering \/ Task("rotate")
  BY <1>1 DEF InRotation, StepOK, RecoverySteps, Step, Task
<1>7. QED BY <1>1, <1>2, <1>3, <1>4, <1>5, <1>6 DEF Rotation, Completable

\* A rotation that goes on still holds its journal.
LEMMA RotationGoesOn ==
    ASSUME CustodyInv, custodyOp.by # Nobody, InRotation,
           NEW s \in {"replacement", "retire", "audit", "unjournal"}, OpGo(s),
           UNCHANGED <<journals, replaces>>
    PROVE  /\ custodyOp' \in OpShape /\ custodyOp'.step = s /\ custodyOp'.new = custodyOp.new
           /\ custodyOp'.recovering = custodyOp.recovering /\ custodyOp'.task = custodyOp.task
           /\ StepOK' /\ ArgumentsOK' /\ JournalHeld' /\ InRotation'
           /\ ProgressHeld'
<1>1. /\ custodyOp' \in OpShape /\ custodyOp'.step = s
      /\ custodyOp'.by = custodyOp.by /\ custodyOp'.task = custodyOp.task
      /\ custodyOp'.ref = custodyOp.ref /\ custodyOp'.new = custodyOp.new
      /\ custodyOp'.token = custodyOp.token
      /\ custodyOp'.recovering = custodyOp.recovering
  BY OpGoOK DEF CustodyInv, CustodySteps, WriteSteps
<1>2. /\ StepOK /\ ArgumentsOK /\ custodyOp.new \in Refs /\ journals = {TheRotation}
      /\ custodyOp.recovering \/ Task("rotate")
  BY Rotating
<1>3. custodyOp.task # "start"
  BY <1>2 DEF StepOK, RecoverySteps, InRotation, Step, Task
<1>4. StepOK'
  BY <1>1, <1>2, <1>3 DEF StepOK, RecoverySteps, Step, Task
<1>5. ArgumentsOK'
  BY <1>1, <1>2 DEF ArgumentsOK, Step, Task
<1>6. InRotation' /\ JournalHeld'
  BY <1>1, <1>2 DEF InRotation, JournalHeld, TheRotation, Step, Task
<1>7. ProgressHeld'
  BY <1>1, <1>2 DEF ProgressHeld, Offboards, Step, Task
<1>8. QED BY <1>1, <1>4, <1>5, <1>6, <1>7

LEMMA WriteReplacementBlobKeeps == ASSUME CustodyInv, WriteReplacementBlob PROVE CustodyInv'
<1>1. custodyOp.by # Nobody /\ InRotation /\ UNCHANGED <<record, journals, replaces, audit>>
  BY DEF WriteReplacementBlob, OpAt, InRotation, Step, Task, rotations, past, auditFile
<1>2. /\ custodyOp' \in OpShape /\ custodyOp'.step = "replacement"
      /\ StepOK' /\ ArgumentsOK' /\ JournalHeld' /\ ProgressHeld'
  BY <1>1, RotationGoesOn DEF WriteReplacementBlob
<1>3. DiskInv'
  BY <1>1, <1>2, Rotating, FilesStay, TypesOf
     DEF CustodyInv, WriteReplacementBlob, rotations, past, auditFile, world
<1>4. RotationHeld'
  BY <1>2 DEF RotationHeld, Step
<1>5. QED BY <1>2, <1>3, <1>4 DEF CustodyInv, OpInv

LEMMA WriteReplacementKeeps == ASSUME CustodyInv, WriteReplacement PROVE CustodyInv'
<1>1. /\ custodyOp.by # Nobody /\ InRotation /\ UNCHANGED <<journals, replaces>>
      /\ UNCHANGED <<blob, strays, runtime, audit, torn, lapsed, up, faults, offboarded>>
  BY DEF WriteReplacement, OpAt, InRotation, Step, rotations, past, auditFile, world
<1>2. /\ custodyOp' \in OpShape /\ custodyOp'.step = "retire"
      /\ StepOK' /\ ArgumentsOK' /\ JournalHeld' /\ ProgressHeld'
  BY <1>1, RotationGoesOn DEF WriteReplacement
<1>3. DiskInv'
  <2> DEFINE r == custodyOp.new
  <2>1. /\ r \in Refs /\ record[r] \in {"absent", "active"} /\ replaces[r] # r
        /\ journals = {[old |-> replaces[r], new |-> r]}
    BY <1>1, Rotating DEF TheRotation
  <2>2. record' = [record EXCEPT ![r] = "active"]
    BY DEF WriteReplacement
  <2> HIDE DEF r
  <2>3. \A j \in journals : j.old # r
    BY <2>1
  <2>4. torn' \in BOOLEAN /\ faults' \in 0..MaxFaults
    BY <1>1, TypesOf DEF CustodyInv
  <2> QED BY <1>1, <1>2, <2>1, <2>2, <2>3, <2>4, RecordKeeps DEF CustodyInv, CredentialStatuses
<1>4. RotationHeld'
  BY <1>2 DEF RotationHeld, Step
<1>5. QED BY <1>2, <1>3, <1>4 DEF CustodyInv, OpInv

LEMMA RetireSourceKeeps == ASSUME CustodyInv, RetireSource PROVE CustodyInv'
<1>1. /\ custodyOp.by # Nobody /\ InRotation /\ UNCHANGED <<journals, replaces>>
      /\ UNCHANGED <<blob, strays, runtime, audit, torn, lapsed, up, faults, offboarded>>
  BY DEF RetireSource, OpAt, InRotation, Step, rotations, past, auditFile, world
<1>2. /\ custodyOp' \in OpShape /\ custodyOp'.step = "audit" /\ custodyOp'.new = custodyOp.new
      /\ StepOK' /\ ArgumentsOK' /\ JournalHeld' /\ ProgressHeld'
  BY <1>1, RotationGoesOn DEF RetireSource
<1>3. PICK r : r = replaces[custodyOp.new]
  OBVIOUS
<1>4. /\ r \in Refs /\ record[r] \in {"active", "revoked"} /\ r # custodyOp.new
      /\ journals = {[old |-> r, new |-> custodyOp.new]}
      /\ record' = [record EXCEPT ![r] = "revoked"]
  BY <1>1, <1>3, Rotating DEF TheRotation, RetireSource
<1>5. DiskInv'
  <2>1. \A j \in journals : j.new # r
    BY <1>4
  <2>2. torn' \in BOOLEAN /\ faults' \in 0..MaxFaults
    BY <1>1, TypesOf DEF CustodyInv
  <2> QED BY <1>1, <1>2, <1>4, <2>1, <2>2, RecordKeeps DEF CustodyInv, CredentialStatuses
<1>6. record'[r] = "revoked"
  BY <1>4, TypesOf DEF CustodyInv
<1>7. RotationHeld'
  BY <1>1, <1>2, <1>3, <1>6 DEF RotationHeld, Retired, Step
<1>8. QED BY <1>2, <1>5, <1>7 DEF CustodyInv, OpInv

LEMMA RemoveJournalKeeps == ASSUME CustodyInv, RemoveJournal PROVE CustodyInv'
<1>1. /\ custodyOp.by # Nobody /\ InRotation /\ custodyOp.step = "unjournal"
      /\ UNCHANGED <<record, blob, strays, runtime, audit, torn, lapsed, up, faults, replaces,
                     offboarded>>
  BY DEF RemoveJournal, OpAt, InRotation, Step, rotations, past, auditFile, world
<1>2. /\ custodyOp \in OpShape /\ StepOK /\ ArgumentsOK /\ custodyOp.new \in Refs
      /\ journals' = {} /\ TheRotation = [old |-> replaces[custodyOp.new], new |-> custodyOp.new]
  BY <1>1, Rotating DEF RemoveJournal, TheRotation
<1>3. CustodyTypeOK' /\ JournalsOK' /\ SourcesOK' /\ OffboardedLeavesNothing'
  <2>1. custodyOp' \in OpShape
    BY <1>2, OpGoOK, NoOpOK DEF RemoveJournal, Return, CustodyInv, CustodySteps
  <2>2. CustodyTypeOK'
    BY <1>1, <1>2, <2>1, TypesOf DEF CustodyInv, CustodyTypeOK, Files, OpShape
  <2> QED BY <1>1, <1>2, <2>2 DEF CustodyInv, DiskInv, JournalsOK, SourcesOK,
                                  OffboardedLeavesNothing
<1>4. RotationSettles'
  <2> SUFFICES ASSUME NEW r \in Refs, replaces[r] # NoRef, record[r] # "absent"
               PROVE  /\ record[replaces[r]] \in {"revoked", "destroyed"}
                      /\ [what |-> "rotated", ref |-> r] \in audit
    BY <1>1 DEF RotationSettles
  <2>1. CASE r = custodyOp.new
    BY <2>1, <1>1 DEF CustodyInv, OpInv, RotationHeld, Retired, Step
  <2>2. CASE r # custodyOp.new
    <3>1. [old |-> replaces[r], new |-> r] \notin journals
      BY <2>2, <1>1, <1>2, Rotating
    <3> QED BY <3>1 DEF CustodyInv, DiskInv, RotationSettles
  <2> QED BY <2>1, <2>2
<1>5. OpInv'
  <2>1. CASE ~custodyOp.recovering
    BY <2>1, ReturnOK DEF RemoveJournal
  <2>2. CASE custodyOp.recovering
    <3>1. /\ custodyOp' \in OpShape /\ custodyOp'.step = "recover"
          /\ custodyOp'.by = custodyOp.by /\ custodyOp'.task = custodyOp.task
          /\ custodyOp'.ref = custodyOp.ref /\ custodyOp'.token = custodyOp.token
          /\ custodyOp'.recovering = custodyOp.recovering
      BY <2>2, OpGoOK DEF RemoveJournal, CustodyInv, CustodySteps
    <3>2. StepOK' /\ ArgumentsOK'
      BY <1>1, <1>2, <3>1 DEF StepOK, ArgumentsOK, RecoverySteps, Step, Task
    <3>3. JournalHeld' /\ RotationHeld' /\ ProgressHeld'
      BY <1>2, <3>1
         DEF JournalHeld, RotationHeld, ProgressHeld, InRotation, Offboards, Step, Task
    <3> QED BY <3>1, <3>2, <3>3 DEF OpInv
  <2> QED BY <2>1, <2>2
<1>6. QED BY <1>3, <1>4, <1>5 DEF CustodyInv, DiskInv

LEMMA AppendAuditKeeps == ASSUME CustodyInv, AppendAudit PROVE CustodyInv'
<1>0. /\ custodyOp \in OpShape /\ custodyOp.by # Nobody /\ custodyOp.step = "audit"
      /\ StepOK /\ ArgumentsOK /\ JournalHeld /\ RotationHeld /\ ProgressHeld
  BY UnderWay DEF CustodyInv, AppendAudit
<1>1. UNCHANGED <<record, blob, journals, strays, runtime, torn, lapsed, up, faults, replaces>>
  BY DEF AppendAudit, rotations, world
<1>2. CASE custodyOp.recovering \/ custodyOp.task = "rotate"
  <2> DEFINE e == [what |-> "rotated", ref |-> custodyOp.new]
  <2>0. InRotation /\ TheEvent = e /\ custodyOp.new \in Refs
    BY <1>0, <1>2, Rotating DEF InRotation, Step, Task, TheEvent
  <2>1. /\ OpGo("unjournal") /\ offboarded' = offboarded /\ e \in audit'
        /\ audit' \in {audit, audit \cup {e}}
    BY <2>0 DEF AppendAudit, LooksFirst
  <2>2. /\ custodyOp' \in OpShape /\ custodyOp'.step = "unjournal"
        /\ custodyOp'.new = custodyOp.new
        /\ StepOK' /\ ArgumentsOK' /\ JournalHeld' /\ ProgressHeld'
    BY <1>0, <1>1, <2>0, <2>1, RotationGoesOn
  <2>3. CustodyTypeOK'
    BY <1>1, <2>0, <2>1, <2>2, TypesOf DEF CustodyInv, CustodyTypeOK, Files, OpShape, Events
  <2>4. JournalsOK' /\ SourcesOK' /\ RotationSettles' /\ OffboardedLeavesNothing'
    BY <1>1, <2>1
       DEF CustodyInv, DiskInv, JournalsOK, Completable, SourcesOK, RotationSettles,
           OffboardedLeavesNothing
  <2>5. RotationHeld'
    BY <1>0, <1>1, <2>0, <2>1, <2>2 DEF RotationHeld, Retired, Step
  <2> QED BY <2>2, <2>3, <2>4, <2>5 DEF CustodyInv, DiskInv, OpInv
<1>3. CASE ~(custodyOp.recovering \/ custodyOp.task = "rotate")
  <2> DEFINE e == [what |-> "offboarded", ref |-> custodyOp.ref]
  <2>0. custodyOp.task \in {"store", "revoke", "offboard"} /\ custodyOp.ref \in Refs
    BY <1>0, <1>3 DEF StepOK, ArgumentsOK, Step, Task
  <2>1. TheEvent.what # "rotated"
    BY <1>3, <2>0 DEF TheEvent
  <2>2. Return
    BY <2>1 DEF AppendAudit
  <2>3. custodyOp' \in OpShape /\ OpInv'
    BY <2>2, NoOpOK, ReturnOK DEF Return
  <2>4. CASE custodyOp.task = "offboard"
    <3>1. TheEvent = e
      BY <1>3, <2>4 DEF TheEvent
    <3>2. /\ offboarded' = offboarded \cup {custodyOp.ref} /\ e \in audit'
          /\ audit' \in {audit, audit \cup {e}}
      BY <3>1 DEF AppendAudit, LooksFirst
    <3>3. /\ record[custodyOp.ref] = "destroyed" /\ custodyOp.ref \notin blob
          /\ \A t \in Tokens : runtime[t].ref # custodyOp.ref
      BY <1>0, <1>3, <2>4 DEF ProgressHeld, Offboards, Step, Task
    <3>4. CustodyTypeOK'
      BY <1>1, <2>0, <2>3, <3>2, TypesOf
         DEF CustodyInv, CustodyTypeOK, Files, OpShape, Events
    <3>5. JournalsOK' /\ SourcesOK' /\ RotationSettles'
      BY <1>1, <3>2
         DEF CustodyInv, DiskInv, JournalsOK, Completable, SourcesOK, RotationSettles
    <3>6. OffboardedLeavesNothing'
      BY <1>1, <3>2, <3>3 DEF CustodyInv, DiskInv, OffboardedLeavesNothing
    <3> QED BY <2>3, <3>4, <3>5, <3>6 DEF CustodyInv, DiskInv
  <2>5. CASE custodyOp.task # "offboard"
    <3>1. ~LooksFirst /\ TheEvent.what # "offboarded"
      BY <1>3, <2>0, <2>5 DEF LooksFirst, TheEvent
    <3>2. audit' = audit /\ offboarded' = offboarded
      BY <3>1 DEF AppendAudit
    <3> QED BY <1>1, <2>3, <3>2, FilesStay, TypesOf DEF CustodyInv
  <2> QED BY <2>4, <2>5
<1>4. QED BY <1>2, <1>3

-----------------------------------------------------------------------------
(* get, store, revoke and offboard *)

\* The next step of an operation that has no rotation in hand.
LEMMA OpGoesOn ==
    ASSUME CustodyInv, custodyOp.by # Nobody, ~custodyOp.recovering, journals = {},
           ~Task("rotate"), UNCHANGED <<journals, replaces>>,
           NEW s \in CustodySteps \ {"done", "sweep", "key"}, OpGo(s),
           s \in {"lease"} => Task("materialize"),
           s \in {"reserve", "record", "blob"} => Task("store"),
           s \in {"destroy", "unblob", "unruntime"} => Task("offboard"),
           s \in {"unkey", "unlease"} => Task("release"),
           s = "audit" => custodyOp.task \in {"store", "revoke", "offboard"},
           s \notin {"journal", "revoke", "replacement", "retire", "unjournal"},
           StepOK, ArgumentsOK, ~Task("start")
    PROVE  /\ custodyOp' \in OpShape /\ custodyOp'.step = s /\ custodyOp'.ref = custodyOp.ref
           /\ custodyOp'.task = custodyOp.task /\ custodyOp'.recovering = FALSE
           /\ custodyOp'.by = custodyOp.by
           /\ StepOK' /\ ArgumentsOK' /\ JournalHeld' /\ RotationHeld'
<1>1. /\ custodyOp' \in OpShape /\ custodyOp'.step = s
      /\ custodyOp'.by = custodyOp.by /\ custodyOp'.task = custodyOp.task
      /\ custodyOp'.ref = custodyOp.ref /\ custodyOp'.token = custodyOp.token
      /\ custodyOp'.recovering = custodyOp.recovering
  BY OpGoOK DEF CustodyInv
<1>2. custodyOp.recovering = FALSE /\ custodyOp'.recovering = FALSE
  BY <1>1 DEF CustodyInv, OpInv, OpShape
<1>3. StepOK'
  BY <1>1, <1>2 DEF StepOK, Step, Task
<1>4. ArgumentsOK'
  BY <1>1 DEF ArgumentsOK, Step, Task
<1>5. ~InRotation'
  BY <1>1, <1>2 DEF InRotation, Step, Task
<1>6. JournalHeld' /\ RotationHeld'
  BY <1>1, <1>5 DEF JournalHeld, RotationHeld, Step
<1>7. QED BY <1>1, <1>2, <1>3, <1>4, <1>6

\* What an operation without a rotation may rely on at each of its steps.
LEMMA PastRecovery ==
    ASSUME CustodyInv,
           NEW s \in {"reserve", "record", "revoke", "destroy", "unblob", "unruntime", "lease",
                      "key", "unkey", "unlease", "return", "journal"},
           OpAt(s)
    PROVE  /\ custodyOp.by # Nobody /\ custodyOp \in OpShape /\ custodyOp.step = s
           /\ StepOK /\ ArgumentsOK /\ ProgressHeld /\ journals = {}
           /\ ~custodyOp.recovering /\ ~Task("start")
<1>1. /\ custodyOp.by # Nobody /\ custodyOp \in OpShape /\ custodyOp.step = s
      /\ StepOK /\ ArgumentsOK /\ ProgressHeld /\ JournalHeld
  BY UnderWay DEF CustodyInv
<1>2. ~custodyOp.recovering /\ ~Task("start") /\ ~InRotation
  BY <1>1 DEF StepOK, RecoverySteps, InRotation, Step, Task
<1>3. QED BY <1>1, <1>2 DEF JournalHeld, Step

\* The operation returns and no file is changed.
LEMMA ReturnKeeps ==
    ASSUME CustodyInv, Return, UNCHANGED <<disk, world, past>> PROVE CustodyInv'
BY RaiseKeeps DEF Raise

LEMMA ReserveReferenceKeeps == ASSUME CustodyInv, ReserveReference PROVE CustodyInv'
<1>0. /\ custodyOp.by # Nobody /\ StepOK /\ ArgumentsOK /\ journals = {} /\ ~custodyOp.recovering
      /\ Task("store") /\ custodyOp.step = "reserve"
  BY PastRecovery DEF ReserveReference, StepOK, Step
<1>1. CASE record[custodyOp.ref] # "absent" \/ custodyOp.ref \in blob
  BY <1>1, ReturnKeeps DEF ReserveReference
<1>2. CASE ~(record[custodyOp.ref] # "absent" \/ custodyOp.ref \in blob)
  <2>1. OpGo("blob") /\ UNCHANGED <<record, journals, replaces>>
    BY <1>2 DEF ReserveReference, disk, rotations, past
  <2>2. /\ custodyOp' \in OpShape /\ custodyOp'.step = "blob" /\ custodyOp'.ref = custodyOp.ref
        /\ custodyOp'.task = "store" /\ StepOK' /\ ArgumentsOK' /\ JournalHeld' /\ RotationHeld'
    BY <1>0, <2>1, OpGoesOn DEF Task, CustodySteps, WriteSteps
  <2>3. ProgressHeld'
    BY <1>2, <2>1, <2>2 DEF ProgressHeld, Offboards, Step, Task
  <2>4. DiskInv'
    BY <2>2, DiskStays, TypesOf DEF ReserveReference, CustodyInv, world
  <2> QED BY <2>2, <2>3, <2>4 DEF CustodyInv, OpInv
<1>3. QED BY <1>1, <1>2

LEMMA WriteNewBlobKeeps == ASSUME CustodyInv, WriteNewBlob PROVE CustodyInv'
<1>0. /\ custodyOp.by # Nobody /\ StepOK /\ ArgumentsOK /\ journals = {} /\ ~custodyOp.recovering
      /\ custodyOp.task = "store" /\ custodyOp.step = "blob" /\ custodyOp.ref \in Refs
      /\ record[custodyOp.ref] = "absent"
  BY UnderWay DEF CustodyInv, WriteNewBlob, StepOK, RecoverySteps, ArgumentsOK, JournalHeld,
                  InRotation, ProgressHeld, Step, Task
<1>1. OpGo("record") /\ UNCHANGED <<record, journals, replaces>>
  BY DEF WriteNewBlob, rotations, past
<1>2. /\ custodyOp' \in OpShape /\ custodyOp'.step = "record" /\ custodyOp'.ref = custodyOp.ref
      /\ custodyOp'.task = "store" /\ StepOK' /\ ArgumentsOK' /\ JournalHeld' /\ RotationHeld'
  BY <1>0, <1>1, OpGoesOn DEF Task, CustodySteps, WriteSteps
<1>3. ProgressHeld'
  BY <1>0, <1>1, <1>2 DEF ProgressHeld, Offboards, Step, Task
<1>4. custodyOp.ref \notin offboarded
  BY <1>0 DEF CustodyInv, DiskInv, OffboardedLeavesNothing
<1>5. DiskInv'
  BY <1>0, <1>2, <1>4, FilesStay, TypesOf
     DEF CustodyInv, WriteNewBlob, rotations, past, auditFile, world
<1>6. QED BY <1>2, <1>3, <1>5 DEF CustodyInv, OpInv

\* The record of a store, whether it returns or raises afterwards.
LEMMA NewRecordOK ==
    ASSUME CustodyInv, OpAt("record"), record' = [record EXCEPT ![custodyOp.ref] = "active"],
           UNCHANGED <<journals, strays, audit, lapsed, up, replaces, offboarded, runtime>>,
           custodyOp' \in OpShape, torn' \in BOOLEAN, faults' \in 0..MaxFaults, blob' \subseteq blob
    PROVE  DiskInv'
<1>1. /\ custodyOp.ref \in Refs /\ record[custodyOp.ref] = "absent" /\ journals = {}
      /\ replaces[custodyOp.ref] = NoRef
  BY PastRecovery DEF StepOK, ArgumentsOK, ProgressHeld, Step, Task
<1>2. QED BY <1>1, RecordKeeps DEF CustodyInv, CredentialStatuses

LEMMA WriteNewRecordKeeps == ASSUME CustodyInv, WriteNewRecord PROVE CustodyInv'
<1>0. /\ custodyOp.by # Nobody /\ StepOK /\ ArgumentsOK /\ journals = {} /\ ~custodyOp.recovering
      /\ custodyOp.task = "store" /\ custodyOp.step = "record"
  BY PastRecovery DEF WriteNewRecord, StepOK, Step, Task
<1>1. /\ OpGo("audit") /\ record' = [record EXCEPT ![custodyOp.ref] = "active"]
      /\ UNCHANGED <<blob, journals, strays, runtime, audit, torn, lapsed, up, faults, replaces,
                     offboarded>>
  BY DEF WriteNewRecord, rotations, auditFile, world, past
<1>2. /\ custodyOp' \in OpShape /\ custodyOp'.step = "audit" /\ custodyOp'.ref = custodyOp.ref
      /\ custodyOp'.task = "store" /\ StepOK' /\ ArgumentsOK' /\ JournalHeld' /\ RotationHeld'
  BY <1>0, <1>1, OpGoesOn DEF Task, CustodySteps, WriteSteps
<1>3. ProgressHeld'
  BY <1>2 DEF ProgressHeld, Offboards, Step, Task
<1>4. DiskInv'
  BY <1>1, <1>2, NewRecordOK, TypesOf DEF CustodyInv, WriteNewRecord
<1>5. QED BY <1>2, <1>3, <1>4 DEF CustodyInv, OpInv

LEMMA RevokeRecordKeeps == ASSUME CustodyInv, RevokeRecord PROVE CustodyInv'
<1>0. /\ custodyOp.by # Nobody /\ StepOK /\ ArgumentsOK /\ journals = {} /\ ~custodyOp.recovering
      /\ custodyOp.task = "revoke" /\ custodyOp.step = "revoke" /\ custodyOp.ref \in Refs
  BY PastRecovery DEF RevokeRecord, StepOK, ArgumentsOK, Step, Task
<1>1. CASE record[custodyOp.ref] \in {"absent", "destroyed"}
  BY <1>1, ReturnKeeps DEF RevokeRecord, disk
<1>2. CASE record[custodyOp.ref] \notin {"absent", "destroyed"}
  <2>1. /\ OpGo("audit") /\ record' = [record EXCEPT ![custodyOp.ref] = "revoked"]
        /\ UNCHANGED <<blob, journals, strays, runtime, audit, torn, lapsed, up, faults, replaces,
                       offboarded>>
    BY <1>2 DEF RevokeRecord, rotations, auditFile, world, past
  <2>2. /\ custodyOp' \in OpShape /\ custodyOp'.step = "audit"
        /\ custodyOp'.task = "revoke" /\ StepOK' /\ ArgumentsOK' /\ JournalHeld' /\ RotationHeld'
    BY <1>0, <2>1, OpGoesOn DEF Task, CustodySteps, WriteSteps
  <2>3. ProgressHeld'
    BY <2>2 DEF ProgressHeld, Offboards, Step, Task
  <2>4. DiskInv'
    BY <1>0, <1>2, <2>1, <2>2, RecordKeeps, TypesOf DEF CustodyInv, CredentialStatuses
  <2> QED BY <2>2, <2>3, <2>4 DEF CustodyInv, OpInv
<1>3. QED BY <1>1, <1>2

LEMMA DestroyRecordKeeps == ASSUME CustodyInv, DestroyRecord PROVE CustodyInv'
<1>0. /\ custodyOp.by # Nobody /\ StepOK /\ ArgumentsOK /\ journals = {} /\ ~custodyOp.recovering
      /\ custodyOp.task = "offboard" /\ custodyOp.step = "destroy" /\ custodyOp.ref \in Refs
  BY PastRecovery DEF DestroyRecord, StepOK, ArgumentsOK, Step, Task
<1>1. CASE record[custodyOp.ref] = "absent"
  BY <1>1, ReturnKeeps DEF DestroyRecord, disk
<1>2. CASE record[custodyOp.ref] # "absent"
  <2>1. /\ OpGo("unblob") /\ record' = [record EXCEPT ![custodyOp.ref] = "destroyed"]
        /\ UNCHANGED <<blob, journals, strays, runtime, audit, torn, lapsed, up, faults, replaces,
                       offboarded>>
    BY <1>2 DEF DestroyRecord, rotations, auditFile, world, past
  <2>2. /\ custodyOp' \in OpShape /\ custodyOp'.step = "unblob" /\ custodyOp'.ref = custodyOp.ref
        /\ custodyOp'.task = "offboard"
        /\ StepOK' /\ ArgumentsOK' /\ JournalHeld' /\ RotationHeld'
    BY <1>0, <2>1, OpGoesOn DEF Task, CustodySteps, WriteSteps
  <2>3. record'[custodyOp.ref] = "destroyed"
    BY <1>0, <2>1, TypesOf DEF CustodyInv
  <2>4. ProgressHeld'
    BY <2>2, <2>3 DEF ProgressHeld, Offboards, Step, Task
  <2>5. DiskInv'
    BY <1>0, <1>2, <2>1, <2>2, RecordKeeps, TypesOf DEF CustodyInv, CredentialStatuses
  <2> QED BY <2>2, <2>4, <2>5 DEF CustodyInv, OpInv
<1>3. QED BY <1>1, <1>2

LEMMA RemoveBlobKeeps == ASSUME CustodyInv, RemoveBlob PROVE CustodyInv'
<1>0. /\ custodyOp.by # Nobody /\ StepOK /\ ArgumentsOK /\ journals = {} /\ ~custodyOp.recovering
      /\ custodyOp.task = "offboard" /\ custodyOp.step = "unblob"
      /\ record[custodyOp.ref] = "destroyed"
  BY PastRecovery DEF RemoveBlob, StepOK, ProgressHeld, Offboards, Step, Task
<1>1. /\ OpGo("unruntime") /\ blob' = blob \ {custodyOp.ref}
      /\ UNCHANGED <<record, journals, replaces>>
  BY DEF RemoveBlob, rotations, past
<1>2. /\ custodyOp' \in OpShape /\ custodyOp'.step = "unruntime" /\ custodyOp'.ref = custodyOp.ref
      /\ custodyOp'.task = "offboard" /\ StepOK' /\ ArgumentsOK' /\ JournalHeld' /\ RotationHeld'
  BY <1>0, <1>1, OpGoesOn DEF Task, CustodySteps, WriteSteps
<1>3. ProgressHeld'
  BY <1>0, <1>1, <1>2 DEF ProgressHeld, Offboards, Step, Task
<1>4. DiskInv'
  BY <1>1, <1>2, FilesStay, TypesOf
     DEF CustodyInv, RemoveBlob, rotations, past, auditFile, world
<1>5. QED BY <1>2, <1>3, <1>4 DEF CustodyInv, OpInv

LEMMA RuntimeRemovedKeeps == ASSUME CustodyInv, RuntimeRemoved PROVE CustodyInv'
<1>0. /\ custodyOp.by # Nobody /\ StepOK /\ ArgumentsOK /\ journals = {} /\ ~custodyOp.recovering
      /\ custodyOp.task = "offboard" /\ custodyOp.step = "unruntime"
      /\ record[custodyOp.ref] = "destroyed" /\ custodyOp.ref \notin blob
  BY PastRecovery DEF RuntimeRemoved, StepOK, ProgressHeld, Offboards, Step, Task
<1>1. /\ OpGo("audit") /\ \A t \in Tokens : runtime[t].ref # custodyOp.ref
      /\ UNCHANGED <<record, blob, runtime, journals, replaces>>
  BY DEF RuntimeRemoved, disk, rotations, past
<1>2. /\ custodyOp' \in OpShape /\ custodyOp'.step = "audit" /\ custodyOp'.ref = custodyOp.ref
      /\ custodyOp'.task = "offboard" /\ StepOK' /\ ArgumentsOK' /\ JournalHeld' /\ RotationHeld'
  BY <1>0, <1>1, OpGoesOn DEF Task, CustodySteps, WriteSteps
<1>3. ProgressHeld'
  BY <1>0, <1>1, <1>2 DEF ProgressHeld, Offboards, Step, Task
<1>4. DiskInv'
  BY <1>2, DiskStays, TypesOf DEF RuntimeRemoved, CustodyInv, world
<1>5. QED BY <1>2, <1>3, <1>4 DEF CustodyInv, OpInv

-----------------------------------------------------------------------------
(* Runtime files *)

LEMMA DroppedOK ==
    ASSUME NEW f \in Files, NEW part \in {"lease", "key"}
    PROVE  /\ Dropped(f, part) \in Files
           /\ Dropped(f, part).ref \in {f.ref, NoRef}
           /\ Dropped(f, part).key => f.key
<1>1. NoFiles \in Files /\ NoFiles.ref = NoRef /\ NoFiles.key = FALSE
  BY DEF NoFiles, Files
<1>2. CASE part = "lease"
  <2> DEFINE g == [f EXCEPT !.lease = FALSE]
  <2>1. g \in Files /\ g.ref = f.ref /\ g.key = f.key
    BY DEF Files
  <2>2. Dropped(f, part) \in {g, NoFiles}
    BY <1>2 DEF Dropped
  <2> HIDE DEF g
  <2> QED BY <1>1, <2>1, <2>2
<1>3. CASE part = "key"
  <2> DEFINE g == [f EXCEPT !.key = FALSE]
  <2>1. g \in Files /\ g.ref = f.ref /\ g.key = FALSE
    BY DEF Files
  <2>2. Dropped(f, part) \in {g, NoFiles}
    BY <1>3 DEF Dropped
  <2> HIDE DEF g
  <2> QED BY <1>1, <2>1, <2>2
<1>4. QED BY <1>2, <1>3

\* A step on the files of one token that brings no key.
Drops(t) ==
    /\ runtime' \in [Tokens -> Files]
    /\ \A u \in Tokens : runtime'[u].key => runtime[u].key
    /\ \A u \in Tokens : runtime'[u].ref \in {runtime[u].ref, NoRef}

LEMMA DropOK ==
    ASSUME DiskInv, NEW t \in Tokens, NEW part \in {"lease", "key"},
           runtime' = [runtime EXCEPT ![t] = Dropped(runtime[t], part)]
    PROVE  Drops(t)
<1>1. runtime \in [Tokens -> Files]
  BY TypesOf
<1>2. PICK f : f = Dropped(runtime[t], part)
  OBVIOUS
<1>3. f \in Files /\ f.ref \in {runtime[t].ref, NoRef} /\ (f.key => runtime[t].key)
  BY <1>1, <1>2, DroppedOK
<1>4. runtime' = [runtime EXCEPT ![t] = f]
  BY <1>2
<1>5. QED BY <1>1, <1>3, <1>4 DEF Drops

\* The credentials that were offboarded have names.
LEMMA OffboardedAreRefs == DiskInv => NoRef \notin offboarded
BY NamesAssumption, TypesOf

\* Sweeping, and removing what a credential has.
LEMMA DropKeeps ==
    ASSUME CustodyInv, NEW t \in Tokens, Drops(t), custodyOp.step \notin {"audit", "key"},
           UNCHANGED <<record, blob, rotations, auditFile, world, custodyOp, past>>
    PROVE  CustodyInv'
<1>1. OpInv'
  BY OpStays DEF CustodyInv, rotations, auditFile, past
<1>2. custodyOp' \in OpShape
  BY DEF CustodyInv, OpInv
<1>3. DiskInv'
  BY <1>2, FilesStay, TypesOf, OffboardedAreRefs
     DEF CustodyInv, Drops, rotations, auditFile, world, past
<1>4. QED BY <1>1, <1>3 DEF CustodyInv

LEMMA SweepEntryKeeps ==
    ASSUME CustodyInv, NEW t \in Tokens, SweepEntry(t) PROVE CustodyInv' /\ Drops(t)
<1>1. PICK part \in {"lease", "key"} :
          runtime' = [runtime EXCEPT ![t] = Dropped(runtime[t], part)]
  BY DEF SweepEntry
<1>2. Drops(t)
  BY <1>1, DropOK DEF CustodyInv
<1>3. QED BY <1>2, DropKeeps DEF SweepEntry, OpAt

LEMMA RemoveRuntimeEntryKeeps ==
    ASSUME CustodyInv, NEW t \in Tokens, RemoveRuntimeEntry(t) PROVE CustodyInv' /\ Drops(t)
<1>1. PICK part \in {"lease", "key"} :
          runtime' = [runtime EXCEPT ![t] = Dropped(runtime[t], part)]
  BY DEF RemoveRuntimeEntry
<1>2. Drops(t)
  BY <1>1, DropOK DEF CustodyInv
<1>3. QED BY <1>2, DropKeeps DEF RemoveRuntimeEntry, OpAt

LEMMA SweptKeeps == ASSUME CustodyInv, Swept PROVE CustodyInv'
<1>0. /\ custodyOp \in OpShape /\ custodyOp.by # Nobody /\ custodyOp.step = "sweep"
      /\ StepOK /\ ArgumentsOK /\ JournalHeld /\ ~custodyOp.recovering
  BY UnderWay DEF CustodyInv, Swept, StepOK, RecoverySteps
<1>1. CASE custodyOp.task = "start"
  <2>1. Return /\ up' = up \cup {custodyOp.by} /\ UNCHANGED <<disk, lapsed, faults, past>>
    BY <1>1 DEF Swept
  <2>2. custodyOp' \in OpShape /\ OpInv'
    BY <2>1, NoOpOK, ReturnOK DEF Return
  <2>3. up' \subseteq Procs
    BY <1>0, <2>1, TypesOf DEF CustodyInv, OpShape
  <2> QED BY <2>1, <2>2, <2>3, DiskStays DEF CustodyInv
<1>2. CASE custodyOp.task # "start"
  <2>1. OpGo("lease") /\ UNCHANGED <<disk, up, lapsed, faults, past>>
    BY <1>2 DEF Swept
  <2>2. Task("materialize") /\ journals = {}
    BY <1>0, <1>2 DEF StepOK, JournalHeld, InRotation, Step, Task
  <2>3. UNCHANGED <<journals, replaces>>
    BY <2>1 DEF disk, rotations, past
  <2>4. /\ custodyOp' \in OpShape /\ custodyOp'.step = "lease"
        /\ custodyOp'.task = "materialize"
        /\ StepOK' /\ ArgumentsOK' /\ JournalHeld' /\ RotationHeld'
    BY <1>0, <2>1, <2>2, <2>3, OpGoesOn DEF Task, CustodySteps, WriteSteps
  <2>5. ProgressHeld'
    BY <2>4 DEF ProgressHeld, Offboards, Step, Task
  <2>6. DiskInv'
    BY <2>1, <2>4, DiskStays, TypesOf DEF CustodyInv
  <2> QED BY <2>4, <2>5, <2>6 DEF CustodyInv, OpInv
<1>3. QED BY <1>1, <1>2

LEMMA WriteLeaseKeeps ==
    ASSUME CustodyInv, NEW t \in Tokens, WriteLease(t)
    PROVE  CustodyInv' /\ \A u \in Tokens : runtime'[u].key => runtime[u].key
<1>0. /\ custodyOp.by # Nobody /\ custodyOp \in OpShape /\ custodyOp.step = "lease"
      /\ StepOK /\ ArgumentsOK /\ journals = {} /\ ~custodyOp.recovering
      /\ custodyOp.task = "materialize" /\ custodyOp.ref \in Refs
  BY PastRecovery DEF WriteLease, StepOK, ArgumentsOK, Step, Task
<1>1. /\ record[custodyOp.ref] = "active" /\ custodyOp.ref \notin offboarded
      /\ UNCHANGED <<record, blob, journals, strays, audit, torn, lapsed, up, faults, replaces,
                     offboarded>>
  BY <1>0 DEF WriteLease, StatusOf, CustodyInv, DiskInv, OffboardedLeavesNothing, rotations,
              auditFile, world, past
<1>2. PICK f : f = [ref |-> custodyOp.ref, owner |-> custodyOp.by, lease |-> TRUE, key |-> FALSE]
  OBVIOUS
<1>3. f \in Files /\ f.ref = custodyOp.ref /\ f.key = FALSE
  BY <1>0, <1>2 DEF Files, OpShape
<1>4. runtime' = [runtime EXCEPT ![t] = f]
  BY <1>2 DEF WriteLease
<1>5. /\ runtime' \in [Tokens -> Files] /\ runtime'[t] = f
      /\ \A u \in Tokens : u # t => runtime'[u] = runtime[u]
  BY <1>3, <1>4, TypesOf DEF CustodyInv
<1>6. /\ custodyOp' \in OpShape /\ custodyOp'.step = "key" /\ custodyOp'.token = t
      /\ custodyOp'.by = custodyOp.by /\ custodyOp'.task = "materialize"
      /\ custodyOp'.ref = custodyOp.ref /\ custodyOp'.recovering = FALSE
  BY <1>0 DEF WriteLease, OpShape, CustodySteps, WriteSteps
<1>7. StepOK' /\ ArgumentsOK'
  BY <1>0, <1>6 DEF StepOK, ArgumentsOK, Step, Task
<1>8. JournalHeld' /\ RotationHeld'
  BY <1>0, <1>1, <1>6 DEF JournalHeld, RotationHeld, InRotation, Step, Task
<1>9. ProgressHeld'
  BY <1>1, <1>3, <1>5, <1>6 DEF ProgressHeld, Offboards, Step, Task
<1>10. DiskInv'
  <2>1. \A u \in Tokens : runtime'[u].ref = runtime[u].ref \/ runtime'[u].ref \notin offboarded
    BY <1>1, <1>3, <1>5
  <2> QED BY <1>1, <1>5, <1>6, <2>1, FilesStay, TypesOf DEF CustodyInv
<1>11. QED BY <1>3, <1>5, <1>6, <1>7, <1>8, <1>9, <1>10 DEF CustodyInv, OpInv

\* The key that appears is of a credential that nobody retires.
LEMMA WriteKeyKeeps ==
    ASSUME CustodyInv, WriteKey
    PROVE  /\ CustodyInv'
           /\ \A t \in Tokens : ~runtime[t].key /\ runtime'[t].key =>
                 /\ record[runtime'[t].ref] = "active"
                 /\ \A j \in journals : runtime'[t].ref # j.old
<1>0. /\ custodyOp.token \in Tokens /\ runtime[custodyOp.token].ref = custodyOp.ref
      /\ record[custodyOp.ref] = "active" /\ journals = {}
  BY PastRecovery DEF WriteKey, ArgumentsOK, ProgressHeld, Step
<1>1. PICK f : f = [runtime[custodyOp.token] EXCEPT !.key = TRUE]
  OBVIOUS
<1>2. f \in Files /\ f.ref = custodyOp.ref
  BY <1>0, <1>1, TypesOf DEF CustodyInv, Files
<1>3. runtime' = [runtime EXCEPT ![custodyOp.token] = f]
  BY <1>1 DEF WriteKey
<1>4. /\ runtime' \in [Tokens -> Files] /\ runtime'[custodyOp.token] = f
      /\ \A u \in Tokens : u # custodyOp.token => runtime'[u] = runtime[u]
  BY <1>0, <1>2, <1>3, TypesOf DEF CustodyInv
<1>5. custodyOp' \in OpShape /\ OpInv'
  BY NoOpOK, ReturnOK DEF WriteKey, Return
<1>6. \A u \in Tokens : runtime'[u].ref = runtime[u].ref
  BY <1>0, <1>2, <1>4
<1>7. DiskInv'
  BY <1>4, <1>5, <1>6, FilesStay, TypesOf
     DEF CustodyInv, WriteKey, rotations, auditFile, world, past
<1>8. QED BY <1>0, <1>2, <1>4, <1>5, <1>7 DEF CustodyInv

LEMMA ReleaseKeeps ==
    ASSUME CustodyInv, ReleaseKey \/ ReleaseLease
    PROVE  CustodyInv' /\ Drops(custodyOp.token)
<1>0. /\ custodyOp.by # Nobody /\ StepOK /\ ArgumentsOK /\ journals = {} /\ ~custodyOp.recovering
      /\ custodyOp.task = "release" /\ custodyOp.step \in {"unkey", "unlease"}
  BY PastRecovery DEF ReleaseKey, ReleaseLease, StepOK, Step, Task
<1>1. custodyOp.token \in Tokens
  BY <1>0 DEF ArgumentsOK, Task
<1>2. PICK part \in {"lease", "key"} :
          runtime' = [runtime EXCEPT ![custodyOp.token] = Dropped(runtime[custodyOp.token], part)]
  BY DEF ReleaseKey, ReleaseLease
<1>3. /\ Drops(custodyOp.token)
      /\ UNCHANGED <<record, blob, journals, strays, audit, torn, lapsed, up, faults, replaces,
                     offboarded>>
  BY <1>1, <1>2, DropOK
     DEF CustodyInv, ReleaseKey, ReleaseLease, rotations, auditFile, world, past
<1>4. custodyOp' \in OpShape /\ OpInv'
  <2>1. CASE ReleaseKey
    <3>1. OpGo("unlease")
      BY <2>1 DEF ReleaseKey
    <3>2. /\ custodyOp' \in OpShape /\ custodyOp'.step = "unlease" /\ custodyOp'.task = "release"
          /\ StepOK' /\ ArgumentsOK' /\ JournalHeld' /\ RotationHeld'
      BY <1>0, <1>3, <3>1, OpGoesOn DEF Task, CustodySteps, WriteSteps
    <3>3. ProgressHeld'
      BY <3>2 DEF ProgressHeld, Offboards, Step, Task
    <3> QED BY <3>2, <3>3 DEF OpInv
  <2>2. CASE ReleaseLease
    BY <2>2, NoOpOK, ReturnOK DEF ReleaseLease, Return
  <2> QED BY <2>1, <2>2
<1>5. DiskInv'
  BY <1>3, <1>4, FilesStay, TypesOf, OffboardedAreRefs DEF CustodyInv, Drops
<1>6. QED BY <1>3, <1>4, <1>5 DEF CustodyInv

-----------------------------------------------------------------------------
(* Faults and time *)

LEMMA OneMoreFault ==
    ASSUME DiskInv, faults < MaxFaults, faults' = faults + 1
    PROVE  faults' \in 0..MaxFaults
BY TypesOf, MaxFaultsAssumption

LEMMA TornOK ==
    ASSUME DiskInv, torn' \in MaybeTorn \/ torn' = torn
    PROVE  torn' \in BOOLEAN
<1>1. torn \in BOOLEAN
  BY TypesOf
<1>2. CASE OpAt("audit")
  BY <1>1, <1>2 DEF MaybeTorn
<1>3. CASE ~OpAt("audit")
  BY <1>1, <1>3 DEF MaybeTorn
<1>4. QED BY <1>2, <1>3

LEMMA FileCallFailsKeeps ==
    ASSUME CustodyInv, FileCallFails
    PROVE  CustodyInv' /\ \A u \in Tokens : runtime'[u].key => runtime[u].key
<1>0. /\ custodyOp.by # Nobody /\ custodyOp' \in OpShape /\ OpInv'
      /\ UNCHANGED <<journals, strays, audit, lapsed, up, replaces, offboarded>>
  BY NoOpOK, ReturnOK DEF FileCallFails, Return, rotations, past
<1>1. torn' \in BOOLEAN /\ faults' \in 0..MaxFaults
  BY OneMoreFault, TornOK DEF FileCallFails, CustodyInv
<1>2. /\ runtime' \in [Tokens -> Files]
      /\ \A u \in Tokens : runtime'[u].ref \in {runtime[u].ref, NoRef}
      /\ \A u \in Tokens : runtime'[u].key => runtime[u].key
  <2>1. NoFiles \in Files /\ NoFiles.ref = NoRef /\ NoFiles.key = FALSE
    BY DEF NoFiles, Files
  <2>2. CASE OpAt("key")
    <3>1. custodyOp.token \in Tokens /\ runtime' = [runtime EXCEPT ![custodyOp.token] = NoFiles]
      BY <2>2, PastRecovery DEF ArgumentsOK, Step, FileCallFails
    <3> QED BY <2>1, <3>1, TypesOf DEF CustodyInv
  <2>3. CASE ~OpAt("key")
    BY <2>3, TypesOf DEF FileCallFails, CustodyInv
  <2> QED BY <2>2, <2>3
<1>3. CASE OpAt("record") /\ record' # record
  <2>1. /\ record' = [record EXCEPT ![custodyOp.ref] = "active"] /\ blob' \subseteq blob
        /\ UNCHANGED runtime
    BY <1>3 DEF FileCallFails, OpAt
  <2>2. DiskInv'
    BY <1>0, <1>1, <1>3, <2>1, NewRecordOK
  <2> QED BY <1>0, <1>2, <2>2 DEF CustodyInv
<1>4. CASE ~(OpAt("record") /\ record' # record)
  <2>1. UNCHANGED record /\ blob' \subseteq blob
    BY <1>4 DEF FileCallFails
  <2>2. \A t \in Tokens : runtime'[t].ref = runtime[t].ref \/ runtime'[t].ref \notin offboarded
    BY <1>2, OffboardedAreRefs DEF CustodyInv
  <2>3. DiskInv'
    BY <1>0, <1>1, <1>2, <2>1, <2>2, FilesStay, TypesOf DEF CustodyInv
  <2> QED BY <1>0, <1>2, <2>3 DEF CustodyInv
<1>5. QED BY <1>3, <1>4

LEMMA VaultProcessDiesKeeps ==
    ASSUME CustodyInv, NEW p \in Procs, VaultProcessDies(p)
    PROVE  CustodyInv' /\ \A u \in Tokens : runtime'[u].key => runtime[u].key
<1>1. /\ runtime' \in [Tokens -> Files]
      /\ \A u \in Tokens : runtime'[u].ref = runtime[u].ref /\ runtime'[u].key = runtime[u].key
  <2>1. ASSUME NEW t \in Tokens
        PROVE  /\ [runtime[t] EXCEPT !.owner = Nobody] \in Files
               /\ [runtime[t] EXCEPT !.owner = Nobody].ref = runtime[t].ref
               /\ [runtime[t] EXCEPT !.owner = Nobody].key = runtime[t].key
    BY TypesOf DEF CustodyInv, Files
  <2>2. runtime \in [Tokens -> Files]
    BY TypesOf DEF CustodyInv
  <2> QED BY <2>1, <2>2 DEF VaultProcessDies
<1>2. /\ UNCHANGED <<record, blob, journals, audit, lapsed, replaces, offboarded>>
      /\ up' \subseteq Procs /\ faults' \in 0..MaxFaults /\ {strays', torn'} \subseteq BOOLEAN
  <2>1. UNCHANGED <<record, blob, journals, audit, lapsed, replaces, offboarded>>
    BY DEF VaultProcessDies, past
  <2>2. up' \subseteq Procs
    BY TypesOf DEF VaultProcessDies, CustodyInv
  <2>3. faults' \in 0..MaxFaults
    BY OneMoreFault DEF VaultProcessDies, CustodyInv
  <2>4. strays' \in BOOLEAN /\ torn' \in BOOLEAN
    BY TypesOf, TornOK DEF VaultProcessDies, CustodyInv
  <2> QED BY <2>1, <2>2, <2>3, <2>4
<1>3. custodyOp' \in OpShape /\ OpInv'
  <2>1. CASE custodyOp.by = p
    BY <2>1, NoOpOK, ReturnOK DEF VaultProcessDies, Return
  <2>2. CASE custodyOp.by # p
    <3>1. UNCHANGED custodyOp
      BY <2>2 DEF VaultProcessDies
    <3> QED BY <1>1, <1>2, <3>1, OpStays DEF CustodyInv, OpInv
  <2> QED BY <2>1, <2>2
<1>4. DiskInv'
  <2>1. \A r \in blob' : r \in blob \/ r \in Refs \ offboarded
    BY <1>2
  <2>2. lapsed' \subseteq Refs
    BY <1>2, TypesOf DEF CustodyInv
  <2> QED BY <1>1, <1>2, <1>3, <2>1, <2>2, FilesStay DEF CustodyInv
<1>5. QED BY <1>1, <1>3, <1>4 DEF CustodyInv

LEMMA CredentialExpiresKeeps ==
    ASSUME CustodyInv, NEW r \in Refs, CredentialExpires(r) PROVE CustodyInv'
<1>1. /\ UNCHANGED <<record, blob, journals, strays, runtime, audit, torn, up, faults, custodyOp,
                     replaces, offboarded>>
      /\ lapsed' \subseteq Refs
  BY TypesOf DEF CredentialExpires, CustodyInv, disk, rotations, auditFile, past
<1>2. OpInv'
  BY <1>1, OpStays DEF CustodyInv
<1>3. DiskInv'
  <2>1. custodyOp' \in OpShape
    BY <1>1 DEF CustodyInv, OpInv
  <2> QED BY <1>1, <2>1, FilesStay, TypesOf DEF CustodyInv
<1>4. QED BY <1>2, <1>3 DEF CustodyInv

LEMMA CustodyStutters == ASSUME CustodyInv, UNCHANGED custodyVars PROVE CustodyInv'
<1>1. UNCHANGED <<disk, past, lapsed, up, faults, custodyOp>>
  BY DEF custodyVars, world
<1>2. OpInv'
  BY <1>1, OpStays DEF CustodyInv, disk, rotations, auditFile, past
<1>3. DiskInv'
  BY <1>1, DiskStays, TypesOf DEF CustodyInv, OpInv
<1>4. QED BY <1>2, <1>3 DEF CustodyInv

-----------------------------------------------------------------------------
(* The theorems *)

LEMMA CustodyStarts == CustodyInit => CustodyInv
<1> SUFFICES ASSUME CustodyInit PROVE CustodyInv
  OBVIOUS
<1>1. NoFiles \in Files /\ NoFiles.ref = NoRef
  BY DEF NoFiles, Files
<1>2. /\ record \in [Refs -> CredentialStatuses] /\ runtime \in [Tokens -> Files]
      /\ \A r \in Refs : record[r] = "absent" /\ replaces[r] = NoRef
  BY <1>1 DEF CustodyInit, CredentialStatuses
<1>3. CustodyTypeOK
  <2>1. 0 \in 0..MaxFaults
    BY MaxFaultsAssumption
  <2>2. custodyOp.by \in Procs \cup {Nobody} /\ custodyOp.task \in Tasks
    BY NoOpOK DEF CustodyInit, OpShape
  <2>3. {strays, torn} \subseteq BOOLEAN /\ replaces \in [Refs -> Refs \cup {NoRef}]
    BY DEF CustodyInit
  <2>4. /\ blob \subseteq Refs /\ lapsed \subseteq Refs /\ journals \subseteq Rotation
        /\ audit \subseteq Events /\ up \subseteq Procs /\ offboarded \subseteq Refs
        /\ faults \in 0..MaxFaults
    BY <2>1 DEF CustodyInit
  <2> QED BY <1>2, <2>2, <2>3, <2>4 DEF CustodyTypeOK, Files
<1>4. JournalsOK /\ SourcesOK /\ RotationSettles /\ OffboardedLeavesNothing
  BY <1>2 DEF CustodyInit, JournalsOK, SourcesOK, RotationSettles, OffboardedLeavesNothing
<1>5. OpInv
  BY NoOpOK DEF CustodyInit, OpInv
<1>6. QED BY <1>3, <1>4, <1>5 DEF CustodyInv, DiskInv

LEMMA CustodyStepKeeps == CustodyInv /\ [CustodyNext]_custodyVars => CustodyInv'
<1> SUFFICES ASSUME CustodyInv, [CustodyNext]_custodyVars PROVE CustodyInv'
  OBVIOUS
<1>1. ASSUME RecoveryRefused \/ RotationRefused \/ AuditUnreadable \/ ReturnRecord
             \/ MaterializeRefused
      PROVE  CustodyInv'
  BY <1>1, RaiseKeeps
     DEF RecoveryRefused, RotationRefused, AuditUnreadable, ReturnRecord, MaterializeRefused
<1>2. ASSUME NEW p \in Procs, StartVault(p) \/ VaultProcessDies(p) PROVE CustodyInv'
  BY <1>2, StartVaultKeeps, VaultProcessDiesKeeps
<1>3. ASSUME NEW p \in Procs, NEW r \in Refs, NEW t \in Tasks \ {"start", "release"},
             BeginOperation(p, t, r)
      PROVE  CustodyInv'
  BY <1>3, BeginOperationKeeps
<1>4. ASSUME NEW p \in Procs, NEW t \in Tokens, BeginRelease(p, t) PROVE CustodyInv'
  BY <1>4, BeginReleaseKeeps
<1>5. ASSUME NEW j \in journals, RecoverRotation(j) PROVE CustodyInv'
  BY <1>5, RecoverRotationKeeps
<1>6. ASSUME NEW r \in Refs, WriteJournal(r) \/ CredentialExpires(r) PROVE CustodyInv'
  BY <1>6, WriteJournalKeeps, CredentialExpiresKeeps
<1>7. ASSUME NEW t \in Tokens, SweepEntry(t) \/ WriteLease(t) \/ RemoveRuntimeEntry(t)
      PROVE  CustodyInv'
  BY <1>7, SweepEntryKeeps, WriteLeaseKeeps, RemoveRuntimeEntryKeeps
<1>8. QED
  BY <1>1, <1>2, <1>3, <1>4, <1>5, <1>6, <1>7, RecoveredKeeps, WriteReplacementBlobKeeps,
     WriteReplacementKeeps, RetireSourceKeeps, RemoveJournalKeeps, AppendAuditKeeps,
     ReserveReferenceKeeps, WriteNewBlobKeeps, WriteNewRecordKeeps, RevokeRecordKeeps,
     DestroyRecordKeeps, RemoveBlobKeeps, RuntimeRemovedKeeps, SweptKeeps, WriteKeyKeeps,
     ReleaseKeeps, FileCallFailsKeeps, CustodyStutters DEF CustodyNext

\* The invariant of the vault's files and of the operation under way.
THEOREM CustodyInvariant == CustodySpec => []CustodyInv
<1>1. QED BY CustodyStarts, CustodyStepKeeps, PTL DEF CustodySpec

\* Every file has its shape.
THEOREM CustodyTypeCorrect == CustodySpec => []CustodyTypeOK
<1>1. CustodyInv => CustodyTypeOK
  BY DEF CustodyInv, DiskInv
<1>2. QED BY <1>1, CustodyInvariant, PTL

\* rotate and _recover_pending_rotations_unlocked, cut short anywhere and any
\* number of times: a replacement that is published has its source out of use
\* and its line in the audit file, or a journal by which both still come.
THEOREM RotationsSettle == CustodySpec => []RotationSettles
<1>1. CustodyInv => RotationSettles
  BY DEF CustodyInv, DiskInv
<1>2. QED BY <1>1, CustodyInvariant, PTL

\* After offboard has returned a receipt nothing is left of the key and nothing
\* brings it back: no retried rotation, store or materialize of any process.
THEOREM OffboardingsLeaveNothing == CustodySpec => []OffboardedLeavesNothing
<1>1. CustodyInv => OffboardedLeavesNothing
  BY DEF CustodyInv, DiskInv
<1>2. QED BY <1>1, CustodyInvariant, PTL

\* Only materialize brings a key file.
LEMMA OnlyWriteKey ==
    ASSUME CustodyInv, [CustodyNext]_custodyVars, ~WriteKey, NEW t \in Tokens
    PROVE  runtime'[t].key => runtime[t].key
<1>1. ASSUME NEW u \in Tokens, SweepEntry(u) \/ WriteLease(u) \/ RemoveRuntimeEntry(u)
      PROVE  runtime'[t].key => runtime[t].key
  BY <1>1, SweepEntryKeeps, WriteLeaseKeeps, RemoveRuntimeEntryKeeps DEF Drops
<1>2. ASSUME ReleaseKey \/ ReleaseLease PROVE runtime'[t].key => runtime[t].key
  BY <1>2, ReleaseKeeps DEF Drops
<1>3. ASSUME NEW p \in Procs, VaultProcessDies(p) PROVE runtime'[t].key => runtime[t].key
  BY <1>3, VaultProcessDiesKeeps
<1>4. ASSUME \/ \E p \in Procs : StartVault(p)
             \/ \E p \in Procs, r \in Refs, k \in Tasks \ {"start", "release"} :
                    BeginOperation(p, k, r)
             \/ \E p \in Procs, u \in Tokens : BeginRelease(p, u)
             \/ Recovered \/ RecoveryRefused
             \/ \E j \in journals : RecoverRotation(j)
             \/ \E r \in Refs : WriteJournal(r) \/ CredentialExpires(r)
             \/ RotationRefused \/ WriteReplacementBlob \/ WriteReplacement
             \/ RetireSource \/ RemoveJournal
      PROVE  UNCHANGED runtime
  BY <1>4
     DEF StartVault, BeginOperation, BeginRelease, Recovered, RecoveryRefused,
         RecoverRotation, WriteJournal, CredentialExpires, RotationRefused,
         WriteReplacementBlob, WriteReplacement, RetireSource, RemoveJournal, Raise, disk
<1>5. ASSUME \/ AppendAudit \/ AuditUnreadable
             \/ ReturnRecord \/ ReserveReference \/ WriteNewBlob \/ WriteNewRecord
             \/ RevokeRecord \/ DestroyRecord \/ RemoveBlob \/ RuntimeRemoved
             \/ Swept \/ MaterializeRefused \/ UNCHANGED custodyVars
      PROVE  UNCHANGED runtime
  BY <1>5
     DEF AppendAudit, AuditUnreadable, ReturnRecord, ReserveReference, WriteNewBlob,
         WriteNewRecord, RevokeRecord, DestroyRecord, RemoveBlob, RuntimeRemoved, Swept,
         MaterializeRefused, Raise, disk, custodyVars
<1>6. QED BY <1>1, <1>2, <1>3, <1>4, <1>5, FileCallFailsKeeps DEF CustodyNext

\* materialize: the key file of an identity appears only while its credential
\* is active and no rotation, under way or cut short, is about to retire it.
THEOREM KeysOfActiveCredentials == CustodySpec => KeysAreOfActiveCredentials
<1>1. CustodyInv /\ [CustodyNext]_custodyVars =>
        [\A t \in Tokens : ~runtime[t].key /\ runtime'[t].key =>
            /\ record[runtime'[t].ref] = "active"
            /\ \A j \in journals : runtime'[t].ref # j.old]_custodyVars
  BY WriteKeyKeeps, OnlyWriteKey
<1>2. QED BY <1>1, CustodyInvariant, PTL DEF CustodySpec, KeysAreOfActiveCredentials
=============================================================================
