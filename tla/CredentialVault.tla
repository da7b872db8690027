-------------------------- MODULE CredentialVault --------------------------
(***************************************************************************)
(* The credential vault (appcare/connectors/credential_vault.py):          *)
(* processes that share one directory and take its lock file for every     *)
(* operation.                                                              *)
(*                                                                         *)
(* flock makes the operations exclusive: custodyOp is the one under way,   *)
(* and holds its owner.  What the lock does not give is atomicity: an      *)
(* operation is several durable file steps, and it may be cut short before *)
(* any of them by an exception or by the death of its process, which frees *)
(* the lock.  Records, blobs and journals are replaced whole; the audit    *)
(* file is appended to and may keep part of a line.  Key material is known *)
(* by its reference.  A provider's resolve is a get and then a             *)
(* materialize, each under a lock of its own.                              *)
(***************************************************************************)
EXTENDS Naturals, FiniteSets

CONSTANTS Refs,       \* credential references
          Procs,      \* processes with a vault object
          Tokens,     \* names of runtime identity files, fresh ones
          MaxFaults   \* bound on exceptions and deaths, together

ASSUME MaxFaultsAssumption == MaxFaults \in Nat

VARIABLES
    record,     \* the metadata file of each reference
    blob,       \* references with an encrypted blob
    lapsed,    \* references whose expires_at has passed
    journals,   \* rotation journals, each an old and a new reference
    strays,     \* whether a temporary file was left among the journals
    runtime,    \* the runtime files of each token
    audit,      \* the events of the audit file that are ever looked for
    torn,       \* whether the audit file holds part of a line
    up,         \* processes that have a vault object
    custodyOp,  \* the operation under way
    faults,     \* exceptions and deaths so far
    replaces,   \* history: the reference each replacement was made for
    offboarded  \* history: references whose offboarding returned a receipt

rotations == <<journals, strays>>
auditFile == <<audit, torn>>
disk == <<record, blob, rotations, runtime, auditFile>>
world == <<lapsed, up, faults>>
past == <<replaces, offboarded>>
custodyVars == <<disk, world, custodyOp, past>>

Nobody == "nobody"
NoRef == "none"
\* Neither is the name of a process or of a credential.
ASSUME NamesAssumption == Nobody \notin Procs /\ NoRef \notin Refs

CredentialStatuses == {"absent", "active", "revoked", "destroyed"}
Tasks == {"start", "get", "store", "materialize", "release", "revoke", "rotate",
          "offboard"}
Rotation == [old : Refs, new : Refs]
Events == [what : {"rotated", "offboarded"}, ref : Refs]
NoFiles == [ref |-> NoRef, owner |-> Nobody, lease |-> FALSE, key |-> FALSE]
NoOp == [by |-> Nobody, task |-> "get", step |-> "done", ref |-> NoRef,
         new |-> NoRef, token |-> NoRef, recovering |-> FALSE]

\* VaultCredentialRecord.status, without the dates.
StatusOf(r) ==
    IF record[r] = "active" /\ r \in lapsed THEN "expired" ELSE record[r]

CustodyInit ==
    /\ record = [r \in Refs |-> "absent"]
    /\ blob = {} /\ lapsed = {}
    /\ journals = {} /\ strays = FALSE
    /\ runtime = [t \in Tokens |-> NoFiles]
    /\ audit = {} /\ torn = FALSE
    /\ up = {} /\ custodyOp = NoOp /\ faults = 0
    /\ replaces = [r \in Refs |-> NoRef]
    /\ offboarded = {}

Free == custodyOp.by = Nobody
OpAt(step) == custodyOp.by # Nobody /\ custodyOp.step = step
OpGo(step) == custodyOp' = [custodyOp EXCEPT !.step = step]
Return == custodyOp' = NoOp

-----------------------------------------------------------------------------
(* Taking the lock *)

\* A new vault object only sweeps; every other operation first completes the
\* rotations that were cut short.
StartVault(p) ==
    /\ Free /\ p \notin up
    /\ custodyOp' = [NoOp EXCEPT !.by = p, !.task = "start", !.step = "sweep"]
    /\ UNCHANGED <<disk, world, past>>

\* Mutant: only operations that write complete the rotations first.
BeginUnrecovered(p, task, r) ==
    /\ Free /\ p \in up
    /\ task = "store" => replaces[r] = NoRef
    /\ custodyOp' = [NoOp EXCEPT !.by = p, !.task = task, !.ref = r,
               !.step = IF task = "materialize" THEN "sweep" ELSE "recover"]
    /\ UNCHANGED <<disk, world, past>>

\* Generated references are fresh: a store never takes one of a rotation.
BeginOperation(p, task, r) ==
    /\ Free /\ p \in up
    /\ task = "store" => replaces[r] = NoRef
    /\ custodyOp' = [NoOp EXCEPT !.by = p, !.task = task, !.ref = r, !.step = "recover"]
    /\ UNCHANGED <<disk, world, past>>

BeginRelease(p, t) ==
    /\ Free /\ p \in up
    /\ runtime[t].owner = p /\ runtime[t].key
    /\ custodyOp' = [NoOp EXCEPT !.by = p, !.task = "release", !.step = "recover", !.token = t]
    /\ UNCHANGED <<disk, world, past>>

\* The operation raises: the lock is freed and nothing is undone.
Raise ==
    /\ Return
    /\ UNCHANGED <<disk, world, past>>

FirstStep == [get |-> "return", store |-> "reserve", materialize |-> "sweep",
              release |-> "unkey", revoke |-> "revoke", rotate |-> "journal",
              offboard |-> "destroy"]

-----------------------------------------------------------------------------
(* _recover_pending_rotations_unlocked *)

\* Whether a journal agrees with what is on disk, once its blob is there.
Completable(j) ==
    /\ record[j.old] \in {"active", "revoked"}
    /\ record[j.new] \in {"absent", "active"}

Recovered ==
    /\ OpAt("recover") /\ ~strays /\ journals = {}
    /\ custodyOp' = [custodyOp EXCEPT !.step = FirstStep[custodyOp.task], !.new = NoRef,
                        !.recovering = FALSE]
    /\ UNCHANGED <<disk, world, past>>

\* A journal without its blob is dropped, one with it is completed.
RecoverRotation(j) ==
    /\ OpAt("recover") /\ ~strays /\ j \in journals
    /\ \/ /\ j.new \notin blob
          /\ record[j.new] = "absent" /\ record[j.old] = "active"
          /\ custodyOp' = [custodyOp EXCEPT !.step = "unjournal", !.new = j.new,
                                                !.recovering = TRUE]
       \/ /\ j.new \in blob /\ Completable(j)
          /\ custodyOp' = [custodyOp EXCEPT !.step = "replacement", !.new = j.new,
                                                !.recovering = TRUE]
    /\ UNCHANGED <<disk, world, past>>

RecoveryRefused ==
    /\ OpAt("recover")
    /\ \/ strays
       \/ \E j \in journals :
             IF j.new \in blob THEN ~Completable(j)
                               ELSE record[j.new] # "absent" \/ record[j.old] # "active"
    /\ Raise

-----------------------------------------------------------------------------
(* rotate, whose last steps are also those of recovery *)

TheRotation == [old |-> replaces[custodyOp.new], new |-> custodyOp.new]

WriteJournal(new) ==
    /\ OpAt("journal")
    /\ StatusOf(custodyOp.ref) = "active"
    /\ record[new] = "absent" /\ new \notin blob \cup {custodyOp.ref} /\ replaces[new] = NoRef
    /\ journals' = journals \cup {[old |-> custodyOp.ref, new |-> new]}
    /\ replaces' = [replaces EXCEPT ![new] = custodyOp.ref]
    /\ custodyOp' = [custodyOp EXCEPT !.step = "blob", !.new = new]
    /\ UNCHANGED <<record, blob, strays, runtime, auditFile, world, offboarded>>

RotationRefused ==
    /\ OpAt("journal") /\ StatusOf(custodyOp.ref) # "active"
    /\ Raise

WriteReplacementBlob ==
    /\ OpAt("blob") /\ custodyOp.task = "rotate"
    /\ blob' = blob \cup {custodyOp.new}
    /\ OpGo("replacement")
    /\ UNCHANGED <<record, rotations, runtime, auditFile, world, past>>

WriteReplacement ==
    /\ OpAt("replacement")
    /\ record' = [record EXCEPT ![custodyOp.new] = "active"]
    /\ OpGo("retire")
    /\ UNCHANGED <<blob, rotations, runtime, auditFile, world, past>>

\* Mutant: a rotation that is recovered leaves its source as it is.
LeaveSource ==
    /\ OpAt("retire")
    /\ record' = IF custodyOp.recovering THEN record
                 ELSE [record EXCEPT ![replaces[custodyOp.new]] = "revoked"]
    /\ OpGo("audit")
    /\ UNCHANGED <<blob, rotations, runtime, auditFile, world, past>>

RetireSource ==
    /\ OpAt("retire")
    /\ record' = [record EXCEPT ![replaces[custodyOp.new]] = "revoked"]
    /\ OpGo("audit")
    /\ UNCHANGED <<blob, rotations, runtime, auditFile, world, past>>

RemoveJournal ==
    /\ OpAt("unjournal")
    /\ journals' = journals \ {TheRotation}
    /\ IF custodyOp.recovering THEN OpGo("recover") ELSE Return
    /\ UNCHANGED <<record, blob, strays, runtime, auditFile, world, past>>

-----------------------------------------------------------------------------
(* The audit file *)

TheEvent ==
    IF custodyOp.recovering \/ custodyOp.task = "rotate"
    THEN [what |-> "rotated", ref |-> custodyOp.new]
    ELSE [what |-> CASE custodyOp.task = "store" -> "created"
                     [] custodyOp.task = "revoke" -> "revoked"
                     [] OTHER -> "offboarded",
          ref |-> custodyOp.ref]
\* Only operations with an identifier of their own look for their event first.
LooksFirst == TheEvent.what \in {"rotated", "offboarded"}

\* A line appended after part of a line is part of it.
AppendAudit ==
    /\ OpAt("audit")
    /\ LooksFirst => ~torn \/ TheEvent \in audit
    /\ audit' = IF torn \/ ~LooksFirst THEN audit ELSE audit \cup {TheEvent}
    /\ IF TheEvent.what = "rotated" THEN OpGo("unjournal") ELSE Return
    /\ offboarded' = IF TheEvent.what = "offboarded" THEN offboarded \cup {custodyOp.ref}
                     ELSE offboarded
    /\ UNCHANGED <<record, blob, rotations, runtime, torn, world, replaces>>

\* _audit_event_exists_unlocked stops at the first line it cannot parse.
AuditUnreadable ==
    /\ OpAt("audit") /\ LooksFirst /\ torn /\ TheEvent \notin audit
    /\ Raise

-----------------------------------------------------------------------------
(* get, store_private_key, revoke *)

ReturnRecord == OpAt("return") /\ Raise

ReserveReference ==
    /\ OpAt("reserve")
    /\ IF record[custodyOp.ref] # "absent" \/ custodyOp.ref \in blob THEN Return ELSE OpGo("blob")
    /\ UNCHANGED <<disk, world, past>>

WriteNewBlob ==
    /\ OpAt("blob") /\ custodyOp.task = "store"
    /\ blob' = blob \cup {custodyOp.ref}
    /\ OpGo("record")
    /\ UNCHANGED <<record, rotations, runtime, auditFile, world, past>>

WriteNewRecord ==
    /\ OpAt("record")
    /\ record' = [record EXCEPT ![custodyOp.ref] = "active"]
    /\ OpGo("audit")
    /\ UNCHANGED <<blob, rotations, runtime, auditFile, world, past>>

\* A revoked credential may be revoked again; its runtime files stay.
RevokeRecord ==
    /\ OpAt("revoke")
    /\ IF record[custodyOp.ref] \in {"absent", "destroyed"}
         THEN Return /\ UNCHANGED record
         ELSE record' = [record EXCEPT ![custodyOp.ref] = "revoked"] /\ OpGo("audit")
    /\ UNCHANGED <<blob, rotations, runtime, auditFile, world, past>>

-----------------------------------------------------------------------------
(* offboard *)

\* Mutant: a credential that was already destroyed is only audited.
AuditDestroyed ==
    /\ OpAt("destroy")
    /\ IF record[custodyOp.ref] = "absent" THEN Return /\ UNCHANGED record
       ELSE /\ record' = [record EXCEPT ![custodyOp.ref] = "destroyed"]
            /\ OpGo(IF record[custodyOp.ref] = "destroyed" THEN "audit" ELSE "unblob")
    /\ UNCHANGED <<blob, rotations, runtime, auditFile, world, past>>

\* A destroyed credential may be offboarded again, to finish what was cut short.
DestroyRecord ==
    /\ OpAt("destroy")
    /\ IF record[custodyOp.ref] = "absent"
         THEN Return /\ UNCHANGED record
         ELSE record' = [record EXCEPT ![custodyOp.ref] = "destroyed"] /\ OpGo("unblob")
    /\ UNCHANGED <<blob, rotations, runtime, auditFile, world, past>>

RemoveBlob ==
    /\ OpAt("unblob")
    /\ blob' = blob \ {custodyOp.ref}
    /\ OpGo("unruntime")
    /\ UNCHANGED <<record, rotations, runtime, auditFile, world, past>>

-----------------------------------------------------------------------------
(* Runtime files: _recover_stale_runtime..., materialize, release *)

HasFiles(t) == runtime[t].lease \/ runtime[t].key
Dropped(f, part) ==
    LET g == [f EXCEPT ![part] = FALSE] IN IF g.lease \/ g.key THEN g ELSE NoFiles

\* One without the other, or leased to a process that is gone.
Stale(t) ==
    /\ HasFiles(t)
    /\ ~(runtime[t].lease /\ runtime[t].key) \/ runtime[t].owner = Nobody

SweepEntry(t) ==
    /\ OpAt("sweep") /\ Stale(t)
    /\ runtime' = [runtime EXCEPT ![t] = Dropped(@, IF @.key THEN "key" ELSE "lease")]
    /\ UNCHANGED <<record, blob, rotations, auditFile, world, custodyOp, past>>

Swept ==
    /\ OpAt("sweep") /\ \A t \in Tokens : ~Stale(t)
    /\ IF custodyOp.task = "start" THEN Return /\ up' = up \cup {custodyOp.by}
                            ELSE OpGo("lease") /\ UNCHANGED up
    /\ UNCHANGED <<disk, lapsed, faults, past>>

WriteLease(t) ==
    /\ OpAt("lease") /\ StatusOf(custodyOp.ref) = "active" /\ custodyOp.ref \in blob
    /\ ~HasFiles(t)
    /\ runtime' = [runtime EXCEPT ![t] = [ref |-> custodyOp.ref, owner |-> custodyOp.by,
                                          lease |-> TRUE, key |-> FALSE]]
    /\ custodyOp' = [custodyOp EXCEPT !.step = "key", !.token = t]
    /\ UNCHANGED <<record, blob, rotations, auditFile, world, past>>

MaterializeRefused ==
    /\ OpAt("lease") /\ (StatusOf(custodyOp.ref) # "active" \/ custodyOp.ref \notin blob)
    /\ Raise

WriteKey ==
    /\ OpAt("key")
    /\ runtime' = [runtime EXCEPT ![custodyOp.token].key = TRUE]
    /\ Return
    /\ UNCHANGED <<record, blob, rotations, auditFile, world, past>>

\* The identity may have been removed by an offboarding in the meantime.
ReleaseKey ==
    /\ OpAt("unkey")
    /\ runtime' = [runtime EXCEPT ![custodyOp.token] = Dropped(@, "key")]
    /\ OpGo("unlease")
    /\ UNCHANGED <<record, blob, rotations, auditFile, world, past>>

ReleaseLease ==
    /\ OpAt("unlease")
    /\ runtime' = [runtime EXCEPT ![custodyOp.token] = Dropped(@, "lease")]
    /\ Return
    /\ UNCHANGED <<record, blob, rotations, auditFile, world, past>>

\* offboard removes the files of every process, leased or not.
RemoveRuntimeEntry(t) ==
    /\ OpAt("unruntime") /\ HasFiles(t) /\ runtime[t].ref = custodyOp.ref
    /\ runtime' = [runtime EXCEPT ![t] = Dropped(@, IF @.key THEN "key" ELSE "lease")]
    /\ UNCHANGED <<record, blob, rotations, auditFile, world, custodyOp, past>>

RuntimeRemoved ==
    /\ OpAt("unruntime") /\ \A t \in Tokens : runtime[t].ref # custodyOp.ref
    /\ OpGo("audit")
    /\ UNCHANGED <<disk, world, past>>

-----------------------------------------------------------------------------
(* Faults and time *)

WriteSteps == {"journal", "blob", "replacement", "retire", "audit", "unjournal", "record",
               "revoke", "destroy", "unblob", "unruntime", "lease", "key", "unkey",
               "unlease", "sweep"}

\* What an append that is cut short may leave of its line.
MaybeTorn == IF OpAt("audit") THEN {torn, TRUE} ELSE {torn}

\* A file operation raises before it took effect; one that raises afterwards,
\* from the directory's fsync, shows as the next step failing.  Two callers
\* clean up: a store removes its blob, even from under a record that is in
\* place after all, and materialize removes what it has written.
FileCallFails ==
    /\ faults < MaxFaults /\ custodyOp.by # Nobody /\ custodyOp.step \in WriteSteps
    /\ faults' = faults + 1
    /\ Return
    /\ torn' \in MaybeTorn
    /\ IF OpAt("record")
         THEN /\ blob' = blob \ {custodyOp.ref}
              /\ record' \in {record, [record EXCEPT ![custodyOp.ref] = "active"]}
         ELSE UNCHANGED <<blob, record>>
    /\ runtime' = IF OpAt("key") THEN [runtime EXCEPT ![custodyOp.token] = NoFiles] ELSE runtime
    /\ UNCHANGED <<rotations, audit, lapsed, up, past>>

\* The lock is freed, the process's leases are void, and what it was writing
\* may be left: a temporary file, or part of an audit line.
VaultProcessDies(p) ==
    /\ faults < MaxFaults /\ p \in up \cup {custodyOp.by}
    /\ faults' = faults + 1
    /\ up' = up \ {p}
    /\ runtime' = [t \in Tokens |-> IF runtime[t].owner = p
                                     THEN [runtime[t] EXCEPT !.owner = Nobody]
                                     ELSE runtime[t]]
    /\ IF custodyOp.by = p
         THEN /\ Return /\ torn' \in MaybeTorn
              /\ strays' \in IF OpAt("journal") THEN {strays, TRUE} ELSE {strays}
         ELSE UNCHANGED <<custodyOp, torn, strays>>
    /\ UNCHANGED <<record, blob, journals, audit, lapsed, past>>

CredentialExpires(r) ==
    /\ record[r] = "active" /\ lapsed' = lapsed \cup {r}
    /\ UNCHANGED <<disk, up, faults, custodyOp, past>>

-----------------------------------------------------------------------------
CustodyNext ==
    \/ \E p \in Procs : StartVault(p) \/ VaultProcessDies(p)
    \/ \E p \in Procs, r \in Refs, task \in Tasks \ {"start", "release"} :
           BeginOperation(p, task, r)
    \/ \E p \in Procs, t \in Tokens : BeginRelease(p, t)
    \/ Recovered \/ RecoveryRefused
    \/ \E j \in journals : RecoverRotation(j)
    \/ \E r \in Refs : WriteJournal(r) \/ CredentialExpires(r)
    \/ RotationRefused \/ WriteReplacementBlob \/ WriteReplacement
    \/ RetireSource \/ RemoveJournal
    \/ AppendAudit \/ AuditUnreadable
    \/ ReturnRecord \/ ReserveReference \/ WriteNewBlob \/ WriteNewRecord
    \/ RevokeRecord \/ DestroyRecord \/ RemoveBlob \/ RuntimeRemoved
    \/ \E t \in Tokens : SweepEntry(t) \/ WriteLease(t) \/ RemoveRuntimeEntry(t)
    \/ Swept \/ MaterializeRefused \/ WriteKey
    \/ ReleaseKey \/ ReleaseLease
    \/ FileCallFails

CustodySpec == CustodyInit /\ [][CustodyNext]_custodyVars

-----------------------------------------------------------------------------
(* Properties *)

\* Records, blobs and runtime files have their shapes, and what is under way
\* belongs to a process: each file the code writes at its path.
CustodyTypeOK ==
    /\ record \in [Refs -> CredentialStatuses] /\ blob \subseteq Refs /\ lapsed \subseteq Refs
    /\ journals \subseteq Rotation /\ {strays, torn} \subseteq BOOLEAN
    /\ runtime \in [Tokens -> [ref : Refs \cup {NoRef}, owner : Procs \cup {Nobody},
                               lease : BOOLEAN, key : BOOLEAN]]
    /\ audit \subseteq Events /\ up \subseteq Procs /\ faults \in 0..MaxFaults
    /\ custodyOp.by \in Procs \cup {Nobody} /\ custodyOp.task \in Tasks
    /\ replaces \in [Refs -> Refs \cup {NoRef}] /\ offboarded \subseteq Refs

\* rotate and its recovery, cut short anywhere and any number of times: a
\* replacement that has been published is either still in a journal, or its
\* source is out of use and the rotation is in the audit file.
RotationSettles ==
    \A r \in Refs :
        replaces[r] # NoRef /\ record[r] # "absent" =>
            \/ [old |-> replaces[r], new |-> r] \in journals
            \/ /\ record[replaces[r]] \in {"revoked", "destroyed"}
               /\ [what |-> "rotated", ref |-> r] \in audit

\* offboard, also when it completes one that was cut short: once a receipt has
\* been returned nothing is left of the key here, in any process, or comes back.
OffboardedLeavesNothing ==
    \A r \in offboarded :
        /\ record[r] = "destroyed" /\ r \notin blob
        /\ \A t \in Tokens : runtime[t].ref # r
        /\ [what |-> "offboarded", ref |-> r] \in audit

\* materialize: no key file appears for a credential that is not active, or
\* that a rotation under way or cut short is about to retire.
KeysAreOfActiveCredentials ==
    [][\A t \in Tokens : ~runtime[t].key /\ runtime'[t].key =>
          /\ record[runtime'[t].ref] = "active"
          /\ \A j \in journals : runtime'[t].ref # j.old]_custodyVars
=============================================================================
