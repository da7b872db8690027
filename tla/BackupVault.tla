---------------------------- MODULE BackupVault ----------------------------
(***************************************************************************)
(* Backups (appcare/backups): coordinators that create, delete and restore *)
(* one backup in a filesystem vault (pipeline.py, stores.py), each in a    *)
(* process of its own that may die.                                        *)
(*                                                                         *)
(* The vault keeps a backup in three files made with O_EXCL: the manifest, *)
(* in a directory of its own, and the envelope and the digest, in the      *)
(* backup's directory.  Every file operation is a step.  Each attempt      *)
(* encrypts with a fresh nonce, so no two attempts have the same digest    *)
(* and a file is known by the attempt it belongs to.                       *)
(***************************************************************************)
EXTENDS Naturals, FiniteSets

CONSTANTS Hosts,        \* processes with a coordinator and a vault object
          Deleters,     \* those of them that delete backups: one at most
          Keys,         \* idempotency keys of requests for the backup
          Components,   \* what the source's snapshot consists of
          MaxAttempts   \* bound on the artifacts that are built

ASSUME DeletersAssumption == Deleters \subseteq Hosts /\ \A g, h \in Deleters : g = h
ASSUME MaxAttemptsAssumption == MaxAttempts \in Nat

VARIABLES
    folder,    \* whether the backup's directory exists
    file,      \* whose each vault file is: an attempt, None or Junk
    memory,    \* whether each vault object remembers a backup of this name
    outcomes,  \* keys each coordinator has an outcome for
    job,       \* the call each process is in
    attempts,  \* artifacts built so far
    expired,   \* attempts whose retention has ended
    verified,  \* attempts that were reported healthy
    deleted,   \* attempts that a delete has begun to remove
    staging,   \* the restore's staging directory
    restored   \* the restore's destination

vaultVars == <<folder, file, memory, outcomes, job, attempts, expired,
               verified, deleted, staging, restored>>
vaultFiles == <<folder, file>>
restoreDirs == <<staging, restored>>
history == <<attempts, expired, verified, deleted>>

None == 0
Junk == MaxAttempts + 1
Attempts == 1..MaxAttempts
Files == {"manifest", "envelope", "digest"}
Directory == [exists : BOOLEAN, parts : [Components -> Attempts \cup {None}]]
Empty(made) == [exists |-> made, parts |-> [c \in Components |-> None]]

JobSteps == {"idle", "put", "mkdir", "manifest", "envelope", "digest", "read",
             "unlink", "rmdir", "stage", "components", "promote"}
NoJob == [at |-> "idle", attempt |-> None]

\* What is read back verifies only if all three files are of one attempt.
Intact(a) == folder /\ \A f \in Files : file[f] = a
\* What can be parsed: a digest that is cut short still can.
Readable ==
    /\ folder /\ file["digest"] # None
    /\ {file["manifest"], file["envelope"]} \cap {None, Junk} = {}

VaultInit ==
    /\ folder = FALSE
    /\ file = [f \in Files |-> None]
    /\ memory = [h \in Hosts |-> FALSE]
    /\ outcomes = [h \in Hosts |-> {}]
    /\ job = [h \in Hosts |-> NoJob]
    /\ attempts = 0
    /\ expired = {} /\ verified = {} /\ deleted = {}
    /\ staging = Empty(FALSE)
    /\ restored = Empty(FALSE)

At(h, step) == job[h].at = step
Step(h, step) == job' = [job EXCEPT ![h].at = step]
Done(h) == job' = [job EXCEPT ![h] = NoJob]

-----------------------------------------------------------------------------
(* create_backup *)

\* A key that has an outcome, failed or not, is a duplicate.  A process is in
\* one call at a time, so the outcome may be kept when the call begins.
CreateBackup(h, k) ==
    /\ At(h, "idle") /\ k \notin outcomes[h]
    /\ outcomes' = [outcomes EXCEPT ![h] = @ \cup {k}]
    /\ \/ /\ attempts < MaxAttempts
          /\ attempts' = attempts + 1
          /\ job' = [job EXCEPT ![h] = [at |-> "put", attempt |-> attempts + 1]]
       \/ UNCHANGED <<attempts, job>>     \* the snapshot or encryption fails
    /\ UNCHANGED <<vaultFiles, memory, expired, verified, deleted, restoreDirs>>

\* put: anything that is there already is another attempt's, or unreadable.
PutArtifact(h) ==
    /\ At(h, "put")
    /\ IF folder \/ file["manifest"] # None THEN Done(h) ELSE Step(h, "mkdir")
    /\ UNCHANGED <<vaultFiles, memory, outcomes, history, restoreDirs>>

\* The directory is made before the vault object's memory is consulted.
MakeBackupDirectory(h) ==
    /\ At(h, "mkdir")
    /\ folder' = TRUE
    /\ memory' = [memory EXCEPT ![h] = TRUE]
    /\ IF memory[h] THEN Done(h) ELSE Step(h, "manifest")
    /\ UNCHANGED <<file, outcomes, history, restoreDirs>>

FileAfter == [manifest |-> "envelope", envelope |-> "digest", digest |-> "read"]

\* Mutant: an existing file is opened and overwritten.
OverwriteFile(h, f) ==
    /\ At(h, f)
    /\ f # "manifest" => folder
    /\ file' = [file EXCEPT ![f] = job[h].attempt]
    /\ Step(h, FileAfter[f])
    /\ UNCHANGED <<folder, memory, outcomes, history, restoreDirs>>

\* O_EXCL: a file that exists is an error, and so is a directory that is gone;
\* a write that fails or a process that dies here leaves part of a file.
WritePrivate(h, f) ==
    /\ At(h, f)
    /\ IF file[f] # None \/ (f # "manifest" /\ ~folder)
         THEN Done(h) /\ UNCHANGED file
         ELSE \/ /\ file' = [file EXCEPT ![f] = job[h].attempt]
                 /\ Step(h, FileAfter[f])
              \/ file' = [file EXCEPT ![f] = Junk] /\ Done(h)
    /\ UNCHANGED <<folder, memory, outcomes, history, restoreDirs>>

\* The stored artifact is read back, verified, and compared with the receipt.
ReadBack(h) ==
    /\ At(h, "read")
    /\ verified' = IF Intact(job[h].attempt) THEN verified \cup {job[h].attempt} ELSE verified
    /\ Done(h)
    /\ UNCHANGED <<vaultFiles, memory, outcomes, attempts, expired, deleted, restoreDirs>>

-----------------------------------------------------------------------------
(* delete *)

\* The retention is the one the manifest states.
DeleteBackup(h) ==
    /\ h \in Deleters /\ At(h, "idle") /\ Readable
    /\ file["manifest"] \in expired
    /\ Step(h, "unlink")
    /\ deleted' = deleted \cup {file["manifest"]}
    /\ UNCHANGED <<vaultFiles, memory, outcomes, attempts, expired, verified, restoreDirs>>

\* The snapshot files in any order, then the manifest.
UnlinkFile(h, f) ==
    /\ At(h, "unlink")
    /\ file[f] # None
    /\ f = "manifest" => file["envelope"] = None /\ file["digest"] = None
    /\ file' = [file EXCEPT ![f] = None]
    /\ IF f = "manifest" THEN Step(h, "rmdir") ELSE UNCHANGED job
    /\ UNCHANGED <<folder, memory, outcomes, history, restoreDirs>>

\* rmdir fails if a file was put there meanwhile.
RemoveDirectory(h) ==
    /\ At(h, "rmdir")
    /\ folder' = (folder /\ (file["envelope"] # None \/ file["digest"] # None))
    /\ Done(h)
    /\ UNCHANGED <<file, memory, outcomes, history, restoreDirs>>

-----------------------------------------------------------------------------
(* restore_backup, into one target *)

\* The artifact is verified in memory, and the destination must not exist.
RestoreBackup(h) ==
    /\ At(h, "idle") /\ ~restored.exists
    /\ \E a \in Attempts :
          /\ Intact(a)
          /\ job' = [job EXCEPT ![h] = [at |-> "stage", attempt |-> a]]
    /\ UNCHANGED <<vaultFiles, memory, outcomes, history, restoreDirs>>

\* Mutant: a staging directory that exists is used.
StageAnyway(h) ==
    /\ At(h, "stage")
    /\ staging' = IF staging.exists THEN staging ELSE Empty(TRUE)
    /\ Step(h, "components")
    /\ UNCHANGED <<vaultFiles, memory, outcomes, history, restored>>

\* A staging directory that exists, another restore's or a dead one's, fails
\* the restore and is left alone.
MakeStaging(h) ==
    /\ At(h, "stage")
    /\ IF staging.exists
         THEN Done(h) /\ UNCHANGED staging
         ELSE /\ staging' = Empty(TRUE)
              /\ Step(h, "components")
    /\ UNCHANGED <<vaultFiles, memory, outcomes, history, restored>>

CleanUp(h) == staging' = Empty(FALSE) /\ Done(h)

\* A component that cannot be written fails the restore.
WriteComponent(h) ==
    /\ At(h, "components")
    /\ LET left == {c \in Components : staging.parts[c] # job[h].attempt}
       IN  \/ /\ \E c \in left : staging' = [staging EXCEPT !.parts[c] = job[h].attempt]
              /\ UNCHANGED job
           \/ left = {} /\ Step(h, "promote") /\ UNCHANGED staging
           \/ CleanUp(h)
    /\ UNCHANGED <<vaultFiles, memory, outcomes, history, restored>>

\* A rename cannot replace a directory that is not empty.
Promote(h) ==
    /\ At(h, "promote")
    /\ \/ /\ ~restored.exists
          /\ restored' = staging /\ staging' = Empty(FALSE) /\ Done(h)
       \/ CleanUp(h) /\ UNCHANGED restored
    /\ UNCHANGED <<vaultFiles, memory, outcomes, history>>

-----------------------------------------------------------------------------
(* The environment *)

RetentionEnds(a) ==
    /\ a \in 1..attempts /\ expired' = expired \cup {a}
    /\ UNCHANGED <<vaultFiles, memory, outcomes, job, attempts, verified, deleted, restoreDirs>>

\* A new process has a new coordinator and a new vault object.
HostRestarts(h) ==
    /\ job' = [job EXCEPT ![h] = NoJob]
    /\ memory' = [memory EXCEPT ![h] = FALSE]
    /\ outcomes' = [outcomes EXCEPT ![h] = {}]
    /\ UNCHANGED <<vaultFiles, history, restoreDirs>>

VaultStep(h) ==
    \/ \E k \in Keys : CreateBackup(h, k)
    \/ PutArtifact(h) \/ MakeBackupDirectory(h) \/ ReadBack(h)
    \/ \E f \in Files : WritePrivate(h, f) \/ UnlinkFile(h, f)
    \/ DeleteBackup(h) \/ RemoveDirectory(h)
    \/ RestoreBackup(h) \/ MakeStaging(h) \/ WriteComponent(h) \/ Promote(h)

VaultNext ==
    \/ \E h \in Hosts : VaultStep(h) \/ HostRestarts(h)
    \/ \E a \in Attempts : RetentionEnds(a)

VaultSpec == VaultInit /\ [][VaultNext]_vaultVars

-----------------------------------------------------------------------------
(* Properties *)

\* Every variable has its type.
VaultTypeOK ==
    /\ folder \in BOOLEAN
    /\ file \in [Files -> Attempts \cup {None, Junk}]
    /\ memory \in [Hosts -> BOOLEAN]
    /\ outcomes \in [Hosts -> SUBSET Keys]
    /\ job \in [Hosts -> [at : JobSteps, attempt : Attempts \cup {None}]]
    /\ attempts \in 0..MaxAttempts
    /\ {expired, verified, deleted} \subseteq SUBSET Attempts
    /\ {staging, restored} \subseteq Directory

\* A backup that was reported healthy stays in the vault, whole and of one
\* attempt, whatever other processes attempt or die in the middle of, until its
\* retention has ended and it is deleted.
VerifiedBackupIsKept ==
    \A a \in verified : Intact(a) \/ (a \in deleted /\ a \in expired)

\* What a restore promotes is every component of an artifact that verified,
\* and all of one artifact.
RestoreIsWhole ==
    restored.exists => \E a \in Attempts : \A c \in Components : restored.parts[c] = a
=============================================================================
