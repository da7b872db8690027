# AppCare: TLA+ specifications

This directory specifies, model-checks and proves the parts of AppCare whose
correctness depends on the order in which things happen: controllers, workers
and operators that share durable stores, call external providers, crash and
start again. It is written from the code under `src/appcare` and one script under
`src/scripts`; the docs are only used to say what the code is expected to do.

## The system

AppCare looks after customer applications. A workflow takes a job from intake
over inventory, backup, scans, policy and remediation to a controlled
deployment; a deployment controller carries one immutable intent through
approval, deployment, verification and rollback; monitoring, backups,
connectors, vaults and readiness evidence surround them. All of them are
synchronous Python over SQLAlchemy sessions or files. Concurrency comes from
several processes (API workers, graph workers, operators' commands) on one
database, failure from crashes between transactions and from providers that
raise.

| Part (source) | State it keeps | Operations | What is hard | What makes it correct |
|---|---|---|---|---|
| Deployment controller (`deployment/state_machine.py`) | record per intent with its audit evidence; cached stop latch and revocations | `submit`, `approve`, `execute`, `emergency_stop`, `revoke_credential` | two controllers on one intent, crash between saves, stale caches, a provider that raises or answers for something else | the trail accounts for the status, success is earned, terminal is final, deploy is authorised and happens once |
| Deployment stores (`deployment/persistence.py`, `preproduction.py`) | record rows, evidence rows, control settings, pre-production evidence | `save`, `get`, `resolve` | overlapping transactions, conflict of evidence | append-only evidence, unique keys |
| Reference provider (`deployment/reference.py`) | releases, current and previous link, process | `deploy`, `verify`, `rollback`, `recover_current` | crash between switch and restart | the running release is the one reported |
| Workflow graph and ledger (`workflows/`) | checkpoint, ledger rows, transitions, evidence | `invoke` with an event, resume, approval; `run_action`, `record_transition` | duplicate delivery, crash between ledger and checkpoint, lock and retry | no settled action runs twice, retries are bounded, deploy is authorised, a failed verification rolls back |
| Monitoring (`monitoring/`) | incidents, observations and usage in memory; one append-only event table | `observe`, `record_usage`, `monthly_report`, rebuild from the table | memory changes before the append, sequence read and then checked, restart, suppression windows, two engines | an engine rebuilt from the table decides as the one in memory would |
| Backups (`backups/`) | operations by idempotency key, vault objects | `create_backup`, `restore_backup`, `put`, `get`, `delete` | partial writes, failed step of several, retry under one key | only verified backups are reported, restore is isolated |
| Control plane (`services/`) | jobs, audit chain | `transition_job`, `append_event` | unlocked read then write | one unbroken chain, terminal jobs stay terminal |
| Remediation (`remediation/`) | workspace of a job, patches, validations, gate summary, previews, approval requests | `build`, `validate`, `apply_patch_atomically`, gates, preview, `request`, `decide` | several files replaced one by one, a failing step, code in gates that edits the workspace, another tenant's decision | a patch is applied whole or undone, an approval rests on a validated patch and a reviewed preview |
| Credential vault (`connectors/credential_vault.py`) | encrypted blobs, records, rotation journals, runtime leases and keys, audit file | `store`, `materialize`, `release`, `rotate`, `revoke`, `offboard`, recovery on start and in operations | death or exception between any two file writes | a rotation completes or leaves no trace, an offboarded key is gone, keys appear only for active credentials |
| Database adapters (`database/`) | operation ledger, registry of restore targets, staging directory of a job, databases | dump, restore, restart recovery, registration | claim and completion in different transactions, a tool that outlives its worker, a staging directory shared by dumps | an operation runs once, its outcome is true, restores never overlap |
| Revision capture and mirror (`revision/`) | revision manifests, claim file, staging directory, sealed mirror | capture of a revision, capture of a mirror, verification, clean-ups | the source changes during a capture, captures race, a claim is removed twice | a mirror holds exactly its revision and no secret, a returned mirror stands |
| Connectors and attestation (`connectors/`, `inventory/`) | operation ledger, known-hosts file, receipts, attestor's replay ledger, trusted evidence | `collect_inventory`, sealing, `attest` | retries and two processes under one id, a client that dies, stale evidence | an operation runs once, an inventory is of one attempt, a receipt is signed once |
| Readiness and release gates (`readiness/`, `release/`) | decisions, rows by digest, downgrades | `evaluate`, `approve`, `apply_downgrade`, `save_*`; the release gate is a pure check | rows that are never overwritten, approvals and downgrades of another decision | a level that is served as ready was earned for its candidate |
| Scanning (`scanning/`) | none between calls | run scanners, canonicalise | a scanner that fails | a failure is never a finding |
| Direct worker (`src/scripts/direct_deepseek_worker.py`) | state directory: requests, consumed runs, results; lock file | `request`, `apply` | a lock that is never waited for, clean-up and publication after its release, deaths | an answer is applied once, what is published as passed is whole |
| Auth, dashboard, routes, other scripts | sessions, views | requests | none specific to ordering | - |

## Modules

| Module | What it is |
|---|---|
| `DeploymentLifecycle` | the abstract promise of a deployment intent: statuses, edges, one audited move at a time |
| `Deployment` | the controllers, the durable store, the provider's answers, operators, crashes |
| `DeploymentProofs` | theorems about `Deployment` |
| `MCDeployment` | instances of `Deployment` for TLC |
| `Workflow` | the graph, the action ledger, the trail, the checkpoint, workers and operators |
| `WorkflowProofs` | theorems about `Workflow` |
| `MCWorkflow` | the instance of `Workflow` for TLC |
| `ReferenceProvider` | the filesystem provider: releases, links, the service, processes that die |
| `BackupVault` | backup coordinators and the filesystem vault they share |
| `MCStores` | the instances of the two for TLC |
| `StoresProofs` | theorems about the two and about their composition in `MCStores` |
| `CredentialVault` | the vault's files, its lock, operations cut short, recovery |
| `DatabaseOperations` | dumps and restores, their ledger, targets, staging and tools |
| `Readiness` | evaluation, approval, downgrade and the rows that are served |
| `SourceMirror` | captures of revisions and mirrors of a source that changes |
| `Monitoring` | engines, their memory and the event table they are rebuilt from |
| `DirectWorker` | the two commands of the direct worker over one state directory |
| `LinuxSsh` | collection of inventories over SSH, and the attestor |
| `Remediation` | patches, workspaces, gates, previews and approvals |
| `MCServices` | the instances of these eight for TLC, one at a time |
| `CredentialVaultProofs`, `DatabaseOperationsProofs`, `MonitoringProofs` | theorems about each |
| `ReleaseProofs` | theorems about `SourceMirror`, `Remediation` and `Readiness` |
| `ServicesProofs` | theorems about `DirectWorker` and `LinuxSsh`, and about the composition in `MCServices` |

### Deployment

`row[i]` is the `DeploymentRecord` of intent `i` with its evidence rows;
`stop`, `revoked` and `preprod` are the control settings and the
pre-production evidence table; `cache[c]` is what controller `c` read of the
settings when it was built; `call[c]` is the call in progress.
A controller runs one call at a time. A call is cut at every `store.save` and
every provider call, because another process may act there or the process may
die there: `Submit`, `Approve` and the `Execute...` actions are the part of a
call up to its first save, `Save` is the store transaction, and `Gate`,
`ProviderDeploy`, `Identify`, `ProviderVerify`, `Judge` and `ProviderRollback`
are the parts between two saves. `Save` accepts a version only when the stored
evidence is a prefix of its evidence, and otherwise the call raises. `Restart`
is a crash, at any step, followed by a new controller that reads the settings.

The provider's answers are nondeterministic: it deploys the intended release or
another, its verification passes, fails, names another identity or raises, its
rollback succeeds, fails or raises. Identities and digests are abstracted to the
outcome of comparing them. Calls that return what is stored change nothing and
are left out. `deploys` and `barred` only record history for the properties.

### Workflow

`checkpoint` is the durable graph state (the fields that guards read, and the
node that runs next), `ledger[a]` the status of the row of action `a`, `trail`
the recorded transitions, `run[w]` the invocation worker `w` is in. `Deliver` is
`graph.invoke` with the initial state, which LangGraph runs from the graph's
start even on a thread that already ran; `Resume` continues from the
checkpoint, with an operator's decision if there is one. A node without an action is `RunGate` or
`Approval` and `Decide`; a node with an action is `CreateRow` (its own
transaction), `Claim` (the row lock), `Attempt` (one adapter call), `Commit` (the
row is settled and unlocked) and `ActionReturns` (cost check and transition).
`Save` writes the checkpoint. `Crash` may come at any step; a crash in the middle of the attempts
rolls their transaction back. Conflicts of a transition key or of an evidence
reference raise out of the graph and end the invocation, and so does a result with
more references than a state may hold (`EvidenceOverflows`). `Intake` rejects a job
whose state does not validate (`job.valid`).

`Result`, `Proceed` and `Failure` say what a node records and leaves; `Route`
is the conditional edges. What an adapter did is remembered in `executed`,
`verdict` and `approvals`, which the code does not have and only the
properties read. A job fixes what `initial_state` is given, and with it the attempts:
`min(max_action_attempts, retry_budget)`. A runtime may lack the pre-production
resolver: such a worker can establish nothing for a production job.

Abstractions: evidence references are present or not; an adapter's failure
codes are one terminal and one retryable code; a fresh result fits the cost
budget or not, a cached one always does because its cost is read back as zero;
the lag LangGraph may have in writing checkpoints is at most one node, and
redelivery covers running again from further back.

### ReferenceProvider

`release[d]` is what the release directory of artifact `d` holds, `current` and
`nextLink` where the two symlinks point, `previous` what the file of that name
says, `running` the release whose code the service executes. A process calls
`deploy`, `verify` and `rollback` in the order the controller does, and `op[p]`
is where it is: each file operation is a step (`RecordPrevious`, `CopyOrReuse`,
`MakeDirectory`, `FillDirectory`, `SetOwner`, `LinkNext`, `ReplaceCurrent`),
`RestartService` and `VerifyHealth` are the two ends of the health checks, and
`ProcessDies` may come between any two. An operation that raises is `Raises`.
`told`, `op.before` and `op.alone` are read by the properties only, except that
an intent the provider has answered is not deployed again.

### BackupVault

`folder` and `file[f]` are the vault's directory and three files of one backup
name; a file is known by the attempt that wrote it, since every attempt encrypts
with a fresh nonce. `memory[h]` and `outcomes[h]` are what the vault object and
the coordinator of process `h` remember, `job[h]` the call it is in, `staging`
and `restored` the directories of a restore. Verification of an artifact
(`_verify_artifact`: canonical manifest, checksum, authenticated encryption,
component digests) is `Intact`: all three files are of one attempt. Reading the
three files is one step.

### CredentialVault

`record[r]` is the metadata file of reference `r`, `blob` the references with an
encrypted blob, `journals` the rotation journals, `runtime[t]` the lease and key
file of identity `t`, `audit` the lines of the audit file that are ever looked
for, `torn` whether it ends in part of a line, `strays` whether a temporary file
was left among the journals. Every operation holds the vault's `flock`, so
`custodyOp` is the one under way; each of its file steps is an action, and
`FileCallFails` and `VaultProcessDies` may come before any of them. A new vault
object sweeps stale leases; every other operation begins with recovery
(`RecoverRotation`, `Recovered`, `RecoveryRefused`). A
provider's `resolve` is a `get` and a `materialize`, with the lock free in
between. `replaces` and `offboarded` are history. Encryption, file modes and
symlink checks are left out: a blob is known by its reference, files are sound.

### DatabaseOperations

`ledgerRow[k]` is the row of idempotency key `k`, `stagingJob[j]` the staging
directory of a job, `restoreDb[t]` what an isolated database holds,
`registry[t]` the registration of a target, `dbWorker[w]` the call of a worker.
`ReadLedger` and `InsertClaim` are the two halves of the claim; the insert is
where the unique indexes on key and on scope reject the later worker. A tool
started by a worker that dies goes on as an orphan and ends on its own.
`MarkRestartRecovery` is what a starting process does to rows that are running.
A job is a name the request brings, and the unique index is on the source: dumps of two
sources may bring one job and write into one directory at the same time. What such a
dump leaves is then not its own (`stagingJob` is `mixed`, or the other's), and
`OutcomeIsTrue` claims a dump's artifact only where all dumps of the job are of one
source (`OneSource`); what it claims of restores has no such condition.
An artifact is known by the dump that made it; command lines, option files and
the parsing of dumps are left out.

### Readiness

`supportability`, `readiness` and `approval` are what the callers hold;
`supportRows`, `levelRows` and `downgrades` the append-only tables. A digest is
the value it is computed from, so two decisions of one digest are recognised as
the code does, and a row that exists under a digest is kept as it is. Each
observation and claim that a caller brings is sound or has one defect. Every
operation is one action: evaluation is pure, and saving is one transaction.

### SourceMirror

`source[f]` is the live file with its stat, `revision` the captured manifest,
`claimed` the claim file, `final` the directory under the mirror's name,
`capturer[p]` the capture a process is in with its staging directory. Files are
read, scanned and copied one by one, `WriteSource` may come between any two
steps, may restore size and time, and may bring an earlier content back. The code
compares manifests before and after, so a source that changed and changed back in
between is not noticed; what the mirror holds is compared file by file and is of the
revision all the same, except that a file which held a secret during the scan is left out. `CreateClaim` is the exclusive create,
`PromoteMirror` the rename that fails over a directory that is not empty; the
capture that follows, `Unclaim`, and each clean-up (`EmptySome`, `EmptyFinal`, `RemoveFinal`,
`RemoveStaging`, `Release`) are steps of their own: a removal may stop half way, and a
mirror then holds all of its files, some, or nothing. A capture that succeeds adds its
receipt to `returned`, and `ReturnedMirrorStands` compares that with what is under the name. A digest is a content. Only
the POSIX paths are modelled.

### Monitoring

`events` is the target's table, `heard[e]`, `alerts[e]` and `jobs[e]` what engine
`e` remembers, `step[e]` the event it is writing. Memory changes when a call
begins, `ReadSequence` takes the next number and `AppendEvent` succeeds if it is
still free: `AppendRefused` and `AppendFails` leave memory ahead of the table.
`Restart` rebuilds the engine by `Replay`, the fold of the code over what a row
keeps of an event. `RestartKeepsIncidents` compares the two for engines whose
every append succeeded and that alone wrote (`inStep`). Sample validation and the
wording of reports are left out.

### DirectWorker

`checkout` is the coordinator's clone, `requested[r]` the directory of a stored
request, `consumed` the ids that were applied, `results[r]` what is published,
`workerLock` the lock that neither command waits for, `invocation[p]` the
command a process is in. A request seals a packet, asks the model and stores
the answer; an apply loads it, consumes the id, runs the patch in a disposable
clone, and publishes patch and receipt after it has released the lock and
cleaned up. When one of them cannot be written, what was begun is taken back and nothing
else is published (`WriteFails`). `CheckoutMoves` is the coordinator's own work. Answers are numbers
and their defects are chosen; `tested` is history.

### LinuxSsh

`operationClaims` is the operation ledger, `knownHosts` the file all clients
share, `sshClient[c]` the collection a client is in, `collected` the inventories
with their records, `trusted` the evidence of the independent observer,
`receiptClaims` and `signed` the attestor's ledger and answers. Each operation
of a collection is claimed, resolves its credential, verifies the host key,
runs its commands, releases the credential and yields a status and records; a
claimed operation is answered as a replay. `SealInventory` builds the receipt
and asks the attestor, which checks the payload against the evidence
(`Vouched`) and claims it before it signs: records and roots of the receipt are those of the
evidence, but the record it gives for the host has only to be one of them
(`SourceMatches`). Another process may present a receipt too, of an inventory that was
collected; receipts nobody collected are not modelled. There is one target; answers are the kinds the client tells apart.

### Remediation

`tree` is the workspace of a job, `patches` what `PatchBuilder.build` returned,
`applier[w]` a call of `validate` or `apply_patch_atomically` with the bytes it read,
`validations`, `summary`, `previews` and `requests` the results of validation,
gates, preview and approval queue. Applying is a loop of file steps: check, stage, replace, and
restore in reverse when a step fails. An original is restored through a file
`.<name>.restore` beside it (`PutBack`), so a workspace file of that name is overwritten
and lost; `RestoreNames` says where it is, and `PatchIsWholeOrUndone` promises that
a refused patch is undone if none was there (`NamesFree`). A restore that raises may leave
that file behind (`RestoreBegun`). Nothing locks the workspace, and
`EditWorkspace` is the code the gates run. `RunGates` asks an adapter again
while it may; a summary names no patch, as in the code. A content is its digest.
The checkout of a reproduction, planning, and the commands behind the adapters are left out.

## Runs

| Run | Instance | Shows |
|---|---|---|
| `deployment_two` | two controllers, one intent, crashes at will | type correctness, the trail accounts for every status, success is earned, `provider.deploy` is authorised, a controller deploys once, a gated record has its backup, terminal records are final, the lifecycle is implemented |
| `deployment_one` | one controller, two intents under one key, fair calls | a key has one intent, a latched stop or revocation bars later executions, every call returns |
| `deployment_backup` | one controller | violated: a crash inside `submit` leaves a record whose backup gate never ran |
| `deployment_once` | two controllers | violated: both execute one approved intent |
| `deployment_stop` | two controllers | violated: a controller built before the stop deploys after it |
| `workflow` | two workers (one without a resolver), six jobs, two or three invocations, one crash | settled actions are not repeated, retries are bounded by budget and crashes, the deployment is authorised, rollback follows a failed verification, completion rests on settled actions, the trail explains the phase |
| `workflow_ends` | one worker, the same jobs, fair invocations | every invocation ends |
| `workflow_verify` | one worker, one crash | violated: a failed verification read back from the ledger counts as passed |
| `stores` | two processes with one target and one death; two processes with one vault, one that deletes, two attempts, unlimited deaths | type correctness; links never dangle, a failed deployment leaves `current`, a rollback finds and restores the release it names; a verified backup stays whole until its retention ended and it is deleted, a restore promotes all of one artifact |
| `services` | the eight services, one chosen at the start | a rotation settles, an offboarded key is gone, keys appear for active credentials only; a recorded outcome is true, of restores also when two sources share a job, and restores start alone; a ready row was earned; a mirror is of its revision and one that was returned stays whole under its name; a rebuilt engine decides alike; a run id runs once and what passed is whole; an inventory is of one attempt; a patch is whole or undone and an approval is earned |
| `services_readiness` | readiness alone | violated: a decision that was downgraded is saved and the rows served still say ready |
| `services_ssh` | inventory collection alone | violated: an inventory that passed and that trusted evidence vouches for is refused by the attestor |

Bounds. Two controllers suffice for the deployment races, since each store
save compares two versions of one record; a third controller repeats the second.
Two intents with one key and one credential are the least that make the key and
revocation matter. There is no bound on calls or crashes in `Deployment`: statuses
only move forward, so the state space is finite. In `Workflow` the number of
invocations (`MaxCalls`, three for a production job: deliver and two racing
resumes; two otherwise) and of crashes (`MaxCrashes`) is bounded, because each
adds to the execution counts. In `stores` one death (`MaxDeaths`) is enough to leave a
partial release or a stale `current.next` to the next deployment, and two
attempts (`MaxAttempts`) are enough to race on a name, to mix artifacts, and to
reuse a name after a delete; the two components share nothing, and an initial
choice runs one of them. The rollback properties of `ReferenceProvider` are about an operation no other
process joined (`op.alone`): the provider has no lock, and two processes that
deploy to one target do overwrite each other's `previous`. `CHECK_DEADLOCK FALSE` is there because the
bounded system stops when its invocations have ended. Symmetry is used only for
the two controllers, in a run without liveness.

`services` starts the eight components in turn. They share no state, so the
product would show nothing the parts do not; `part` chooses one and the others
stay at rest. Its bounds are the least at which each hazard happens: in the vault, two
references are a source and its replacement, two faults a crash in an operation
and one in its recovery, and one process is enough because `flock` makes the
operations exclusive whoever runs them; in the database part, six requests give two dumps in one
staging directory, two requests under one key, two keys for one target and a target
that is not bound, and in the part `sharing` three more give dumps of two sources in one
directory and a restore of the first; two decisions in readiness, as a row of an earlier one is met by a later one;
two files, two captures, one write, of a secret or a removal, with one more to take it
back, and one fault in the mirror; two engines, three calls and
one fault in monitoring, with limits of one unit so that observations fall inside and outside them; two
ids, two processes, three invocations and one accident in the direct worker; two bases, two clients and two
inventories of four operations in collection; one applier, three
proposals and two faults in remediation, with three paths, one of which is the name another is
restored under. Remediation is explored in two parts, since
applying a patch and reviewing it meet only in the validations. In `review` only
`validate` is called, and patched files stay as they are. The bounded operations end, hence `CHECK_DEADLOCK FALSE`.
The whole is some 1.2 million distinct states.

Fairness. The only fairness assumed is weak fairness of the next step of a call in
progress: the code is synchronous, and providers, adapters and transactions
return or raise. Nothing is assumed of operators, deliveries or new calls, and a
crash may still end any call.

## Proofs

Every invariant and every action property of the passing runs is also a theorem,
for any sets of processes, requests, names and files and for any bounds, under
the named assumptions of the modules. Each theorem is proved in the same way: an
inductive invariant that TLC checked first, a lemma per action, and the property
from the invariant. The two properties about fairness are not proved (see the end
of this section).

**Assumptions.** Bounds are natural numbers and subsets are subsets. Beyond that:
every intent has a key and a credential, there is a rollout and each has its two
artifacts, a mirror has at least one file and each file a directory; null
values are not among the values they stand beside (`NoIntent`, `NoRef`, `Nobody`,
the reserved contents of a staging file); at most one process deletes from a backup
vault (`DeletersAssumption`); a job may be attempted one to ten times
(`JobsAssumption`); a restore names a dump of its job, requests of one key have one kind and
scope, and restores have one scope exactly if they have one target
(`RequestsAssumption`); no file content is called absent or a symlink, and no file is restored under its
own name (`RemediationAssumption`); the operations of a
collection are a sequence that connects (`SshAssumption`); there is a run id and a
commit (`WorkerAssumption`); evidence, claims, observations and file changes are
of their types (`EvidenceAssumption`, `MonitoringAssumption`,
`ProposalsAssumption`). TLC evaluates all of them in the runs.

### `DeploymentProofs`

`TypeCorrect`, `AuditIsComplete`, `SuccessIsEarned`, `DeployAuthorised`,
`DeploysOnce`, `KeysUnique`, `TerminalRecordsAreFinal`, and `LifecycleImplemented`:
`Spec => Lifecycle!LifecycleSpec` under the refinement that reads status and trail
off the durable row. None of these is inductive by itself, since what a step saves
was built steps earlier, from a version of the record that another controller may
have replaced since. The inductive invariant `IInv` therefore speaks of the versions
in flight as of the stored ones: every version, stored or about to be saved,
carries a legal trail that ends at its status and the facts that status promises
(`RecordOK`); the step a call is at agrees with the version it holds, which is at
most one entry ahead of the stored one (`CallOK`); a controller that deployed an
intent finds it past approval (`DeploysOK`). An accepted save is where the
append-only check of the store does its work (`AcceptedMoves`): a version that
extends the stored trail by one legal entry either leaves the record as it was or
makes one move of the lifecycle.

`GatedRecordsHaveBackup`: the gates' entry, once it is the first of a version,
stays the first, and neither the backup nor authoritative evidence is taken back
(`GatesHold`). `StopBarsOneController` has a hypothesis, that there is one
controller, as in the run: then the cache it reads is the durable latch
(`StopKnown`); with two it is not, and `deployment_stop` shows the difference.

### `WorkflowProofs`

`WorkflowTypeCorrect`, `ExecutionsBounded`, `DeploysAuthorised`, `RollbacksFollow`,
`CompletionsEarned`, `TrailAccounts`, `SettledIsFinal`. The difficulty is that
several graph states are around at once: the checkpoint's, and one per invocation,
some of them overtaken by a crash or by another delivery. `WorkflowInv` says of each
of them what its node rests on (`StateOK`), and only in terms of durable facts that
are never taken back: settled ledger rows, the verdict, the approval, the evidence
and the trail. So a state stays good however late it is resumed. The row lock has one
holder (`LockOK`), and executions are counted against the tries of the holder and the
attempts each crash may have cost (`CountOK`).

### `StoresProofs`

`ProviderTypeCorrect`, `LinksNeverDangle`, `RollbackFindsItsRelease`,
`FailedDeploysKeepCurrent`, `RollbacksRestore`. The invariant `ProviderInv` adds that a
release that exists has its directory, that an operation has one to link to from its
copy on (`TargetOK`), and what an operation no other joined knows: `current` is what it
found until it switches, `previous` names that release, `current.next` is its own
(`AloneOK`). Each step of another process falsifies "no other joined" or does not come.

`VaultTypeCorrect`, `VerifiedBackupsAreKept`, `RestoresAreWhole`. `VaultInv` adds that
what is being unlinked has ended its retention (`UnlinkOK`), which a second deleter with
a stale check would break, and that the staging directory belongs to one restore
(`StagingOK`).

`StoresCompose` and `StoresTypeCorrect` are about `MCStores`: what TLC explores there
implements the specification of both parts, so the theorems hold of it as well.

### `CredentialVaultProofs`

`CustodyTypeCorrect`, `RotationsSettle`, `OffboardingsLeaveNothing`,
`KeysOfActiveCredentials`. What the files always are (`DiskInv`) has to hold wherever an
operation is cut short: there is at most one journal, and its rotation can still be
completed (`JournalsOK`). What the operation under way may rely on (`OpInv`) comes from
the recovery before it: no journal but its own (`JournalHeld`), and the results of its
earlier steps (`ProgressHeld`). Without "at most one journal" a recovery could
retire a source that another journal still needs.

### `DatabaseOperationsProofs`

`DatabaseTypeCorrect`, `OutcomesTrue`, `RestoresStartAlone`. The argument is
ownership: an operation in hand, of a worker or of a tool that outlived one, has an
active row (`HoldOK`, `OrphanOK`), no two have the same (`SoleOK`), and a scope has one
active row (`ScopeOK`, the unique index). So nobody else is at the target, nor, if the job
has one source, at the job's directory, and what a step found there still holds at the next
(`RestoreOK`, `DumpOK`). For a restore this holds for any jobs: what it loads is told
by the artifact's digest, whoever dumps into the directory it comes from. How requests
name their jobs is not assumed anywhere.

### `ReleaseProofs`

What a release decision rests on. `MirrorTypeCorrect`, `SealedMirrors`,
`ReturnedMirrors`: what is copied is compared with the manifest file by file, so a mirror is
of its revision whatever the source did in between (`CopiesOK`); and a mirror's name
belongs to the process that promoted it last until that process has finished (`PlaceOK`),
so that nobody is in a position to empty or replace a mirror that was returned (`ReturnedOK`).
`RemediationTypeCorrect`, `ApprovalsEarned`, `PatchesWholeOrUndone`: a call that is alone
sees every other idle, and the workspace differs from the one it found by exactly the
changes it made (`AloneOK`, `Written`) and, once it takes them back, only in files it has
still to take back (`Tracked`, `Undone`), for patches of any length;
what passed is a patch whose id names its context, and a request is earned from the
moment it exists (`ReviewInv`). `ReadinessTypeCorrect`, `ReadyRowsEarned`: a decision with
a ready level is of an assessment that earned it (`DecisionOK`), which uses that the
recursion over prerequisites has a solution (`TierStatusEquation`).

### `MonitoringProofs`

`MonitoringTypeCorrect`, `RestartsKeepIncidents`. An engine that wrote all it did, and
alone, has the memory that replaying the table gives, or is ahead of it by the event it
is writing (`InStepOK`). `Replay` is a recursion over the whole table, and the prover has
no induction over sequences; that the recursion has exactly one solution is therefore
part of the invariant (`ReplayDefined`), carried from row to row as the table grows
(`ReplayAppend`).

### `ServicesProofs`

`WorkerTypeCorrect`, `PassesWhole`: the lock has one holder (`LockOK`), an id that is run
has just been consumed and was never run before (`RunOK`), and of one id at most one
process is to publish a pass, also after it has freed the lock (`PassedAlone`, `PassOK`).
`SshTypeCorrect`, `InventoriesAreOneRun`: an operation that was sent is claimed
(`SentOK`), between claim and commands it belongs to one collection (`ClaimsOK`), and a
collection that goes on sent every operation it needed itself (`ProgressOK`).
`ServicesCompose` and `ServicesTypeCorrect` are about `MCServices`, which implements the
specification of each of the eight services.

### Only model-checked

`CallsReturn` and `InvocationsEnd`: liveness under fairness, and with it `ENABLED`, are
out of the prover's reach. The six properties that the code violates are, of
course, not theorems.

## Findings

Six runs show the code doing what its documentation excludes; `PROJECT.json`
quotes the sentences. In short: the gates of `submit` run after the record is
durable and are not asked for again; two controllers that read the same
approved record both deploy it; stop and revocation reach only controllers
built afterwards; a workflow action that is read back from the ledger has lost
its verdict; a downgraded decision that is saved again leaves the ready rows it
had as they were, since rows are kept by a digest that the downgrade does not
change; and a live inventory is never sealed, because the receipt's path is
made from the id the collection was called with and the attestor expects the
one of its inventory operation.

### Known divergences

Behaviour met while modelling that no run is spent on. The models contain it,
unless said otherwise, and the properties are stated so that they are true with it.

- Credential vault: a death while a journal's temporary file or an audit line is
  being written leaves something recovery refuses to read, and every later
  operation of the vault raises until it is repaired by hand.
- Database: a completion that fails leaves the row running, and restart recovery
  turns it into `recovery_required`; nothing but an operator frees its scope.
- Database: a job is named freely by each request, so dumps of two sources under one
  job remove and overwrite each other's files, and one may be recorded as succeeded with the other's artifact.
- Source mirror: a source that changes and changes back between the two captures is not
  noticed, and a file that held a secret while it was scanned is then missing from a mirror that verifies.
- Source mirror: a claim file that a crash left blocks the baseline for good,
  and a source with an empty directory never verifies, because the copy makes
  only the directories of its files (each directory of the instance has a file).
- Monitoring: first occurrence and number of repetitions are not the same
  after a restart, if an incident was resolved and opened again; no decision depends on them.
- Direct worker: an apply that was refused has published a `FAILED` receipt; a later
  apply of the id passes, consumes the id and cannot publish.
- Remediation: a gate summary names no patch, so gates of another patch of the
  workspace will do for a preview; and `apply_patch_atomically` does not compare
  a file again before it replaces it.
- Remediation: taking a patch back goes through `.<name>.restore` beside each file, and
  a file of the workspace that has that name is lost.
- Collection: the attestor asks of the record a receipt gives for the host only that it is
  among the trusted records.

## Plan

Next, in this order, each with its runs and mutants in the same form:

1. `ReferenceProvider` in place of the nondeterministic provider of `Deployment`.
2. `DeploymentStore`: one `save` as overlapping SQL transactions (no version
   column, no row lock), and the tenant's control settings.
3. `ControlPlane`: the audit chain and job transitions under concurrent requests.

## Not modelled

- The control plane's jobs and audit chain (`services/`): planned. Each operation is one
  transaction whose isolation is the database's.
- Scanning: one sequential pass over the scanners' results that keeps nothing
  between calls; what could go wrong there is in the text of the results.
- Authentication, dashboard, routes and templates: they keep no state between
  requests beyond the rows of the services above.
- The release gate (`release/`): a pure check of one file of evidence.
- Operations scripts other than the direct worker: run by hand, one at a time, and keep
  nothing that the services read.
- Connectors other than SSH and the inventory service: adapters that read, or rows that are
  written in one request each.
- In remediation, the reproduction checkout, planning and the commands of the gates.
- Everywhere: transports, command lines, encryption, parsing and layout of
  files, whose results are chosen from what the callers tell apart.
