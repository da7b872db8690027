----------------------------- MODULE MCServices -----------------------------
(***************************************************************************)
(* Instances for TLC of the components that keep state of their own and    *)
(* share none of it: which of them runs is chosen once, and the others     *)
(* stay in one initial state.                                              *)
(***************************************************************************)
EXTENDS CredentialVault, DatabaseOperations, Readiness, SourceMirror, Monitoring,
        DirectWorker, LinuxSsh, Remediation
CONSTANT Services   \* the components of which one is chosen

(* Databases: two dumps of one source in one staging directory, two restores of one key
   into one target, and one into a target that is not bound; in another directory a dump
   of each of two sources, and a restore of the first. *)
DumpOf(key, scope, job) ==
    [kind |-> "dump", key |-> key, scope |-> scope, job |-> job, target |-> "none",
     of |-> "none", bound |-> TRUE]
RestoreOf(key, dump, job, target, bound) ==
    [kind |-> "restore", key |-> key, scope |-> target, job |-> job, target |-> target,
     of |-> dump, bound |-> bound]
MCRequests ==
    {DumpOf("d1", "src", "j1"), DumpOf("d2", "src", "j1"),
     RestoreOf("r1", "d1", "j1", "t1", TRUE), RestoreOf("r1", "d2", "j1", "t1", TRUE),
     RestoreOf("r2", "d2", "j1", "t1", TRUE), RestoreOf("r3", "d1", "j1", "t2", FALSE),
     DumpOf("d3", "src", "j2"), DumpOf("d4", "other", "j2"),
     RestoreOf("r4", "d3", "j2", "t1", TRUE)}

(* Readiness: all capabilities of one candidate, one that needs cleanup, one of another
   candidate; claims that are sound, and some that are of a wrong class or partial. *)
Supported(c) == [status |-> "supported", strong |-> TRUE, revision |-> c]
Deploying(o) == [k \in Capabilities |-> IF k = "deploy" THEN o ELSE Supported("c1")]
MCObserved ==
    {Deploying(o) : o \in {Supported("c1"), Supported("c2"),
                           [Supported("c1") EXCEPT !.status = "needs_cleanup"]}}
MCClaimSets ==
    {[t \in Tiers |-> "sound"],
     [t \in Tiers |-> CASE t = "stack" -> "class" [] t = "pilot" -> "partial" [] OTHER -> "sound"]}

(* Mirror: a file in the root and one in a directory of its own. *)
MCDirectoryOf == <<".", "lib">>

(* Monitoring: one alert observation and three backup checks. *)
MCAlertObservations ==
    {[kind |-> "backup", status |-> "failed", reason |-> "backup_missing", at |-> 3]}
BackupCheck(recovery, at) ==
    [failure |-> FALSE, verified |-> recovery, integrity |-> TRUE, at |-> at]
MCBackupChecks == {BackupCheck({}, 1), BackupCheck({1}, 2), BackupCheck({1}, 3)}

(* Inventory collection. *)
MCCollectionSteps == <<"connect", "host", "metadata", "web">>

(* Remediation: a patch that modifies and adds, one for the files this leaves that adds a
   file of the name f2 is restored under, and one whose finding is suppressed. *)
MCRestoreNames == [f \in Paths |-> IF f = "f2" THEN ".f2" ELSE "nowhere"]
MCJobContext == [tenant |-> "ta", job |-> "job"]
ChangeOf(path, before, after) ==
    [path |-> path, operation |-> IF before = Gone THEN "add" ELSE "modify",
     before |-> before, after |-> after]
ProposalOf(status, changes) ==
    [context |-> MCJobContext, evidence |-> {"e1"}, changes |-> changes, rollback |-> "r0",
     finding |-> [status |-> status, context |-> MCJobContext, evidence |-> {"e1"}]]
MCProposals ==
    {ProposalOf("active", <<ChangeOf("f2", "v1", "v2"), ChangeOf("f1", Gone, "v2")>>),
     ProposalOf("active", <<ChangeOf(".f2", Gone, "v1"), ChangeOf("f2", "v2", "v1"),
                            ChangeOf("f1", "v2", "v1")>>),
     ProposalOf("suppressed", <<ChangeOf("f2", "v1", "v2")>>)}
MCPolicies == {[mode |-> "fixture", reviewed |-> b, fixtureProject |-> TRUE] : b \in BOOLEAN}

VARIABLE part
serviceVars == <<custodyVars, databaseVars, readinessVars, mirrorVars, monitoringVars,
                 workerVars, sshVars, remediationVars, part>>

(* Only the part that runs is started in more than one way. *)
MCInit ==
    /\ part \in Services
    /\ CustodyInit /\ DatabaseInit /\ ReadinessInit /\ MirrorInit
    /\ MonitoringInit /\ WorkerInit /\ SshInit /\ RemediationInit
    /\ source = [f \in MirrorFiles |-> [content |-> "a", stat |-> 0]]
    /\ part # "worker" => checkout.head = "h1"
    /\ tree = [f \in Paths |-> IF f = "f2" THEN "v1" ELSE Gone]

(* The two staging directories are used one at a time. *)
JobOf == [database |-> "j1", sharing |-> "j2"]
JobNext == DatabaseNext /\ \A w \in Workers : dbWorker'[w].req.job \in {"none", JobOf[part]}

(* The source is written once, and once more to take that back. *)
TakenBackNext ==
    /\ MirrorNext
    /\ writes' = 2 => \A f \in MirrorFiles : source'[f].content = "a"

(* What a patch does to the workspace and how it is reviewed meet only in the results of
   validations: they are explored one at a time. *)
PatchingNext == RemediationNext /\ UNCHANGED <<summary, previews, requests>>
ReviewNext ==
    /\ RemediationNext
    /\ UNCHANGED <<tree, residue>>
    /\ \A a \in Appliers : applier'[a].call # "apply"

Rests(name, vars) == IF part = name THEN TRUE ELSE UNCHANGED vars
MCNext ==
    /\ UNCHANGED part
    /\ Rests("custody", custodyVars)
    /\ IF part \in {"database", "sharing"} THEN TRUE ELSE UNCHANGED databaseVars
    /\ Rests("readiness", readinessVars) /\ Rests("mirror", mirrorVars)
    /\ Rests("monitoring", monitoringVars) /\ Rests("worker", workerVars)
    /\ Rests("ssh", sshVars)
    /\ IF part \in {"patching", "review"} THEN TRUE ELSE UNCHANGED remediationVars
    /\ \/ part = "custody" /\ CustodyNext
       \/ part \in {"database", "sharing"} /\ JobNext
       \/ part = "readiness" /\ ReadinessNext
       \/ part = "mirror" /\ TakenBackNext
       \/ part = "monitoring" /\ MonitoringNext
       \/ part = "worker" /\ WorkerNext
       \/ part = "ssh" /\ SshNext
       \/ part = "patching" /\ PatchingNext
       \/ part = "review" /\ ReviewNext
MCSpec == MCInit /\ [][MCNext]_serviceVars

(* The variables of every component hold values of their kind; those of the components
   that do not run are the ones they start with. *)
ServicesTypeOK ==
    /\ part = "custody" => CustodyTypeOK
    /\ part \in {"database", "sharing"} => DatabaseTypeOK
    /\ part = "readiness" => ReadinessTypeOK
    /\ part = "mirror" => MirrorTypeOK
    /\ part = "monitoring" => MonitoringTypeOK
    /\ part = "worker" => WorkerTypeOK
    /\ part = "ssh" => SshTypeOK
    /\ part \in {"patching", "review"} => RemediationTypeOK
=============================================================================
