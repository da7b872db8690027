---------------------------- MODULE Remediation ----------------------------
(***************************************************************************)
(* appcare.remediation: a patch is built from an active finding, checked   *)
(* against the workspace of its job, applied there file by file, put       *)
(* through the two gates, previewed, and approved or rejected by a person  *)
(* of the tenant.  Workers of the same job share the workspace (its path   *)
(* is tenant/application/job) and nothing locks it; the code that runs in  *)
(* the gates may edit it too.                                              *)
(*                                                                         *)
(* A content stands for itself and for its digest; the digest of a patch   *)
(* is its changes, its id everything the id is computed from.  The         *)
(* directories a patch creates for its files are left out.                 *)
(***************************************************************************)
EXTENDS Naturals, FiniteSets, Sequences

CONSTANTS
    Paths,                  \* the paths that occur in changes
    OutsidePaths,           \* those _path refuses
    RestoreNames,           \* path -> the name .<name>.restore beside it
    FileContents,           \* contents of files
    UnsafeContents,         \* those that look like credentials
    Proposals,              \* what callers hand to PatchBuilder.build
    JobContext,             \* the context of the workspace
    Appliers,               \* processes that validate and apply
    Policies,               \* preview policies
    Tenants,                \* tenants of the people who decide
    References,             \* what they refer their decision to
    MaxGateAttempts,        \* GateRunner.max_attempts
    MaxRemediationFaults    \* bound on failing calls, crashes and edits

PreviewPolicies == [mode : {"fixture", "live"}, reviewed : BOOLEAN, fixtureProject : BOOLEAN]

ASSUME RemediationAssumption ==
    /\ Policies \subseteq PreviewPolicies
    /\ OutsidePaths \subseteq Paths
    /\ UnsafeContents \subseteq FileContents
    /\ FileContents \cap {"absent", "symlink"} = {}
    /\ \A f \in Paths : f \in DOMAIN RestoreNames /\ RestoreNames[f] # f
    /\ MaxGateAttempts \in 1..3
    /\ MaxRemediationFaults \in Nat

VARIABLES
    tree,           \* path -> content, absent or a symlink; the workspace
    workspaceMade,  \* whether the workspace directory exists
    patches,        \* patches that were built
    applier,        \* applier -> its call
    residue,        \* appliers whose staging directory stayed behind
    validations,    \* PatchValidationResults of both calls
    summary,        \* status of the GateSummary the caller holds, if any
    previews,       \* the PreviewResult the caller holds, if any
    requests,       \* approval id -> ApprovalRequest
    disruptions     \* faults that happened

remediationVars == <<tree, workspaceMade, patches, applier, residue, validations,
                     summary, previews, requests, disruptions>>
bench == <<tree, workspaceMade, applier, residue, disruptions>>

Gone == "absent"
Link == "symlink"
FileChanges == [path : Paths, operation : {"add", "modify"}, before : FileContents \cup {Gone},
                after : FileContents]

ASSUME ProposalsAssumption == \A b \in Proposals : b.changes \in Seq(FileChanges)

-----------------------------------------------------------------------------
(* Building a patch. *)

FileChangeOK(c) ==
    /\ (c.operation = "add") = (c.before = Gone)
    /\ c.after \in FileContents \ UnsafeContents

CanonicalChanges(cs) ==
    /\ cs # <<>>
    /\ \A i, j \in 1..Len(cs) : cs[i].path = cs[j].path => i = j

PatchDigest(cs) == cs
PatchId(p) == [context |-> p.context, evidence |-> p.evidence, changes |-> PatchDigest(p.changes),
               rollback |-> p.rollback]

Buildable(b) ==
    /\ b.finding.status = "active"
    /\ b.finding.context = b.context
    /\ b.finding.evidence \subseteq b.evidence
    /\ CanonicalChanges(b.changes)
    /\ \A i \in 1..Len(b.changes) :
          FileChangeOK(b.changes[i]) /\ b.changes[i].path \notin OutsidePaths

PatchCandidate(p) == [content |-> p, id |-> PatchId(p), digest |-> PatchDigest(p.changes)]
Candidate(b) ==
    PatchCandidate([context |-> b.context, evidence |-> b.evidence, changes |-> b.changes,
                    rollback |-> b.rollback])

Build(b) ==
    /\ Buildable(b)
    /\ patches' = patches \cup {Candidate(b)}
    /\ UNCHANGED <<bench, validations, summary, previews, requests>>

(* A caller holds a frozen candidate, and dataclasses.replace makes another. *)
ReplaceChanges ==
    \E p, q \in patches :
        /\ p # q
        /\ Cardinality(patches) = 2
        /\ patches' = patches \cup {[p EXCEPT !.content.changes = q.content.changes]}
        /\ UNCHANGED <<bench, validations, summary, previews, requests>>

-----------------------------------------------------------------------------
(* The workspace. *)

CreateWorkspace ==
    /\ workspaceMade' = TRUE
    /\ UNCHANGED <<tree, applier, residue, disruptions, patches, validations, summary, previews,
                   requests>>

(* rmtree, by the caller that made the workspace, after its calls. *)
DestroyWorkspace ==
    /\ workspaceMade
    /\ \A w \in Appliers : applier[w].at = "idle"
    /\ workspaceMade' = FALSE
    /\ tree' = [f \in Paths |-> Gone]
    /\ residue' = {}
    /\ UNCHANGED <<applier, disruptions, patches, validations, summary, previews, requests>>

(* What writes besides the appliers: the checkout, and the code the gates run. *)
EditWorkspace(f, c) ==
    /\ workspaceMade /\ disruptions < MaxRemediationFaults /\ tree[f] # c
    /\ tree' = [tree EXCEPT ![f] = c]
    /\ disruptions' = disruptions + 1
    /\ applier' = [w \in Appliers |-> [applier[w] EXCEPT !.alone = FALSE]]
    /\ UNCHANGED <<workspaceMade, residue, patches, validations, summary, previews, requests>>

-----------------------------------------------------------------------------
(* Validation and application. *)

IdleWorker == [at |-> "idle", call |-> "none", patch |-> {}, next |-> 1, originals |-> <<>>,
               found |-> <<>>, alone |-> TRUE, answer |-> "none"]
CurrentPatch(w) == CHOOSE p \in applier[w].patch : TRUE
CurrentChanges(w) == CurrentPatch(w).content.changes
CurrentChange(w) == CurrentChanges(w)[applier[w].next]
IsIdle(w) == applier[w].at = "idle"

EndCall(w, answer) == applier' = [applier EXCEPT ![w] = [IdleWorker EXCEPT !.answer = answer]]
GoTo(w, at) == applier' = [applier EXCEPT ![w].at = at, ![w].next = 1]
NextFile(w) == applier' = [applier EXCEPT ![w].next = @ + 1]
Wrote(w, f, c) == tree' = [tree EXCEPT ![f] = c]

Identified(p) ==
    /\ p.content.context = JobContext
    /\ p.digest = PatchDigest(p.content.changes)
    /\ p.id = PatchId(p.content)

PatchValidationResult(p, status) == [patch |-> p.id, status |-> status]
Answer(w, status) ==
    /\ EndCall(w, status)
    /\ validations' = validations \cup {PatchValidationResult(CurrentPatch(w), status)}

(* Either call, on a workspace that exists, begins with the identity of the patch. *)
BeginCall(w, p, call) ==
    /\ IsIdle(w) /\ workspaceMade
    /\ IF Identified(p)
       THEN /\ applier' = [v \in Appliers |->
                  IF v = w
                  THEN [IdleWorker EXCEPT !.at = "check", !.call = call, !.patch = {p},
                                          !.found = tree,
                                          !.alone = \A u \in Appliers : IsIdle(u)]
                  ELSE [applier[v] EXCEPT !.alone = IsIdle(v)]]
            /\ UNCHANGED validations
       ELSE /\ applier' = [applier EXCEPT ![w].answer = "blocked"]
            /\ validations' = validations \cup {PatchValidationResult(p, "blocked")}
    /\ UNCHANGED <<tree, workspaceMade, residue, disruptions, patches, summary, previews, requests>>

WorkspacePath(f) == f \notin OutsidePaths /\ tree[f] # Link
PreimageHolds(c) == WorkspacePath(c.path) /\ tree[c.path] = c.before

(* validate: one file of the workspace. *)
CheckChange(w) ==
    /\ applier[w].at = "check"
    /\ IF ~PreimageHolds(CurrentChange(w))
       THEN Answer(w, "blocked")
       ELSE IF applier[w].next = Len(CurrentChanges(w)) /\ applier[w].call = "validate"
       THEN Answer(w, "passed")
       ELSE /\ IF applier[w].next < Len(CurrentChanges(w)) THEN NextFile(w) ELSE GoTo(w, "stage")
            /\ UNCHANGED validations
    /\ UNCHANGED <<tree, workspaceMade, residue, disruptions, patches, summary, previews, requests>>

StagingRefused(c) == tree[c.path] = Link \/ (c.operation = "add" /\ tree[c.path] # Gone)

(* The first loop of apply_patch_atomically: the original is read again, and the
   preimage is not compared again. *)
StageChange(w) ==
    /\ applier[w].at = "stage"
    /\ IF StagingRefused(CurrentChange(w))
       THEN Answer(w, "blocked")
       ELSE /\ applier' = [applier EXCEPT
                ![w].originals = Append(@, tree[CurrentChange(w).path]),
                ![w].next = IF @ < Len(CurrentChanges(w)) THEN @ + 1 ELSE 1,
                ![w].at = IF applier[w].next < Len(CurrentChanges(w)) THEN "stage" ELSE "replace"]
            /\ UNCHANGED validations
    /\ UNCHANGED <<tree, workspaceMade, residue, disruptions, patches, summary, previews, requests>>

(* The second loop: os.replace, one file after the other. *)
ReplaceFile(w) ==
    /\ applier[w].at = "replace"
    /\ Wrote(w, CurrentChange(w).path, CurrentChange(w).after)
    /\ IF applier[w].next < Len(CurrentChanges(w))
       THEN NextFile(w) /\ UNCHANGED validations
       ELSE Answer(w, "passed")
    /\ UNCHANGED <<workspaceMade, residue, disruptions, patches, summary, previews, requests>>

(* An OSError while staging or replacing: what was replaced is put back, last first. *)
ApplyFails(w) ==
    /\ applier[w].at \in {"stage", "replace"} /\ disruptions < MaxRemediationFaults
    /\ disruptions' = disruptions + 1
    /\ IF applier[w].at = "replace" /\ applier[w].next > 1
       THEN /\ applier' = [applier EXCEPT ![w].at = "restore", ![w].next = @ - 1]
            /\ UNCHANGED validations
       ELSE Answer(w, "blocked")
    /\ UNCHANGED <<tree, workspaceMade, residue, patches, summary, previews, requests>>

(* A file that was added is removed.  An original is first written beside its file, to
   or through what has that name there, and then moved to the file. *)
PutBack(f, original) ==
    IF original = Gone
    THEN [tree EXCEPT ![f] = Gone]
    ELSE [g \in Paths |->
             IF g = f
             THEN IF RestoreNames[f] \in Paths /\ tree[RestoreNames[f]] = Link
                  THEN Link ELSE original
             ELSE IF g = RestoreNames[f] THEN Gone ELSE tree[g]]

\* Mutant: a file the patch added has no original and is left where it is.
RestoreModified(w) ==
    /\ applier[w].at = "restore"
    /\ IF applier[w].originals[applier[w].next] = Gone THEN UNCHANGED tree
       ELSE tree' = PutBack(CurrentChange(w).path, applier[w].originals[applier[w].next])
    /\ IF applier[w].next > 1
       THEN applier' = [applier EXCEPT ![w].next = @ - 1] /\ UNCHANGED validations
       ELSE Answer(w, "blocked")
    /\ UNCHANGED <<workspaceMade, residue, disruptions, patches, summary, previews, requests>>

RestoreFile(w) ==
    /\ applier[w].at = "restore"
    /\ tree' = PutBack(CurrentChange(w).path, applier[w].originals[applier[w].next])
    /\ IF applier[w].next > 1
       THEN applier' = [applier EXCEPT ![w].next = @ - 1] /\ UNCHANGED validations
       ELSE Answer(w, "blocked")
    /\ UNCHANGED <<workspaceMade, residue, disruptions, patches, summary, previews, requests>>

(* The original that is being restored may have been written beside its file by then. *)
RestoreBegun(w) ==
    LET name == RestoreNames[CurrentChange(w).path]
        original == applier[w].originals[applier[w].next]
    IN  IF applier[w].at = "restore" /\ name \in Paths
           /\ original # Gone /\ tree[name] # Link
        THEN tree' \in {tree, [tree EXCEPT ![name] = original]}
        ELSE UNCHANGED tree

(* An error in the handler leaves it; the finally clause removes the staging
   directory even so.  A process that dies removes nothing. *)
RestoreRaises(w) ==
    /\ applier[w].at = "restore" /\ disruptions < MaxRemediationFaults
    /\ disruptions' = disruptions + 1
    /\ RestoreBegun(w)
    /\ EndCall(w, "raised")
    /\ UNCHANGED <<workspaceMade, residue, patches, validations, summary, previews, requests>>

ApplierDies(w) ==
    /\ ~IsIdle(w) /\ disruptions < MaxRemediationFaults
    /\ disruptions' = disruptions + 1
    /\ residue' = IF applier[w].at = "check" THEN residue ELSE residue \cup {w}
    /\ RestoreBegun(w)
    /\ EndCall(w, "none")
    /\ UNCHANGED <<workspaceMade, patches, validations, summary, previews, requests>>

-----------------------------------------------------------------------------
(* The gates.  An adapter answers, names another kind, times out or raises; it is asked
   again until it passes or the attempts are used up. *)

GateAnswers == {"passed", "failed", "other_kind", "timeout", "error"}
FallbackResult(a) == CASE a = "other_kind" -> "blocked" [] a = "timeout" -> "unavailable"
                       [] a = "error" -> "unavailable" [] OTHER -> a
GateResult(as) == IF \E k \in 1..MaxGateAttempts : as[k] = "passed" THEN "passed"
                  ELSE FallbackResult(as[MaxGateAttempts])
GateResults == {GateResult(as) : as \in [1..MaxGateAttempts -> GateAnswers]}
GateSummary(r, s) == IF r = "passed" /\ s = "passed" THEN "passed" ELSE "blocked"

RunGates ==
    /\ workspaceMade /\ patches # {}
    /\ \E r, s \in GateResults : summary' = {GateSummary(r, s)}
    /\ UNCHANGED <<bench, patches, validations, previews, requests>>

-----------------------------------------------------------------------------
(* The preview. *)

\* Mutant: the validation may be of another patch.
AnyValidation(p, v) ==
    /\ v.status = "passed"
    /\ summary = {"passed"}

(* build_preview_request: the summary does not say which patch it is about. *)
PreviewRequested(p, v) ==
    /\ v.status = "passed"
    /\ v.patch = p.id
    /\ summary = {"passed"}

(* FixturePreviewAdapter.request and UnapprovedVercelPreviewAdapter.request. *)
PreviewOutcome(adapter, policy, smoke, security) ==
    IF \/ adapter = "vercel"
       \/ policy.mode # "fixture" \/ ~policy.reviewed \/ ~policy.fixtureProject
    THEN "blocked"
    ELSE IF smoke /\ security THEN "passed" ELSE "failed"

PreviewRequest(p, policy) ==
    [id |-> <<p.id, policy>>, patch |-> p.id, tenant |-> p.content.context.tenant,
     rollback |-> p.content.rollback]
PreviewResult(request, status) ==
    [id |-> request.id, patch |-> request.patch, tenant |-> request.tenant,
     rollback |-> request.rollback, status |-> status]

Preview(p, policy) ==
    /\ \E v \in validations : PreviewRequested(p, v)
    /\ \E adapter \in {"fixture", "vercel"}, smoke, security \in BOOLEAN :
          previews' = {PreviewResult(PreviewRequest(p, policy),
                                     PreviewOutcome(adapter, policy, smoke, security))}
    /\ UNCHANGED <<bench, patches, validations, summary, requests>>

-----------------------------------------------------------------------------
(* The approval queue, in memory. *)

ApprovalId(tenant, patch, preview, rollback) == <<tenant, patch, preview, rollback>>
PendingRequest(v, tenant, rollback) ==
    [id |-> ApprovalId(tenant, v.patch, v.id, rollback), tenant |-> tenant, patch |-> v.patch,
     preview |-> v.id, status |-> "pending", decision |-> "none"]

(* ApprovalQueue.request: asked again, a pending request is returned as it is and a
   decided one differs from the candidate, which is an error. *)
RequestApproval(tenant, rollback) ==
    /\ \E v \in previews :
          /\ v.status = "passed"
          /\ v.tenant = tenant /\ v.rollback = rollback
          /\ LET new == PendingRequest(v, tenant, rollback)
             IN  /\ \A r \in requests : r.id = new.id => r = new
                 /\ requests' = requests \cup {new}
    /\ UNCHANGED <<bench, patches, validations, summary, previews>>

(* ApprovalQueue.decide. *)
Decide(r, actor, decision, reference) ==
    /\ r.tenant = actor
    /\ \/ r.status = "pending"
       \/ r.status = decision /\ r.decision = reference
    /\ requests' = (requests \ {r}) \cup {[r EXCEPT !.status = decision, !.decision = reference]}
    /\ UNCHANGED <<bench, patches, validations, summary, previews>>

(* The queue and what the callers hold are lost with the process. *)
ForgetRequests ==
    /\ disruptions < MaxRemediationFaults /\ requests # {}
    /\ disruptions' = disruptions + 1
    /\ requests' = {} /\ previews' = {} /\ summary' = {}
    /\ UNCHANGED <<tree, workspaceMade, applier, residue, patches, validations>>

-----------------------------------------------------------------------------
RemediationInit ==
    /\ tree \in [Paths -> FileContents \cup {Gone}]
    /\ workspaceMade = TRUE
    /\ patches = {}
    /\ applier = [w \in Appliers |-> IdleWorker]
    /\ residue = {}
    /\ validations = {} /\ summary = {} /\ previews = {} /\ requests = {}
    /\ disruptions = 0

ApplyStep(w) ==
    \/ \E p \in patches, call \in {"validate", "apply"} : BeginCall(w, p, call)
    \/ CheckChange(w) \/ StageChange(w) \/ ReplaceFile(w) \/ ApplyFails(w)
    \/ RestoreFile(w) \/ RestoreRaises(w) \/ ApplierDies(w)

ReviewStep ==
    \/ RunGates
    \/ \E p \in patches, policy \in Policies : Preview(p, policy)
    \/ \E t \in Tenants, k \in {b.rollback : b \in Proposals} : RequestApproval(t, k)
    \/ \E r \in requests, t \in Tenants, d \in {"approved", "rejected"}, k \in References :
          Decide(r, t, d, k)
    \/ ForgetRequests

RemediationNext ==
    \/ \E b \in Proposals : Build(b)
    \/ ReplaceChanges \/ CreateWorkspace \/ DestroyWorkspace
    \/ \E f \in Paths, c \in FileContents \cup {Gone, Link} : EditWorkspace(f, c)
    \/ \E w \in Appliers : ApplyStep(w)
    \/ ReviewStep

RemediationSpec == RemediationInit /\ [][RemediationNext]_remediationVars

-----------------------------------------------------------------------------
(* Every variable holds values of its kind. *)
RemediationTypeOK ==
    /\ tree \in [Paths -> FileContents \cup {Gone, Link}]
    /\ workspaceMade \in BOOLEAN
    /\ \A w \in Appliers :
          /\ applier[w].at \in {"idle", "check", "stage", "replace", "restore"}
          /\ applier[w].answer \in {"none", "passed", "blocked", "raised"}
          /\ Cardinality(applier[w].patch) = (IF IsIdle(w) THEN 0 ELSE 1)
    /\ residue \subseteq Appliers
    /\ \A v \in validations : v.status \in {"passed", "blocked"}
    /\ summary \in {{}, {"passed"}, {"blocked"}} /\ Cardinality(previews) <= 1
    /\ disruptions \in 0..MaxRemediationFaults

(* apply_patch_atomically, when no other call and no edit touches the workspace meanwhile:
   answered "passed" every file of the patch has its new content and no other file has
   changed; answered "blocked", after any step failed, every file is as it was found,
   unless the workspace had a file of a name that an original is restored under. *)
NamesFree(found, cs) ==
    \A k \in 1..Len(cs) :
       RestoreNames[cs[k].path] \in Paths => found[RestoreNames[cs[k].path]] = Gone
PatchedTree(found, cs) ==
    [f \in Paths |-> IF \E k \in 1..Len(cs) : cs[k].path = f
                     THEN (CHOOSE k \in 1..Len(cs) : cs[k].path = f) ELSE 0]
PatchIsWholeOrUndone ==
    [][\A w \in Appliers :
          applier[w].call = "apply" /\ applier[w].alone /\ applier'[w].at = "idle"
          => LET cs == CurrentChanges(w)
                 patched == PatchedTree(applier[w].found, cs)
             IN  /\ applier'[w].answer = "passed" =>
                       \A f \in Paths :
                          tree'[f] = IF patched[f] = 0 THEN applier[w].found[f]
                                     ELSE cs[patched[f]].after
                 /\ applier'[w].answer = "blocked" /\ NamesFree(applier[w].found, cs)
                    => tree' = applier[w].found]_remediationVars

(* A request that is approved was decided by the tenant whose patch it is; a validation or an
   application of that very patch had passed, whose identity is that of a patch which was
   built for this workspace, and its preview was a reviewed fixture. *)
ApprovalIsEarned ==
    \A r \in requests : r.status = "approved" =>
       /\ [patch |-> r.patch, status |-> "passed"] \in validations
       /\ r.tenant = JobContext.tenant
       /\ r.preview[1] = r.patch
       /\ r.preview[2].mode = "fixture" /\ r.preview[2].reviewed
       /\ \E p \in patches : Identified(p) /\ p.id = r.patch
=============================================================================
