----------------------------- MODULE Deployment -----------------------------
(***************************************************************************)
(* The production deployment controller (appcare/deployment): controllers  *)
(* that share one durable store and drive an external provider.            *)
(*                                                                         *)
(* A controller runs one call at a time, and a call is a sequence of       *)
(* steps separated by store saves and provider calls.  Anything may happen *)
(* between two steps: another controller's step, an operator's stop or     *)
(* revocation, or a crash.  A step that builds a new version of a record   *)
(* leaves it in call[c].rec with pc = "save"; Save(c) is the store         *)
(* transaction.  Calls that return without saving (an intent that is       *)
(* already registered, decided or terminal) change nothing and have no     *)
(* action.                                                                 *)
(*                                                                         *)
(* Save(c) is atomic here.  What overlapping SQL transactions add is the   *)
(* subject of DeploymentStore.tla.                                         *)
(***************************************************************************)
EXTENDS Naturals, Sequences, FiniteSets

CONSTANTS Controllers,  \* controller objects, each in its own process
          Intents,      \* immutable deployment intents of one tenant
          Keys,         \* idempotency keys
          KeyOf,        \* the key of each intent
          Creds,        \* opaque credential references
          CredOf,       \* the credential each intent deploys with
          NoIntent      \* a value that is not an intent

ASSUME KeyOfAssumption  == KeyOf \in [Intents -> Keys]
ASSUME CredOfAssumption == CredOf \in [Intents -> Creds]
ASSUME NoIntentAssumption == NoIntent \notin Intents

VARIABLES
    row,      \* the durable record of each intent, with its evidence rows
    preprod,  \* the immutable pre-production evidence an intent names
    stop,     \* the durable emergency-stop latch
    revoked,  \* the durable set of revoked credentials
    cache,    \* what each controller believes of the latch and revocations
    call,     \* the call each controller is in
    deploys   \* provider.deploy calls each controller has made per intent

vars == <<row, preprod, stop, revoked, cache, call, deploys>>

-----------------------------------------------------------------------------
(* Records and calls *)

Terminal == {"succeeded", "rolled_back", "rollback_failed",
             "denied", "emergency_stopped", "failed"}
InFlight == {"deploying", "verifying", "rolling_back"}
Statuses == Terminal \cup InFlight \cup {"approval_pending", "approved"}

VerifyFailures == {"verification_provider_failed", "verification_identity_mismatch",
                   "post_deploy_verification_failed"}
RollbackReasons == VerifyFailures \cup {"provider_identity_mismatch"}
Reasons == RollbackReasons \cup
    {"intent_submitted", "backup_gate_required", "credential_revoked",
     "verified_preproduction_environment_required", "emergency_stop_active",
     "approval_accepted", "approval_rejected", "approval_identity_mismatch",
     "approval_required", "restart_recovery_required", "deployment_started",
     "provider_deploy_failed", "deployment_identity_verified",
     "post_deploy_verification_passed", "rollback_failed",
     "rollback_identity_or_execution_failed"}

Entry == [from : Statuses, to : Statuses, reason : Reasons]

\* dep is what the provider said it deployed, compared with the intent;
\* verified and rolledBack are the tri-state verification_passed and
\* rollback_succeeded columns.
Record == [backup     : BOOLEAN,
           status     : Statuses \cup {"none"},
           approved   : BOOLEAN,
           dep        : {"none", "match", "mismatch"},
           verified   : {"none", "passed", "failed"},
           rolledBack : {"none", "yes", "no"},
           evidence   : Seq(Entry)]

NoRecord == [backup |-> FALSE, status |-> "none", approved |-> FALSE, dep |-> "none",
             verified |-> "none", rolledBack |-> "none", evidence |-> <<>>]

\* then is the step that follows the pending save; verdict is the provider's
\* answer to verify; barred records (for the properties only) whether the
\* stop or the revocation was already durable when the call began.
Steps == {"idle", "gate", "deploy", "identify", "verify", "judge", "rollback"}
Call == [pc : Steps \cup {"save"}, then : Steps, intent : Intents \cup {NoIntent}, rec : Record,
         verdict : {"none", "passed"} \cup VerifyFailures, barred : BOOLEAN]

Idle == [pc |-> "idle", then |-> "idle", intent |-> NoIntent, rec |-> NoRecord,
         verdict |-> "none", barred |-> FALSE]

\* Mutant: the entry is built from the record after the change.
TransitionFromNew(rec, s, r) ==
    [rec EXCEPT !.status = s,
                !.evidence = Append(@, [from |-> s, to |-> s, reason |-> r])]

\* A record after one audited status transition.
Transition(rec, s, r) ==
    [rec EXCEPT !.status = s,
                !.evidence = Append(@, [from |-> rec.status, to |-> s, reason |-> r])]

-----------------------------------------------------------------------------
(* The durable store *)

\* Mutant: compare lengths only.
ExtendsByLength(new, old) == Len(old) <= Len(new)

\* The stored evidence must be a prefix of the evidence that replaces it.
Extends(new, old) ==
    /\ Len(old) <= Len(new)
    /\ \A k \in 1..Len(old) : new[k] = old[k]

DistinctEntries(s) == \A j, k \in 1..Len(s) : s[j] = s[k] => j = k

\* Mutant: no uniqueness constraint on the key, and no lookup by it.
KeyNeverTaken(i) == i \notin Intents

KeyTaken(i) == \E j \in Intents : j # i /\ row[j].status # "none" /\ KeyOf[j] = KeyOf[i]

Accepts(i, rec) ==
    /\ Extends(rec.evidence, row[i].evidence)
    /\ DistinctEntries(rec.evidence)
    /\ row[i].status = "none" => ~KeyTaken(i)

Authoritative(i) == preprod[i] = "passed"

-----------------------------------------------------------------------------
Init ==
    /\ row = [i \in Intents |-> NoRecord]
    /\ preprod = [i \in Intents |-> "none"]
    /\ stop = FALSE
    /\ revoked = {}
    /\ cache = [c \in Controllers |-> [stop |-> FALSE, revoked |-> {}]]
    /\ call = [c \in Controllers |-> Idle]
    /\ deploys = [c \in Controllers |-> [i \in Intents |-> 0]]

durable == <<row, preprod, stop, revoked>>
settings == <<preprod, stop, revoked, cache>>

\* Leave rec to be saved, and go on with step next once it is.
SaveThen(c, rec, next) ==
    call' = [call EXCEPT ![c].pc = "save", ![c].rec = rec, ![c].then = next]

Finish(c, rec) == SaveThen(c, rec, "idle")

\* A call on intent i that first saves rec and then goes on with step next.
Opened(i, rec, next) ==
    [Idle EXCEPT !.pc = "save", !.then = next, !.intent = i, !.rec = rec]

\* One call of store.save: the row is replaced, or the call raises.
Save(c) ==
    LET i == call[c].intent
        rec == call[c].rec
    IN  /\ call[c].pc = "save"
        /\ \/ /\ Accepts(i, rec)
              /\ row' = [row EXCEPT ![i] = rec]
              /\ call' = IF call[c].then = "idle"
                           THEN [call EXCEPT ![c] = Idle]
                           ELSE [call EXCEPT ![c].pc = call[c].then]
           \/ /\ ~Accepts(i, rec)
              /\ call' = [call EXCEPT ![c] = Idle]
              /\ UNCHANGED row
        /\ UNCHANGED <<settings, deploys>>

-----------------------------------------------------------------------------
(* submit *)

\* The lookups by key and by intent find nothing.
Submit(c, i, backupVerified) ==
    /\ call[c].pc = "idle"
    /\ row[i].status = "none" /\ ~KeyTaken(i)
    /\ LET rec == [NoRecord EXCEPT !.status = "approval_pending", !.backup = backupVerified]
       IN  call' = [call EXCEPT ![c] = Opened(i, rec, "gate")]
    /\ UNCHANGED <<durable, cache, deploys>>

\* Mutant: the backup gate is skipped.
GateOutcomeWithoutBackup(c, i, backupVerified) ==
    IF cache[c].stop THEN <<"emergency_stopped", "emergency_stop_active">>
    ELSE IF ~Authoritative(i)
           THEN <<"denied", "verified_preproduction_environment_required">>
    ELSE <<"approval_pending", "intent_submitted">>

\* The status and reason the gates settle on: the first that fails decides.
GateOutcome(c, i, backupVerified) ==
    IF cache[c].stop THEN <<"emergency_stopped", "emergency_stop_active">>
    ELSE IF ~backupVerified THEN <<"denied", "backup_gate_required">>
    ELSE IF ~Authoritative(i)
           THEN <<"denied", "verified_preproduction_environment_required">>
    ELSE IF CredOf[i] \in cache[c].revoked THEN <<"denied", "credential_revoked">>
    ELSE <<"approval_pending", "intent_submitted">>

\* The gates run once the record is durable.
Gate(c) ==
    LET outcome == GateOutcome(c, call[c].intent, call[c].rec.backup)
    IN  /\ call[c].pc = "gate"
        /\ Finish(c, Transition(call[c].rec, outcome[1], outcome[2]))
        /\ UNCHANGED <<durable, cache, deploys>>

(* approve *)

\* Mutant: a rejection becomes a status of its own, outside the status column's domain.
DecidedRejected(rec, decision) ==
    IF decision = "approved"
      THEN Transition([rec EXCEPT !.approved = TRUE], "approved", "approval_accepted")
      ELSE Transition(rec, "rejected", "approval_rejected")

\* An approval names the digest of the intent it is for, and a decision.
Decided(rec, decision) ==
    CASE decision = "other_intent" -> Transition(rec, "denied", "approval_identity_mismatch")
      [] decision = "rejected"     -> Transition(rec, "denied", "approval_rejected")
      [] decision = "approved"     -> Transition([rec EXCEPT !.approved = TRUE],
                                                 "approved", "approval_accepted")

Approve(c, i, decision) ==
    /\ call[c].pc = "idle"
    /\ row[i].status = "approval_pending"
    /\ call' = [call EXCEPT ![c] = Opened(i, Decided(row[i], decision), "idle")]
    /\ UNCHANGED <<durable, cache, deploys>>

-----------------------------------------------------------------------------
(* execute *)

\* A call of execute whose first save is rec.
Begin(c, i, rec, next) ==
    /\ call[c].pc = "idle"
    /\ call' = [call EXCEPT ![c] = [Opened(i, rec, next) EXCEPT
                                       !.barred = stop \/ CredOf[i] \in revoked]]
    /\ UNCHANGED <<durable, cache, deploys>>

\* Mutant: a record found in flight is deployed again.
ExecuteResumes(c, i) ==
    /\ row[i].status \in InFlight
    /\ Begin(c, i, Transition(row[i], "deploying", "deployment_started"), "deploy")

\* A record found in flight belonged to a process that is presumed dead.
ExecuteInFlight(c, i) ==
    /\ row[i].status \in InFlight
    /\ Begin(c, i, Transition(row[i], "failed", "restart_recovery_required"), "idle")

ExecuteUnapproved(c, i) ==
    /\ row[i].status = "approval_pending"
    /\ Begin(c, i, Transition(row[i], "denied", "approval_required"), "idle")

ExecuteRefused(c, i) ==
    /\ row[i].status = "approved"
    /\ \/ /\ cache[c].stop
          /\ Begin(c, i, Transition(row[i], "emergency_stopped", "emergency_stop_active"),
                   "idle")
       \/ /\ ~cache[c].stop /\ CredOf[i] \in cache[c].revoked
          /\ Begin(c, i, Transition(row[i], "denied", "credential_revoked"), "idle")
       \/ /\ ~cache[c].stop /\ CredOf[i] \notin cache[c].revoked /\ ~Authoritative(i)
          /\ Begin(c, i, Transition(row[i], "denied",
                                    "verified_preproduction_environment_required"), "idle")

\* Mutant: the pre-production evidence is not looked up again.
ExecuteTrustingSubmit(c, i) ==
    /\ row[i].status = "approved"
    /\ ~cache[c].stop /\ CredOf[i] \notin cache[c].revoked
    /\ Begin(c, i, Transition(row[i], "deploying", "deployment_started"), "deploy")

\* Mutant: a submitted intent deploys without waiting for its approval.
ExecuteUnasked(c, i) ==
    /\ row[i].status \in {"approval_pending", "approved"}
    /\ ~cache[c].stop /\ CredOf[i] \notin cache[c].revoked /\ Authoritative(i)
    /\ Begin(c, i, Transition(row[i], "deploying", "deployment_started"), "deploy")

ExecuteStart(c, i) ==
    /\ row[i].status = "approved"
    /\ ~cache[c].stop /\ CredOf[i] \notin cache[c].revoked /\ Authoritative(i)
    /\ Begin(c, i, Transition(row[i], "deploying", "deployment_started"), "deploy")

\* provider.deploy raises, or reports what it deployed.
ProviderDeploy(c) ==
    LET rec == call[c].rec
    IN  /\ call[c].pc = "deploy"
        /\ deploys' = [deploys EXCEPT ![c][call[c].intent] = @ + 1]
        /\ \/ Finish(c, Transition(rec, "failed", "provider_deploy_failed"))
           \/ \E d \in {"match", "mismatch"} :
                 SaveThen(c, [rec EXCEPT !.dep = d], "identify")
        /\ UNCHANGED <<durable, cache>>

RollBack(c, reason) ==
    SaveThen(c, Transition(call[c].rec, "rolling_back", reason), "rollback")

\* Mutant: what the provider says it deployed is not compared.
IdentifyNothing(c) ==
    /\ call[c].pc = "identify"
    /\ SaveThen(c, Transition(call[c].rec, "verifying", "deployment_identity_verified"),
                "verify")
    /\ UNCHANGED <<durable, cache, deploys>>

Identify(c) ==
    LET rec == call[c].rec
    IN  /\ call[c].pc = "identify"
        /\ IF rec.dep = "mismatch"
             THEN RollBack(c, "provider_identity_mismatch")
             ELSE SaveThen(c, Transition(rec, "verifying", "deployment_identity_verified"),
                           "verify")
        /\ UNCHANGED <<durable, cache, deploys>>

\* provider.verify raises, or answers; the answer is judged once it is saved.
ProviderVerify(c) ==
    /\ call[c].pc = "verify"
    /\ \/ RollBack(c, "verification_provider_failed")
       \/ \E v \in {"passed", "verification_identity_mismatch",
                    "post_deploy_verification_failed"} :
             call' = [call EXCEPT ![c].pc = "save", ![c].then = "judge", ![c].verdict = v]
    /\ UNCHANGED <<durable, cache, deploys>>

Judge(c) ==
    /\ call[c].pc = "judge"
    /\ IF call[c].verdict = "passed"
         THEN Finish(c, Transition([call[c].rec EXCEPT !.verified = "passed"],
                                   "succeeded", "post_deploy_verification_passed"))
         ELSE RollBack(c, call[c].verdict)
    /\ UNCHANGED <<durable, cache, deploys>>

\* Mutant: a failed rollback is tried again.
ProviderRollbackRetried(c) ==
    LET rec == call[c].rec
    IN  /\ call[c].pc = "rollback"
        /\ \/ SaveThen(c, [rec EXCEPT !.rolledBack = "no"], "rollback")
           \/ Finish(c, Transition([rec EXCEPT !.rolledBack = "yes", !.verified = "failed"],
                                   "rolled_back", rec.evidence[Len(rec.evidence)].reason))
        /\ UNCHANGED <<durable, cache, deploys>>

\* provider.rollback raises, reports a failure or another release, or succeeds.
\* The last audit entry carries the reason the rollback was begun for.
ProviderRollback(c) ==
    LET rec == call[c].rec
        cause == rec.evidence[Len(rec.evidence)].reason
        failed == [rec EXCEPT !.rolledBack = "no"]
    IN  /\ call[c].pc = "rollback"
        /\ \/ Finish(c, Transition(failed, "rollback_failed", "rollback_failed"))
           \/ Finish(c, Transition(failed, "rollback_failed",
                                   "rollback_identity_or_execution_failed"))
           \/ Finish(c, Transition([rec EXCEPT !.rolledBack = "yes", !.verified = "failed"],
                                   "rolled_back", cause))
        /\ UNCHANGED <<durable, cache, deploys>>

-----------------------------------------------------------------------------
(* Operators, other services and crashes *)

EmergencyStop(c) ==
    /\ stop' = TRUE
    /\ cache' = [cache EXCEPT ![c].stop = TRUE]
    /\ UNCHANGED <<row, preprod, revoked, call, deploys>>

RevokeCredential(c, cred) ==
    /\ revoked' = revoked \cup {cred}
    /\ cache' = [cache EXCEPT ![c].revoked = @ \cup {cred}]
    /\ UNCHANGED <<row, preprod, stop, call, deploys>>

\* The evidence store accepts one immutable record per exact artifact identity.
RecordPreproduction(i, outcome) ==
    /\ preprod[i] = "none"
    /\ preprod' = [preprod EXCEPT ![i] = outcome]
    /\ UNCHANGED <<row, stop, revoked, cache, call, deploys>>

\* Mutant: a new controller does not read the latch and the revocations back.
RestartForgetting(c) ==
    /\ call' = [call EXCEPT ![c] = Idle]
    /\ cache' = [cache EXCEPT ![c] = [stop |-> FALSE, revoked |-> {}]]
    /\ UNCHANGED <<durable, deploys>>

\* A process dies, whatever it was doing, and a controller is built anew.
Restart(c) ==
    /\ call' = [call EXCEPT ![c] = Idle]
    /\ cache' = [cache EXCEPT ![c] = [stop |-> stop, revoked |-> revoked]]
    /\ UNCHANGED <<durable, deploys>>

-----------------------------------------------------------------------------
\* What a call in progress does next.
Step(c) == \/ Save(c) \/ Gate(c) \/ ProviderDeploy(c) \/ Identify(c)
           \/ ProviderVerify(c) \/ Judge(c) \/ ProviderRollback(c)

StartCall(c) ==
    \E i \in Intents :
        \/ \E b \in BOOLEAN : Submit(c, i, b)
        \/ \E d \in {"approved", "rejected", "other_intent"} : Approve(c, i, d)
        \/ ExecuteInFlight(c, i) \/ ExecuteUnapproved(c, i)
        \/ ExecuteRefused(c, i) \/ ExecuteStart(c, i)

Operate(c) == EmergencyStop(c) \/ \E cred \in Creds : RevokeCredential(c, cred)

Next ==
    \/ \E c \in Controllers : StartCall(c) \/ Step(c) \/ Operate(c) \/ Restart(c)
    \/ \E i \in Intents, o \in {"passed", "failed"} : RecordPreproduction(i, o)

Spec == Init /\ [][Next]_vars

\* A call is a synchronous function whose provider calls return or raise; the
\* process that runs it may still crash.
FairSpec == Spec /\ \A c \in Controllers : WF_vars(Step(c))

-----------------------------------------------------------------------------
(* Properties *)

\* Every variable has its type.
TypeOK ==
    /\ row \in [Intents -> Record]
    /\ preprod \in [Intents -> {"none", "passed", "failed"}]
    /\ stop \in BOOLEAN
    /\ revoked \subseteq Creds
    /\ cache \in [Controllers -> [stop : BOOLEAN, revoked : SUBSET Creds]]
    /\ call \in [Controllers -> Call]
    /\ deploys \in [Controllers -> [Intents -> Nat]]

\* Every durable status is accounted for by the audit evidence, whichever
\* controllers and crashes produced it: entries chain, the first leaves
\* approval_pending and the last arrives at the status.
AuditAccountsForStatus ==
    \A i \in Intents :
        LET ev == row[i].evidence
        IN  row[i].status # "none" =>
              /\ \A k \in 1..Len(ev) :
                    ev[k].from = IF k = 1 THEN "approval_pending" ELSE ev[k-1].to
              /\ row[i].status = IF ev = <<>> THEN "approval_pending" ELSE ev[Len(ev)].to

\* A record says "succeeded" only when it was approved, its pre-production
\* evidence passed, the provider reported the intended artifact and the
\* post-deploy verification passed, whichever executor wrote it last.
SuccessWasEarned ==
    \A i \in Intents :
        row[i].status = "succeeded" =>
            /\ row[i].approved /\ Authoritative(i)
            /\ row[i].dep = "match" /\ row[i].verified = "passed"

\* provider.deploy is called only for an approved intent whose exact
\* pre-production evidence passed, and whose status left "approved" for good.
DeployIsAuthorised ==
    \A c \in Controllers :
        call[c].pc = "deploy" =>
            LET i == call[c].intent
            IN  /\ call[c].rec.approved /\ Authoritative(i)
                /\ row[i].status \notin {"none", "approval_pending", "approved"}

\* A controller calls provider.deploy at most once per intent, over all the
\* calls and restarts of its life.
DeployOncePerController ==
    \A c \in Controllers, i \in Intents : deploys[c][i] <= 1

\* An idempotency key belongs to at most one registered intent.
KeyIsUnique ==
    \A i, j \in Intents :
        row[i].status # "none" /\ row[j].status # "none" /\ KeyOf[i] = KeyOf[j] => i = j

\* The provider is asked to deploy an intent once, by all controllers together.
DeployOnce ==
    \A c, d \in Controllers, i \in Intents :
        deploys[c][i] > 0 /\ deploys[d][i] > 0 => c = d /\ deploys[c][i] = 1

\* A call of execute that began after the stop was latched, or after its
\* credential was revoked, never reaches provider.deploy.
StopBarsDeploy == \A c \in Controllers : call[c].pc = "deploy" => ~call[c].barred

\* A record that reaches provider.deploy has a verified backup.
BackupBeforeDeploy == \A c \in Controllers : call[c].pc = "deploy" => call[c].rec.backup

\* The same for records whose submit ran to its end: the gates' own entry
\* guarantees the backup they demanded.
GatedRecordHasBackup ==
    \A i \in Intents :
        /\ row[i].evidence # <<>>
        /\ row[i].evidence[1].reason = "intent_submitted"
        => row[i].backup /\ Authoritative(i)

\* Once a record is terminal, its status and its evidence never change again,
\* whatever an executor that was still running tries to save.
TerminalIsFinal ==
    [][\A i \in Intents : row[i].status \in Terminal =>
          row'[i].status = row[i].status /\ row'[i].evidence = row[i].evidence]_vars

\* Each record follows the abstract lifecycle: one audited move at a time.
Lifecycle == INSTANCE DeploymentLifecycle
                 WITH status <- [i \in Intents |-> row[i].status],
                      trail  <- [i \in Intents |-> row[i].evidence]

ImplementsLifecycle == Lifecycle!LifecycleSpec

\* A call that is not interrupted for ever comes back to its caller.
CallsReturn == \A c \in Controllers : call[c].pc # "idle" ~> call[c].pc = "idle"
=============================================================================
