------------------------------ MODULE Workflow ------------------------------
(***************************************************************************)
(* One durable AppCare workflow (appcare/workflows): the graph of          *)
(* graph.py, run by workers that share a checkpoint, the ledger of         *)
(* external actions and the trail of transitions.                          *)
(*                                                                         *)
(* A worker invokes the graph: it delivers the workflow's initial state,   *)
(* which runs the graph from its start, or resumes the last checkpoint.    *)
(* Each node of the graph is one or more steps; the checkpoint is written  *)
(* after the node (LangGraph, external).  Any worker may crash between two *)
(* steps: what it had in memory is lost, an open database transaction is   *)
(* rolled back, and the row lock it held is released.                      *)
(*                                                                         *)
(* Abstracted: evidence references are a flag (any or none), failure codes *)
(* an adapter chooses are two values, and the cost of a fresh result       *)
(* either fits the remaining budget or does not.  A cached result costs    *)
(* nothing.                                                                *)
(***************************************************************************)
EXTENDS Naturals, FiniteSets

CONSTANTS Workers,      \* processes that may invoke the workflow's graph
          Resolvers,    \* those whose runtime has a pre-production evidence resolver
          Jobs,         \* what a workflow may be started for
          MaxCalls,     \* bound on invocations for each job, for model checking
          MaxCrashes    \* bound on crashes, for model checking

ASSUME JobsAssumption ==
    Jobs \subseteq [valid : BOOLEAN, production : BOOLEAN, risky : BOOLEAN, inScope : BOOLEAN,
                   backup : BOOLEAN, attempts : 1..10]
ASSUME ResolversAssumption == Resolvers \subseteq Workers
ASSUME MaxCallsAssumption == MaxCalls \in [Jobs -> Nat]
ASSUME MaxCrashesAssumption == MaxCrashes \in Nat

VARIABLES
    job,         \* what the workflow was started for, with the attempts its
                 \* retry budget allows; never changes
    preprod,     \* the immutable pre-production evidence the job names
    checkpoint,  \* the durable graph state
    ledger,      \* the durable row of each external action
    trail,       \* the durable transitions
    run,         \* the invocation each worker is in
    \* What happened in the world, for the properties:
    executed,    \* executions of each action by its adapter
    verdict,     \* what the committed post-deploy verification found
    approvals,   \* whether an operator ever approved
    calls,       \* invocations so far
    crashes      \* crashes so far

vars == <<job, preprod, checkpoint, ledger, trail, run,
          executed, verdict, approvals, calls, crashes>>
world == <<executed, verdict, approvals, calls, crashes>>

-----------------------------------------------------------------------------
(* Graph states, transitions and invocations *)

Actions == {"asset_inventory", "isolated_workspace", "remediation_plan", "patch_test",
            "controlled_deploy", "post_deploy_verify", "rollback"}
Gates == {"intake", "scope", "backup_gate", "parallel_scans", "evidence_gate",
          "risk_policy", "approval", "monitor_report", "failure"}
Nodes == Actions \cup Gates
Phases == (Nodes \ {"failure"}) \cup {"completed", "escalated"}

ActionCodes == {"action_failed", "transient_failure", "retry_budget_exhausted",
                "cost_budget_exhausted"}
Codes == ActionCodes \cup
    {"none", "workflow_state_rejected", "scope_boundary_rejected", "backup_not_verified", "scanner_failure",
     "evidence_missing", "verified_preproduction_environment_required",
     "approval_rejected", "approval_required_before_deploy",
     "post_deploy_verification_failed"}

\* node is the graph node that runs next.
State == [node : Nodes \cup {"end"}, phase : Phases,
          status : {"running", "failed", "escalated", "rolled_back", "completed"},
          failure : Codes,
          approval : {"not_required", "required", "approved"},
          deployment : {"not_started", "deployed", "failed", "verified"},
          evidence : BOOLEAN]

InitialState ==
    [node |-> "intake", phase |-> "intake", status |-> "running", failure |-> "none",
     approval |-> "not_required", deployment |-> "not_started", evidence |-> FALSE]

Transition == [node : Nodes, tag : {"succeeded", "not_required", "paused", "failed", "terminal"}, code : Codes,
               from : Phases, to : Phases,
               outcome : {"succeeded", "failed", "paused", "escalated"}]

\* The key a transition is recorded under.
Key(t) == <<t.node, t.tag, t.code>>

\* The outcome of an action as its node sees it: a success with or without
\* evidence, a verification that did not pass, or an error.
Successes == {"ok", "evidence", "not_passed"}
Outcomes == {"none"} \cup Successes \cup ActionCodes

Invocation == [pc : {"off", "node", "decide", "claim", "attempt", "commit", "leave", "save"},
               state : State, decision : {"none", "approved", "rejected", "incomplete"},
               tries : 0..10, outcome : Outcomes, over : BOOLEAN]

Off == [pc |-> "off", state |-> InitialState, decision |-> "none", tries |-> 0,
        outcome |-> "none", over |-> FALSE]

-----------------------------------------------------------------------------
(* What the nodes do *)

\* A transition recorded by the node that runs in state s.
Entry(s, tag, code, to, outcome) ==
    [node |-> s.node, tag |-> tag, code |-> code,
     from |-> s.phase, to |-> to, outcome |-> outcome]

\* The node after node, once it has left state s.
Route(node, s) ==
    CASE node \in {"monitor_report", "failure"} -> "end"
      [] node = "post_deploy_verify" /\ s.phase = "rollback" -> "rollback"
      [] OTHER -> IF s.failure # "none" THEN "failure" ELSE s.phase

Routed(s, update) == [update EXCEPT !.node = Route(s.node, update)]

\* A node's result: the transition it records and the state it leaves.
Result(s, entry, update) == [entry |-> entry, state |-> Routed(s, update)]

Proceed(s, next, update) ==
    Result(s, Entry(s, "succeeded", "none", next, "succeeded"), [update EXCEPT !.phase = next])

\* _failure: the node escalates.
Failure(s, code) ==
    Result(s, Entry(s, "failed", code, "escalated", "escalated"),
           [s EXCEPT !.phase = "escalated", !.status = "escalated", !.failure = code])

\* What worker w can establish about the job's pre-production evidence.
PreproductionVerified(w) == job.production => w \in Resolvers /\ preprod = "passed"

\* Mutant: a phase outside the domain of the phase field.
ScopeToInventory(s) == Proceed(s, "inventory", s)

Intake(s) == IF job.valid THEN Proceed(s, "scope", s)
                          ELSE Failure(s, "workflow_state_rejected")

Scope(s) == IF job.inScope THEN Proceed(s, "asset_inventory", s)
                           ELSE Failure(s, "scope_boundary_rejected")

\* Mutant: a backup that is merely required is good enough.
BackupGateOpen(s) == Proceed(s, "parallel_scans", s)

BackupGate(s) == IF job.backup THEN Proceed(s, "parallel_scans", s)
                               ELSE Failure(s, "backup_not_verified")

EvidenceGate(s) == IF s.evidence THEN Proceed(s, "risk_policy", s)
                                 ELSE Failure(s, "evidence_missing")

\* Mutant: only production asks for an approval.
RiskPolicyForProduction(s) ==
    Proceed(s, "isolated_workspace",
            [s EXCEPT !.approval = IF job.production THEN "required" ELSE "not_required"])

RiskPolicy(s) ==
    Proceed(s, "isolated_workspace",
            [s EXCEPT !.approval = IF job.production \/ job.risky THEN "required"
                                   ELSE "not_required"])

MonitorReport(s) ==
    Proceed(s, "completed", [s EXCEPT !.status = IF s.status = "rolled_back"
                                                 THEN "rolled_back" ELSE "completed"])

\* Mutant: a failed workflow is reported completed.
FailureNodeCompleted(s) ==
    Result(s, Entry(s, "terminal", s.failure, "completed", "failed"),
           [s EXCEPT !.phase = "completed", !.status = "completed"])

\* The last node of a workflow that failed.
FailureNode(s) ==
    Result(s, Entry(s, "terminal", s.failure, "escalated",
                    IF s.status = "escalated" THEN "escalated" ELSE "failed"),
           [s EXCEPT !.phase = "escalated", !.status = "escalated"])

\* The results of the nodes that call no action and ask no operator.  A scan
\* is not in the ledger: each time it runs it may fail, or bring evidence, anew.
GateResults(s) ==
    CASE s.node = "intake"         -> {Intake(s)}
      [] s.node = "scope"          -> {Scope(s)}
      [] s.node = "backup_gate"    -> {BackupGate(s)}
      [] s.node = "parallel_scans" ->
            {Failure(s, "scanner_failure"), Proceed(s, "evidence_gate", s),
             Proceed(s, "evidence_gate", [s EXCEPT !.evidence = TRUE])}
      [] s.node = "evidence_gate"  -> {EvidenceGate(s)}
      [] s.node = "risk_policy"    -> {RiskPolicy(s)}
      [] s.node = "monitor_report" -> {MonitorReport(s)}
      [] s.node = "failure"        -> {FailureNode(s)}

Approved(s) ==
    Proceed(s, "controlled_deploy", [s EXCEPT !.approval = "approved"])

NotRequired(s) ==
    Result(s, Entry(s, "not_required", "none", "controlled_deploy", "succeeded"),
           [s EXCEPT !.phase = "controlled_deploy", !.approval = "not_required"])

NextPhase == [asset_inventory |-> "backup_gate", isolated_workspace |-> "remediation_plan",
              remediation_plan |-> "patch_test", patch_test |-> "approval",
              controlled_deploy |-> "post_deploy_verify",
              post_deploy_verify |-> "monitor_report", rollback |-> "monitor_report"]

\* What the node of an action leaves when the action succeeded.
ActionResult(s, outcome) ==
    LET seen == [s EXCEPT !.evidence = @ \/ outcome = "evidence"]
    IN  CASE s.node = "controlled_deploy" ->
               Proceed(s, NextPhase[s.node],
                       [seen EXCEPT !.deployment = "deployed", !.status = "running"])
          [] s.node = "post_deploy_verify" /\ outcome = "not_passed" ->
               Result(s, Entry(s, "failed", "post_deploy_verification_failed",
                               "rollback", "failed"),
                      [seen EXCEPT !.phase = "rollback", !.status = "failed",
                                   !.deployment = "failed",
                                   !.failure = "post_deploy_verification_failed"])
          [] s.node = "post_deploy_verify" /\ outcome # "not_passed" ->
               Proceed(s, NextPhase[s.node], [seen EXCEPT !.deployment = "verified"])
          [] s.node = "rollback" ->
               Proceed(s, NextPhase[s.node],
                       [seen EXCEPT !.status = "rolled_back", !.failure = "none"])
          [] OTHER -> Proceed(s, NextPhase[s.node], [seen EXCEPT !.status = "running"])

\* Mutant: a deployment whose verification did not return is rolled back too.
ActionErrorRollsBack(s, code) ==
    IF s.node = "post_deploy_verify"
      THEN Routed(s, [s EXCEPT !.phase = "rollback", !.status = "failed"])
      ELSE Routed(s, [s EXCEPT !.failure = code])

\* What it leaves when the action failed: no transition, the failure node next.
ActionError(s, code) ==
    Routed(s, [s EXCEPT !.failure = code,
                        !.status = IF code = "action_failed" THEN "failed" ELSE "escalated"])

-----------------------------------------------------------------------------
\* No delivery has reached the thread: there is no checkpoint to resume.
Init ==
    /\ job \in Jobs
    /\ preprod = "none"
    /\ checkpoint = [InitialState EXCEPT !.node = "end"]
    /\ ledger = [a \in Actions |-> "none"]
    /\ trail = {}
    /\ run = [w \in Workers |-> Off]
    /\ executed = [a \in Actions |-> 0]
    /\ verdict = "none"
    /\ approvals = FALSE
    /\ calls = 0
    /\ crashes = 0

At(w, pc) == run[w].pc = pc
Ends(w) == run' = [run EXCEPT ![w] = Off]

\* Mutant: only successes are worth a transition.
LeaveRecordingSuccesses(w, r) ==
    /\ trail' = IF r.entry.outcome = "succeeded" THEN trail \cup {r.entry} ELSE trail
    /\ run' = [run EXCEPT ![w] = [Off EXCEPT !.pc = "save", !.state = r.state]]

\* The node records its transition and leaves its state to be checkpointed.  A
\* key that was recorded with other data raises out of the graph.
Leave(w, r) ==
    IF \E t \in trail : Key(t) = Key(r.entry) /\ t # r.entry
      THEN Ends(w) /\ UNCHANGED trail
      ELSE /\ trail' = trail \cup {r.entry}
           /\ run' = [run EXCEPT ![w] = [Off EXCEPT !.pc = "save", !.state = r.state]]

(* Invocations *)

Calls == calls < MaxCalls[job] /\ calls' = calls + 1

\* graph.invoke with the workflow's initial state: the first delivery of the
\* event, or a duplicate.
Deliver(w) ==
    /\ At(w, "off")
    /\ Calls
    /\ checkpoint' = InitialState
    /\ run' = [run EXCEPT ![w] = [Off EXCEPT !.pc = "node", !.state = InitialState]]
    /\ UNCHANGED <<job, preprod, ledger, trail, executed, verdict, approvals, crashes>>

\* graph.invoke on the thread: the node that was to run next is run, from its
\* start, with the operator's decision if there is one.
Resume(w, decision) ==
    /\ At(w, "off")
    /\ Calls
    /\ checkpoint.node # "end"
    /\ decision # "none" => checkpoint.node = "approval"
    /\ approvals' = (approvals \/ decision = "approved")
    /\ run' = [run EXCEPT ![w] = [Off EXCEPT !.pc = "node", !.state = checkpoint,
                                             !.decision = decision]]
    /\ UNCHANGED <<job, preprod, checkpoint, ledger, trail, executed, verdict, crashes>>

\* The checkpoint is written and the next node begins, or the graph ends.
Save(w) ==
    /\ At(w, "save")
    /\ checkpoint' = run[w].state
    /\ run' = [run EXCEPT ![w] = IF run[w].state.node = "end" THEN Off
                                 ELSE [Off EXCEPT !.pc = "node", !.state = run[w].state]]
    /\ UNCHANGED <<job, preprod, ledger, trail, world>>

Crash(w) ==
    /\ crashes < MaxCrashes
    /\ ~At(w, "off")
    /\ crashes' = crashes + 1
    /\ Ends(w)
    /\ UNCHANGED <<job, preprod, checkpoint, ledger, trail, executed, verdict, approvals, calls>>

RecordPreproduction(outcome) ==
    /\ preprod = "none"
    /\ preprod' = outcome
    /\ UNCHANGED <<job, checkpoint, ledger, trail, run, world>>

-----------------------------------------------------------------------------
(* Nodes without actions *)

RunGate(w) ==
    /\ At(w, "node")
    /\ run[w].state.node \in Gates \ {"approval"}
    /\ \E r \in GateResults(run[w].state) : Leave(w, r)
    /\ UNCHANGED <<job, preprod, checkpoint, ledger, world>>

\* The scan's evidence repeats a reference with another digest, or there are more
\* references with it than a state may hold: the node raises out of the graph.
ScanConflict(w) ==
    /\ At(w, "node") /\ run[w].state.node = "parallel_scans"
    /\ Ends(w)
    /\ UNCHANGED <<job, preprod, checkpoint, ledger, trail, world>>

\* approval, up to the interrupt.
Approval(w) ==
    LET s == run[w].state
        paused == Entry(s, "paused", "none", "approval", "paused")
    IN  /\ At(w, "node") /\ s.node = "approval"
        /\ IF ~PreproductionVerified(w)
             THEN Leave(w, Failure(s, "verified_preproduction_environment_required"))
           ELSE IF s.approval # "required"
             THEN Leave(w, NotRequired(s))
           ELSE /\ trail' = trail \cup {paused}
                /\ IF run[w].decision = "none" THEN Ends(w)
                   ELSE run' = [run EXCEPT ![w].pc = "decide"]
        /\ UNCHANGED <<job, preprod, checkpoint, ledger, world>>

\* approval, once interrupt returns the operator's decision.
Decide(w) ==
    LET s == run[w].state
    IN  /\ At(w, "decide")
        /\ CASE run[w].decision = "approved" -> Leave(w, Approved(s))
             [] run[w].decision = "rejected" -> Leave(w, Failure(s, "approval_rejected"))
             [] run[w].decision = "incomplete" -> Ends(w) /\ UNCHANGED trail
        /\ UNCHANGED <<job, preprod, checkpoint, ledger, world>>

-----------------------------------------------------------------------------
(* Nodes that run an action under the ledger *)

\* controlled_deploy's own guards, before it runs its action.
DeployAllowed(w) == PreproductionVerified(w) /\ run[w].state.approval # "required"

DeployRefused(w) ==
    LET s == run[w].state
    IN  /\ At(w, "node") /\ s.node = "controlled_deploy"
        /\ ~DeployAllowed(w)
        /\ Leave(w, Failure(s, IF PreproductionVerified(w)
                                 THEN "approval_required_before_deploy"
                                 ELSE "verified_preproduction_environment_required"))
        /\ UNCHANGED <<job, preprod, checkpoint, ledger, world>>

\* The action's row is created, if another worker has not created it.
CreateRow(w) ==
    LET s == run[w].state
    IN  /\ At(w, "node") /\ s.node \in Actions
        /\ s.node = "controlled_deploy" => DeployAllowed(w)
        /\ ledger' = [ledger EXCEPT ![s.node] = IF @ = "none" THEN "pending" ELSE @]
        /\ run' = [run EXCEPT ![w].pc = "claim"]
        /\ UNCHANGED <<job, preprod, checkpoint, trail, world>>

Locked(a) == \E w \in Workers : run[w].pc \in {"attempt", "commit"} /\ run[w].state.node = a

\* Mutant: only a settled success is not run again.
ReadRowRetrying(w) ==
    IF ledger[run[w].state.node] = "succeeded"
      THEN run' = [run EXCEPT ![w].pc = "leave", ![w].outcome = "ok"]
      ELSE run' = [run EXCEPT ![w].pc = "attempt"]

\* What the claim finds in the row.  A settled row is not run again: a success
\* is answered by its result reference alone.
ReadRow(w) ==
    LET row == ledger[run[w].state.node]
        settled(outcome) == run' = [run EXCEPT ![w].pc = "leave", ![w].outcome = outcome]
    IN  CASE row = "succeeded" -> settled("ok")
          [] row = "failed"    -> settled("action_failed")
          [] row = "escalated" -> settled("transient_failure")
          [] row = "pending"   -> run' = [run EXCEPT ![w].pc = "attempt"]

\* Mutant: the row is read without FOR UPDATE.
ClaimUnlocked(w) ==
    /\ At(w, "claim")
    /\ ReadRow(w)
    /\ UNCHANGED <<job, preprod, checkpoint, ledger, trail, world>>

\* The row is read under its lock, which is kept until the row is settled.
Claim(w) ==
    /\ At(w, "claim")
    /\ ~Locked(run[w].state.node)
    /\ ReadRow(w)
    /\ UNCHANGED <<job, preprod, checkpoint, ledger, trail, world>>

\* Mutant: a retryable error does not use up the retry budget.
AttemptWithoutBudget(w) ==
    /\ At(w, "attempt")
    /\ \/ UNCHANGED run
       \/ run' = [run EXCEPT ![w].pc = "commit", ![w].outcome = "ok"]
    /\ executed' = [executed EXCEPT ![run[w].state.node] = (@ + 1) % 3]
    /\ UNCHANGED <<job, preprod, checkpoint, ledger, trail, verdict, approvals, calls, crashes>>

\* One execution by the adapter: it succeeds, within the cost budget or over
\* it, or it raises.  A retryable error is retried while attempts are left.
\* Evidence counts only while there is none.
Attempt(w) ==
    LET a == run[w].state.node
        tries == run[w].tries + 1
        settle(outcome, over) ==
            run' = [run EXCEPT ![w].pc = "commit", ![w].tries = tries,
                               ![w].outcome = outcome, ![w].over = over]
    IN  /\ At(w, "attempt")
        /\ executed' = [executed EXCEPT ![a] = @ + 1]
        /\ \/ \E outcome \in Successes, over \in BOOLEAN :
                 /\ outcome = "not_passed" => a = "post_deploy_verify"
                 /\ outcome = "evidence" => ~over /\ ~run[w].state.evidence
                 /\ settle(outcome, over)
           \/ settle("action_failed", FALSE)
           \/ /\ tries < job.attempts
              /\ run' = [run EXCEPT ![w].tries = tries]
           \/ /\ tries >= job.attempts
              /\ settle("retry_budget_exhausted", FALSE)
        /\ UNCHANGED <<job, preprod, checkpoint, ledger, trail, verdict, approvals, calls, crashes>>

\* The attempts' transaction commits and the lock is released.
Commit(w) ==
    LET a == run[w].state.node
        outcome == run[w].outcome
    IN  /\ At(w, "commit")
        /\ ledger' = [ledger EXCEPT ![a] =
                CASE outcome \in Successes             -> "succeeded"
                  [] outcome = "action_failed"          -> "failed"
                  [] outcome = "retry_budget_exhausted" -> "escalated"]
        /\ verdict' = IF a = "post_deploy_verify" /\ outcome \in Successes
                        THEN IF outcome = "not_passed" THEN "failed" ELSE "passed"
                        ELSE verdict
        /\ run' = [run EXCEPT ![w].pc = "leave"]
        /\ UNCHANGED <<job, preprod, checkpoint, trail, executed, approvals, calls, crashes>>

\* The node goes on with the action's result.  The cost of a result is
\* checked after the action has run and its row is settled.
ActionReturns(w) ==
    LET s == run[w].state
        outcome == run[w].outcome
        fails(code) ==
            /\ run' = [run EXCEPT ![w] = [Off EXCEPT !.pc = "save",
                                                     !.state = ActionError(s, code)]]
            /\ UNCHANGED trail
    IN  /\ At(w, "leave")
        /\ IF outcome \notin Successes THEN fails(outcome)
           ELSE IF run[w].over THEN fails("cost_budget_exhausted")
           ELSE Leave(w, ActionResult(s, outcome))
        /\ UNCHANGED <<job, preprod, checkpoint, ledger, world>>

\* A fresh result brings more references than a state may hold: the node raises,
\* and its row is settled.
EvidenceOverflows(w) ==
    /\ At(w, "leave")
    /\ run[w].tries > 0 /\ run[w].outcome \in Successes /\ ~run[w].over
    /\ run[w].state.evidence \/ run[w].outcome = "evidence"
    /\ Ends(w)
    /\ UNCHANGED <<job, preprod, checkpoint, ledger, trail, world>>

-----------------------------------------------------------------------------
\* What an invocation in progress does next.
Step(w) == \/ Save(w) \/ RunGate(w) \/ ScanConflict(w) \/ Approval(w) \/ Decide(w)
           \/ DeployRefused(w) \/ CreateRow(w) \/ Claim(w) \/ Attempt(w)
           \/ Commit(w) \/ ActionReturns(w) \/ EvidenceOverflows(w)

Next ==
    \/ \E w \in Workers :
          \/ Deliver(w) \/ Step(w) \/ Crash(w)
          \/ \E d \in {"none", "approved", "rejected", "incomplete"} : Resume(w, d)
    \/ \E outcome \in {"passed", "failed"} : RecordPreproduction(outcome)

Spec == Init /\ [][Next]_vars

\* An invocation is a synchronous call whose adapters and transactions return
\* or raise; the process that runs it may still crash.
FairSpec == Spec /\ \A w \in Workers : WF_vars(Step(w))

-----------------------------------------------------------------------------
(* Properties *)

\* Every variable has its type.
TypeOK ==
    /\ job \in Jobs
    /\ preprod \in {"none", "passed", "failed"}
    /\ checkpoint \in State
    /\ ledger \in [Actions -> {"none", "pending", "succeeded", "failed", "escalated"}]
    /\ trail \subseteq Transition
    /\ run \in [Workers -> Invocation]
    /\ executed \in [Actions -> Nat]
    /\ verdict \in {"none", "passed", "failed"}
    /\ approvals \in BOOLEAN
    /\ calls \in 0..MaxCalls[job]
    /\ crashes \in 0..MaxCrashes

\* Resuming, redelivering and crashing never run an action again once its
\* ledger row is settled, whichever worker settled it.
SettledActionsAreNotRepeated ==
    [][\A a \in Actions : ledger[a] \notin {"none", "pending"} =>
          executed'[a] = executed[a] /\ ledger'[a] = ledger[a]]_vars

\* An action consumes its retry budget once, and at most once more for each
\* crash, however many workers and deliveries compete for it.
ExecutionsAreBounded == \A a \in Actions : executed[a] <= job.attempts * (crashes + 1)

\* The deploy adapter runs only for a job that intake and scope accept, with a
\* verified backup, whose pre-production evidence passed if it targets
\* production, and that an operator approved if it is for production or of high
\* risk.
DeployWasAuthorised ==
    executed["controlled_deploy"] > 0 =>
        /\ job.valid /\ job.inScope /\ job.backup
        /\ job.production => preprod = "passed"
        /\ job.production \/ job.risky => approvals

\* The rollback adapter runs only for a deployment that a settled
\* verification found failing.
RollbackFollowsFailedVerification ==
    executed["rollback"] > 0 =>
        ledger["controlled_deploy"] = "succeeded" /\ verdict = "failed"

\* A checkpoint that says the workflow completed rests on settled actions.
CompletionWasEarned ==
    checkpoint.phase = "completed" =>
        /\ \A a \in Actions \ {"rollback"} : ledger[a] = "succeeded"
        /\ checkpoint.status = "rolled_back" => ledger["rollback"] = "succeeded"
        /\ checkpoint.status # "rolled_back" => checkpoint.deployment = "verified"

\* Every durable phase is accounted for by the durable trail: a transition
\* leads to it, and the phases the trail leaves were themselves reached.
TrailAccountsForPhase ==
    LET reached == {"intake"} \cup {t.to : t \in trail}
    IN  /\ checkpoint.phase \in reached
        /\ \A t \in trail : t.from \in reached

\* A verification that failed is followed by a rollback: the workflow does not
\* complete as if it had passed.
FailedVerificationRollsBack ==
    checkpoint.phase = "completed" /\ verdict = "failed" => checkpoint.status = "rolled_back"

\* An invocation that does not crash for ever comes to its end.
InvocationsEnd == \A w \in Workers : ~At(w, "off") ~> At(w, "off")
=============================================================================
