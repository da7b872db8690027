---------------------------- MODULE WorkflowProofs ----------------------------
(***************************************************************************)
(* Theorems about Workflow, for any workers, jobs and numbers of calls and *)
(* crashes.  The inductive invariant WorkflowInv says of every graph state *)
(* that is around, the checkpoint's and each invocation's, what its node   *)
(* rests on (StateOK).  It rests on durable facts that are never taken     *)
(* back: settled rows, the verdict, an approval, the evidence and the      *)
(* trail; so a state that a crash or another delivery has overtaken is as  *)
(* good as any.  The executions of an action are counted against the       *)
(* attempts of the worker that holds its row and the crashes so far        *)
(* (CountOK).                                                              *)
(***************************************************************************)
EXTENDS Workflow, TLAPS

\* The nodes that run only after an action has succeeded.
AfterVerify == {"rollback", "monitor_report"}
AfterDeploy == AfterVerify \cup {"post_deploy_verify"}
AfterTest == AfterDeploy \cup {"approval", "controlled_deploy"}
AfterPlan == AfterTest \cup {"patch_test"}
AfterWorkspace == AfterPlan \cup {"remediation_plan"}
AfterBackup == AfterWorkspace \cup {"parallel_scans", "evidence_gate", "risk_policy",
                                    "isolated_workspace"}
AfterInventory == AfterBackup \cup {"backup_gate"}
AfterScope == AfterInventory \cup {"asset_inventory"}
After == [asset_inventory |-> AfterInventory, isolated_workspace |-> AfterWorkspace,
          remediation_plan |-> AfterPlan, patch_test |-> AfterTest,
          controlled_deploy |-> AfterDeploy, post_deploy_verify |-> AfterVerify,
          rollback |-> {}]

Reached == {"intake"} \cup {t.to : t \in trail}
Restricted == job.production \/ job.risky
\* What a state whose report is next, or was given, has settled.
Earned(s) ==
    /\ \A a \in Actions \ {"rollback"} : ledger[a] = "succeeded"
    /\ s.status = "rolled_back" => ledger["rollback"] = "succeeded"
    /\ s.status # "rolled_back" => s.deployment = "verified"

\* What a graph state rests on when its next node is n.
NodeRests(n, s) ==
    /\ n = "monitor_report" => Earned(s)
    /\ n \notin {"monitor_report", "end", "failure"} => s.status # "rolled_back"
    /\ \A a \in Actions : n \in After[a] => ledger[a] = "succeeded"
    /\ n \in AfterScope \cup {"scope"} => job.valid
    /\ n \in AfterScope => job.inScope
    /\ n \in AfterBackup => job.backup
    /\ n \in {"isolated_workspace", "remediation_plan", "patch_test", "approval"} =>
          (Restricted => s.approval = "required")
    /\ n = "controlled_deploy" => (Restricted => approvals)
    /\ n = "rollback" => verdict = "failed"
Rests(s) ==
    /\ s.node \in Nodes \ {"failure"} => s.phase = s.node
    /\ s.phase = "completed" => s.node = "end" /\ Earned(s)
    /\ NodeRests(s.node, s)
StateOK(s) == s \in State /\ s.phase \in Reached /\ Rests(s)

Running == {"node", "decide", "claim", "attempt", "commit", "leave"}
InAction == {"claim", "attempt", "commit", "leave"}
Settling == Successes \cup {"action_failed", "retry_budget_exhausted"}

\* What an invocation has found out since its node began.
RunOK(w) ==
    /\ StateOK(run[w].state)
    /\ run[w].pc \in Running => run[w].state.node \in Nodes
    /\ run[w].decision = "approved" => approvals
    /\ At(w, "decide") => run[w].state.node = "approval" /\ run[w].decision # "none"
    /\ run[w].pc \in InAction =>
          /\ run[w].state.node \in Actions
          /\ run[w].state.node = "controlled_deploy" /\ job.production => preprod = "passed"
    /\ run[w].pc \in {"node", "claim"} => run[w].tries = 0
    /\ At(w, "claim") => ledger[run[w].state.node] # "none"
    /\ run[w].pc \in {"attempt", "commit"} => ledger[run[w].state.node] = "pending"
    /\ At(w, "attempt") => run[w].tries < job.attempts
    /\ At(w, "commit") =>
          /\ run[w].tries <= job.attempts /\ run[w].outcome \in Settling
          /\ run[w].outcome = "not_passed" => run[w].state.node = "post_deploy_verify"
    /\ At(w, "leave") =>
          /\ run[w].outcome # "none"
          /\ run[w].outcome \in Successes => ledger[run[w].state.node] = "succeeded"
          /\ run[w].outcome = "not_passed" =>
                run[w].state.node = "post_deploy_verify" /\ verdict = "failed"

Holds(w, a) == run[w].pc \in {"attempt", "commit"} /\ run[w].state.node = a
LockOK == \A a \in Actions, v, w \in Workers : Holds(v, a) /\ Holds(w, a) => v = w

\* Executions are of crashes so far, each of which may have cost all attempts,
\* and of the worker that holds the row.
Spent == job.attempts * crashes
CountOK ==
    \A a \in Actions :
        /\ \A w \in Workers : Holds(w, a) => executed[a] <= Spent + run[w].tries
        /\ ledger[a] \in {"none", "pending"} /\ (\A w \in Workers : ~Holds(w, a)) =>
              executed[a] <= Spent
        /\ executed[a] <= job.attempts * (crashes + 1)

TrailOK == \A t \in trail : t.from \in Reached
VerdictOK == verdict # "none" => ledger["post_deploy_verify"] = "succeeded"

WorkflowInv ==
    /\ TypeOK
    /\ StateOK(checkpoint)
    /\ \A w \in Workers : RunOK(w)
    /\ LockOK /\ CountOK /\ TrailOK /\ VerdictOK
    /\ DeployWasAuthorised
    /\ RollbackFollowsFailedVerification

-----------------------------------------------------------------------------
(* What the nodes leave *)

\* A node's result is a state that rests on what is durable, and the transition
\* that leads to its phase.
ResultOK(s, r) ==
    /\ r.state \in State /\ Rests(r.state)
    /\ r.entry \in Transition /\ r.entry.from = s.phase /\ r.entry.to = r.state.phase

\* The update of a state that is routed.
LEMMA RoutedOK ==
    ASSUME NEW s \in State, NEW u \in State, Route(s.node, u) \in Nodes \cup {"end"}
    PROVE  /\ Routed(s, u) \in State /\ Routed(s, u).node = Route(s.node, u)
           /\ Routed(s, u).phase = u.phase /\ Routed(s, u).status = u.status
           /\ Routed(s, u).approval = u.approval /\ Routed(s, u).deployment = u.deployment
           /\ Routed(s, u).failure = u.failure
BY DEF Routed, State

\* The end and the failure node rest on nothing but a phase that is not completed.
LEMMA RestsAtEnd ==
    ASSUME NEW s \in State, s.node \in {"failure", "end"}, s.phase # "completed"
    PROVE  Rests(s)
BY DEF Rests, NodeRests, Nodes, Gates, Actions, After, AfterVerify, AfterDeploy, AfterTest,
       AfterPlan, AfterWorkspace, AfterBackup, AfterInventory, AfterScope

LEMMA NodesOK ==
    /\ Actions \subseteq Nodes /\ Gates \subseteq Nodes /\ "end" \notin Nodes
    /\ \A n \in Nodes \ {"failure"} : n \in Phases /\ n \notin {"completed", "escalated"}
    /\ {"completed", "escalated"} \subseteq Phases
BY DEF Nodes, Actions, Gates, Phases

LEMMA EntryOK ==
    ASSUME NEW s \in State, s.node \in Nodes, NEW to \in Phases, NEW code \in Codes,
           NEW tag \in {"succeeded", "not_required", "paused", "failed", "terminal"},
           NEW outcome \in {"succeeded", "failed", "paused", "escalated"}
    PROVE  /\ Entry(s, tag, code, to, outcome) \in Transition
           /\ Entry(s, tag, code, to, outcome).from = s.phase
           /\ Entry(s, tag, code, to, outcome).to = to
BY DEF Entry, Transition, State

\* A node that goes on to the next one, when that one's grounds are there.
LEMMA ProceedOK ==
    ASSUME NEW s \in State, s.node \in Nodes \ {"monitor_report", "failure"},
           NEW u \in State, NEW next \in Nodes \ {"failure"}, NodeRests(next, u)
    PROVE  ResultOK(s, Proceed(s, next, u))
<1> DEFINE v == [u EXCEPT !.phase = next]
<1>1. /\ v \in State /\ v.phase = next /\ v.status = u.status /\ v.approval = u.approval
      /\ v.deployment = u.deployment /\ v.failure = u.failure
  BY NodesOK DEF State
<1>2. /\ Proceed(s, next, u).entry = Entry(s, "succeeded", "none", next, "succeeded")
      /\ Proceed(s, next, u).state = Routed(s, v)
  BY DEF Proceed, Result
<1> HIDE DEF v
<1>3. Route(s.node, v) \in {"failure", next}
  BY <1>1 DEF Route
<1>4. PICK t : t = Routed(s, v)
  OBVIOUS
<1>5. /\ t \in State /\ t.node \in {"failure", next} /\ t.phase = next /\ t.status = u.status
      /\ t.approval = u.approval /\ t.deployment = u.deployment
  <2>1. "failure" \in Nodes
    BY DEF Nodes, Gates
  <2>2. Route(s.node, v) \in Nodes \cup {"end"}
    BY <2>1, <1>3
  <2> QED BY <2>2, <1>1, <1>3, <1>4, RoutedOK
<1>6. Rests(t)
  <2>1. CASE t.node = "failure"
    BY <2>1, <1>5, RestsAtEnd, NodesOK
  <2>2. CASE t.node = next
    <3>1. NodeRests(next, t)
      BY <1>5 DEF NodeRests, Earned
    <3> QED BY <2>2, <3>1, <1>5, NodesOK DEF Rests
  <2> QED BY <2>1, <2>2, <1>5
<1>7. "none" \in Codes /\ next \in Phases
  BY NodesOK DEF Codes
<1>8. QED BY <1>2, <1>4, <1>5, <1>6, <1>7, EntryOK DEF ResultOK

\* A node that fails rests on nothing.
LEMMA FailureOK ==
    ASSUME NEW s \in State, s.node \in Nodes, NEW code \in Codes \ {"none"}
    PROVE  ResultOK(s, Failure(s, code))
<1> DEFINE v == [s EXCEPT !.phase = "escalated", !.status = "escalated", !.failure = code]
<1>1. v \in State /\ v.phase = "escalated" /\ v.failure = code
  BY NodesOK DEF State
<1>2. /\ Failure(s, code).entry = Entry(s, "failed", code, "escalated", "escalated")
      /\ Failure(s, code).state = Routed(s, v)
  BY DEF Failure, Result
<1> HIDE DEF v
<1>3. Route(s.node, v) \in {"failure", "end"}
  BY <1>1 DEF Route
<1>4. "failure" \in Nodes
  BY DEF Nodes, Gates
<1>5. /\ Routed(s, v) \in State /\ Routed(s, v).node \in {"failure", "end"}
      /\ Routed(s, v).phase = "escalated"
  BY <1>1, <1>3, <1>4, RoutedOK
<1>6. Rests(Routed(s, v))
  BY <1>5, RestsAtEnd
<1>7. QED BY <1>2, <1>5, <1>6, EntryOK, NodesOK DEF ResultOK

\* Which action's success each node adds.
LEMMA AfterOK ==
    ASSUME NEW a \in Actions
    PROVE  /\ "scope" \notin After[a] /\ "intake" \notin After[a] /\ "asset_inventory" \notin After[a]
           /\ "backup_gate" \in After[a] => a = "asset_inventory"
           /\ "parallel_scans" \in After[a] => "backup_gate" \in After[a]
           /\ "evidence_gate" \in After[a] => "parallel_scans" \in After[a]
           /\ "risk_policy" \in After[a] => "evidence_gate" \in After[a]
           /\ "isolated_workspace" \in After[a] => "risk_policy" \in After[a]
           /\ "remediation_plan" \in After[a] =>
                 a = "isolated_workspace" \/ "isolated_workspace" \in After[a]
           /\ "patch_test" \in After[a] => a = "remediation_plan" \/ "remediation_plan" \in After[a]
           /\ "approval" \in After[a] => a = "patch_test" \/ "patch_test" \in After[a]
           /\ "controlled_deploy" \in After[a] => "approval" \in After[a]
           /\ "post_deploy_verify" \in After[a] =>
                 a = "controlled_deploy" \/ "controlled_deploy" \in After[a]
           /\ "rollback" \in After[a] => a = "post_deploy_verify" \/ "post_deploy_verify" \in After[a]
           /\ "monitor_report" \in After[a] <=> "rollback" \in After[a]
BY DEF Actions, After, AfterVerify, AfterDeploy, AfterTest, AfterPlan, AfterWorkspace,
       AfterBackup, AfterInventory


\* The gates that call no action.
LEMMA GatesOK ==
    ASSUME TypeOK, NEW s, StateOK(s), s.node \in Gates \ {"approval"},
           NEW r \in GateResults(s)
    PROVE  ResultOK(s, r)
<1> USE DEF StateOK
<1>0. s \in State /\ s.node \in Nodes /\ Rests(s) /\ NodeRests(s.node, s)
  BY NodesOK DEF Rests
<1>1. CASE s.node = "intake"
  <2>1. job.valid => NodeRests("scope", s)
    BY <1>0, <1>1, AfterOK DEF NodeRests, AfterScope, AfterInventory, AfterBackup,
       AfterWorkspace, AfterPlan, AfterTest, AfterDeploy, AfterVerify
  <2>2. /\ "scope" \in Nodes \ {"failure"} /\ "workflow_state_rejected" \in Codes \ {"none"}
        /\ r = Intake(s)
    BY <1>1 DEF GateResults, Nodes, Gates, Codes
  <2> QED BY <2>1, <2>2, <1>0, <1>1, ProceedOK, FailureOK DEF Intake
<1>2. CASE s.node = "scope"
  <2>1. job.inScope => NodeRests("asset_inventory", s)
    BY <1>0, <1>2, AfterOK DEF NodeRests, AfterScope, AfterInventory, AfterBackup,
       AfterWorkspace, AfterPlan, AfterTest, AfterDeploy, AfterVerify
  <2>2. /\ "asset_inventory" \in Nodes \ {"failure"} /\ "scope_boundary_rejected" \in Codes \ {"none"}
        /\ r = Scope(s)
    BY <1>2 DEF GateResults, Nodes, Actions, Codes
  <2> QED BY <2>1, <2>2, <1>0, <1>2, ProceedOK, FailureOK DEF Scope
<1>3. CASE s.node = "backup_gate"
  <2>1. job.backup => NodeRests("parallel_scans", s)
    BY <1>0, <1>3, AfterOK DEF NodeRests, AfterScope, AfterInventory, AfterBackup,
       AfterWorkspace, AfterPlan, AfterTest, AfterDeploy, AfterVerify
  <2>2. /\ "parallel_scans" \in Nodes \ {"failure"} /\ "backup_not_verified" \in Codes \ {"none"}
        /\ r = BackupGate(s)
    BY <1>3 DEF GateResults, Nodes, Gates, Codes
  <2> QED BY <2>1, <2>2, <1>0, <1>3, ProceedOK, FailureOK DEF BackupGate
<1>4. CASE s.node = "parallel_scans"
  <2> DEFINE e == [s EXCEPT !.evidence = TRUE]
  <2>1. NodeRests("evidence_gate", s)
    BY <1>0, <1>4, AfterOK DEF NodeRests, AfterScope, AfterInventory, AfterBackup,
       AfterWorkspace, AfterPlan, AfterTest, AfterDeploy, AfterVerify
  <2>2. e \in State /\ e.status = s.status
    BY <1>0 DEF State
  <2>3. /\ "evidence_gate" \in Nodes \ {"failure"} /\ "scanner_failure" \in Codes \ {"none"}
        /\ r \in {Failure(s, "scanner_failure"), Proceed(s, "evidence_gate", s),
                  Proceed(s, "evidence_gate", e)}
    BY <1>4 DEF GateResults, Nodes, Gates, Codes
  <2> HIDE DEF e
  <2>4. NodeRests("evidence_gate", e)
    BY <2>1, <2>2 DEF NodeRests
  <2> QED BY <2>1, <2>2, <2>3, <2>4, <1>0, <1>4, ProceedOK, FailureOK
<1>5. CASE s.node = "evidence_gate"
  <2>1. NodeRests("risk_policy", s)
    BY <1>0, <1>5, AfterOK DEF NodeRests, AfterScope, AfterInventory, AfterBackup,
       AfterWorkspace, AfterPlan, AfterTest, AfterDeploy, AfterVerify
  <2>2. /\ "risk_policy" \in Nodes \ {"failure"} /\ "evidence_missing" \in Codes \ {"none"}
        /\ r = EvidenceGate(s)
    BY <1>5 DEF GateResults, Nodes, Gates, Codes
  <2> QED BY <2>1, <2>2, <1>0, <1>5, ProceedOK, FailureOK DEF EvidenceGate
<1>6. CASE s.node = "risk_policy"
  <2> DEFINE u == [s EXCEPT !.approval = IF job.production \/ job.risky THEN "required"
                                         ELSE "not_required"]
  <2>1. /\ u \in State /\ u.status = s.status
        /\ Restricted => u.approval = "required"
    BY <1>0 DEF State, Restricted
  <2>2. /\ "isolated_workspace" \in Nodes \ {"failure"}
        /\ r = Proceed(s, "isolated_workspace", u)
    BY <1>6 DEF GateResults, RiskPolicy, Nodes, Actions
  <2> HIDE DEF u
  <2>3. NodeRests("isolated_workspace", u)
    BY <2>1, <1>0, <1>6, AfterOK DEF NodeRests, AfterScope, AfterInventory, AfterBackup,
       AfterWorkspace, AfterPlan, AfterTest, AfterDeploy, AfterVerify
  <2> QED BY <2>1, <2>2, <2>3, <1>0, <1>6, ProceedOK
<1>7. CASE s.node = "monitor_report"
  <2> DEFINE status == IF s.status = "rolled_back" THEN "rolled_back" ELSE "completed"
             u == [s EXCEPT !.status = status]
             v == [u EXCEPT !.phase = "completed"]
  <2>1. /\ v \in State /\ v.phase = "completed" /\ v.status = status
        /\ v.deployment = s.deployment
    BY <1>0, NodesOK DEF State
  <2>2. /\ r.entry = Entry(s, "succeeded", "none", "completed", "succeeded")
        /\ r.state = Routed(s, v)
    BY <1>7 DEF GateResults, MonitorReport, Proceed, Result
  <2> HIDE DEF v
  <2>3. Route(s.node, v) = "end"
    BY <1>7 DEF Route
  <2>4. PICK t : t = Routed(s, v)
    OBVIOUS
  <2>5. /\ t \in State /\ t.node = "end" /\ t.phase = "completed"
        /\ t.status = status /\ t.deployment = s.deployment
    BY <2>1, <2>3, <2>4, <1>0, RoutedOK
  <2>6. Earned(s)
    BY <1>0, <1>7 DEF NodeRests
  <2>7. Earned(t)
    BY <2>5, <2>6 DEF Earned
  <2>8. NodeRests("end", t)
    BY DEF NodeRests, After, AfterVerify, AfterDeploy, AfterTest, AfterPlan, AfterWorkspace,
       AfterBackup, AfterInventory, AfterScope, Actions
  <2>9. Rests(t)
    BY <2>5, <2>7, <2>8, NodesOK DEF Rests
  <2>10. "none" \in Codes /\ "completed" \in Phases
    BY NodesOK DEF Codes
  <2> QED BY <2>2, <2>4, <2>5, <2>9, <2>10, <1>0, EntryOK DEF ResultOK
<1>8. CASE s.node = "failure"
  <2> DEFINE u == [s EXCEPT !.phase = "escalated", !.status = "escalated"]
             outcome == IF s.status = "escalated" THEN "escalated" ELSE "failed"
  <2>1. u \in State /\ u.phase = "escalated" /\ s.failure \in Codes
    BY <1>0, NodesOK DEF State
  <2>2. /\ r.entry = Entry(s, "terminal", s.failure, "escalated", outcome)
        /\ r.state = Routed(s, u)
    BY <1>8 DEF GateResults, FailureNode, Result
  <2> HIDE DEF u
  <2>3. Route(s.node, u) = "end"
    BY <1>8 DEF Route
  <2>4. Routed(s, u) \in State /\ Routed(s, u).node = "end" /\ Routed(s, u).phase = "escalated"
    BY <2>1, <2>3, <1>0, RoutedOK
  <2>5. Rests(Routed(s, u))
    BY <2>4, RestsAtEnd
  <2> QED BY <2>1, <2>2, <2>4, <2>5, <1>0, EntryOK, NodesOK DEF ResultOK
<1> QED BY <1>1, <1>2, <1>3, <1>4, <1>5, <1>6, <1>7, <1>8 DEF Gates

\* What the operator's gate leaves when the deployment may go on.
LEMMA ApprovalOK ==
    ASSUME TypeOK, NEW s, StateOK(s), s.node = "approval"
    PROVE  /\ approvals => ResultOK(s, Approved(s))
           /\ s.approval # "required" => ResultOK(s, NotRequired(s))
<1>0. s \in State /\ s.node \in Nodes /\ NodeRests("approval", s)
  BY DEF StateOK, Rests, Nodes, Gates
<1>1. "controlled_deploy" \in Nodes \ {"failure"} /\ "none" \in Codes
  BY DEF Nodes, Actions, Codes
<1>2. ASSUME approvals PROVE ResultOK(s, Approved(s))
  <2> DEFINE u == [s EXCEPT !.approval = "approved"]
  <2>1. u \in State /\ u.status = s.status
    BY <1>0 DEF State
  <2>2. Approved(s) = Proceed(s, "controlled_deploy", u)
    BY DEF Approved
  <2> HIDE DEF u
  <2>3. NodeRests("controlled_deploy", u)
    BY <2>1, <1>0, <1>2, AfterOK DEF NodeRests, AfterScope, AfterInventory, AfterBackup,
       AfterWorkspace, AfterPlan, AfterTest, AfterDeploy, AfterVerify
  <2> QED BY <2>1, <2>2, <2>3, <1>0, <1>1, ProceedOK
<1>3. ASSUME s.approval # "required" PROVE ResultOK(s, NotRequired(s))
  <2> DEFINE v == [s EXCEPT !.phase = "controlled_deploy", !.approval = "not_required"]
  <2>1. /\ v \in State /\ v.phase = "controlled_deploy" /\ v.status = s.status
        /\ v.failure = s.failure
    BY <1>0, <1>1, NodesOK DEF State
  <2>2. /\ NotRequired(s).entry = Entry(s, "not_required", "none", "controlled_deploy", "succeeded")
        /\ NotRequired(s).state = Routed(s, v)
    BY DEF NotRequired, Result
  <2> HIDE DEF v
  <2>3. Route(s.node, v) \in {"failure", "controlled_deploy"}
    BY <2>1, <1>0 DEF Route
  <2>4. PICK t : t = Routed(s, v)
    OBVIOUS
  <2>5. "failure" \in Nodes
    BY DEF Nodes, Gates
  <2>6. /\ t \in State /\ t.node \in {"failure", "controlled_deploy"}
        /\ t.phase = "controlled_deploy" /\ t.status = s.status
    BY <2>1, <2>3, <2>4, <2>5, <1>0, <1>1, RoutedOK
  <2>7. ~Restricted
    BY <1>0, <1>3 DEF NodeRests
  <2>8. NodeRests("controlled_deploy", t)
    BY <2>6, <2>7, <1>0, AfterOK DEF NodeRests, AfterScope, AfterInventory, AfterBackup,
       AfterWorkspace, AfterPlan, AfterTest, AfterDeploy, AfterVerify
  <2>9. CASE t.node = "failure"
    BY <2>1, <2>2, <2>4, <2>6, <2>9, <1>0, <1>1, RestsAtEnd, EntryOK, NodesOK DEF ResultOK
  <2>10. CASE t.node = "controlled_deploy"
    <3>1. Rests(t)
      BY <2>6, <2>8, <2>10, NodesOK, <1>1 DEF Rests
    <3> QED BY <3>1, <2>2, <2>4, <2>6, <1>0, <1>1, EntryOK, NodesOK DEF ResultOK
  <2> QED BY <2>6, <2>9, <2>10
<1> QED BY <1>2, <1>3


\* What the node of an action leaves when its action succeeded.
LEMMA ActionResultOK ==
    ASSUME TypeOK, NEW s, StateOK(s), s.node \in Actions, NEW outcome \in Successes,
           ledger[s.node] = "succeeded",
           outcome = "not_passed" => s.node = "post_deploy_verify" /\ verdict = "failed"
    PROVE  ResultOK(s, ActionResult(s, outcome))
<1>0. /\ s \in State /\ s.node \in Nodes \ {"monitor_report", "failure"} /\ NodeRests(s.node, s)
      /\ s.status # "rolled_back"
  BY DEF StateOK, Rests, NodeRests, Nodes, Actions, Gates
<1> DEFINE seen == [s EXCEPT !.evidence = @ \/ outcome = "evidence"]
           plain == [seen EXCEPT !.status = "running"]
<1>1. /\ seen \in State /\ seen.status = s.status /\ seen.approval = s.approval
      /\ plain \in State /\ plain.status = "running" /\ plain.approval = s.approval
  <2>1. /\ seen \in State /\ seen.status = s.status /\ seen.approval = s.approval
    BY <1>0 DEF State
  <2> HIDE DEF seen
  <2> QED BY <2>1 DEF State
<1>2. CASE s.node \in {"asset_inventory", "isolated_workspace", "remediation_plan", "patch_test"}
  <2>1. ActionResult(s, outcome) = Proceed(s, NextPhase[s.node], plain)
    BY <1>2 DEF ActionResult
  <2>2. NextPhase[s.node] \in Nodes \ {"failure"}
    BY <1>2 DEF NextPhase, Nodes, Actions, Gates
  <2> HIDE DEF seen, plain
  <2>3. NodeRests(NextPhase[s.node], plain)
    <3>1. CASE s.node = "asset_inventory"
      BY <3>1, <1>0, <1>1, AfterOK DEF NextPhase, NodeRests, AfterScope, AfterInventory,
         AfterBackup, AfterWorkspace, AfterPlan, AfterTest, AfterDeploy, AfterVerify
    <3>2. CASE s.node = "isolated_workspace"
      BY <3>2, <1>0, <1>1, AfterOK DEF NextPhase, NodeRests, AfterScope, AfterInventory,
         AfterBackup, AfterWorkspace, AfterPlan, AfterTest, AfterDeploy, AfterVerify
    <3>3. CASE s.node = "remediation_plan"
      BY <3>3, <1>0, <1>1, AfterOK DEF NextPhase, NodeRests, AfterScope, AfterInventory,
         AfterBackup, AfterWorkspace, AfterPlan, AfterTest, AfterDeploy, AfterVerify
    <3>4. CASE s.node = "patch_test"
      BY <3>4, <1>0, <1>1, AfterOK DEF NextPhase, NodeRests, AfterScope, AfterInventory,
         AfterBackup, AfterWorkspace, AfterPlan, AfterTest, AfterDeploy, AfterVerify
    <3> QED BY <1>2, <3>1, <3>2, <3>3, <3>4
  <2> QED BY <2>1, <2>2, <2>3, <1>0, <1>1, ProceedOK
<1>3. CASE s.node = "controlled_deploy"
  <2> DEFINE u == [seen EXCEPT !.deployment = "deployed", !.status = "running"]
  <2>1. u \in State /\ u.status = "running"
    <3> HIDE DEF seen
    <3> QED BY <1>1 DEF State
  <2>2. ActionResult(s, outcome) = Proceed(s, "post_deploy_verify", u)
    BY <1>3 DEF ActionResult, NextPhase
  <2>3. "post_deploy_verify" \in Nodes \ {"failure"}
    BY DEF Nodes, Actions
  <2> HIDE DEF seen, plain, u
  <2>4. NodeRests("post_deploy_verify", u)
    BY <2>1, <1>0, <1>3, AfterOK DEF NodeRests, AfterScope, AfterInventory,
       AfterBackup, AfterWorkspace, AfterPlan, AfterTest, AfterDeploy, AfterVerify
  <2> QED BY <2>1, <2>2, <2>3, <2>4, <1>0, ProceedOK
<1>4. CASE s.node = "post_deploy_verify" /\ outcome # "not_passed"
  <2> DEFINE u == [seen EXCEPT !.deployment = "verified"]
  <2>1. u \in State /\ u.deployment = "verified" /\ u.status = s.status
    <3> HIDE DEF seen
    <3> QED BY <1>1 DEF State
  <2>2. ActionResult(s, outcome) = Proceed(s, "monitor_report", u)
    BY <1>4 DEF ActionResult, NextPhase
  <2>3. "monitor_report" \in Nodes \ {"failure"}
    BY DEF Nodes, Gates
  <2> HIDE DEF seen, plain, u
  <2>4. \A a \in Actions \ {"rollback"} : ledger[a] = "succeeded"
    <3>1. \A a \in Actions \ {"rollback", "post_deploy_verify"} : "post_deploy_verify" \in After[a]
      BY DEF Actions, After, AfterDeploy, AfterTest, AfterPlan, AfterWorkspace, AfterBackup,
         AfterInventory
    <3> QED BY <3>1, <1>0, <1>4 DEF NodeRests
  <2>5. Earned(u)
    BY <2>1, <2>4, <1>0 DEF Earned
  <2>6. NodeRests("monitor_report", u)
    BY <2>5, <1>0, <1>4, AfterOK DEF NodeRests, AfterScope, AfterInventory,
       AfterBackup, AfterWorkspace, AfterPlan, AfterTest, AfterDeploy, AfterVerify
  <2> QED BY <2>1, <2>2, <2>3, <2>6, <1>0, ProceedOK
<1>5. CASE s.node = "post_deploy_verify" /\ outcome = "not_passed"
  <2> DEFINE v == [seen EXCEPT !.phase = "rollback", !.status = "failed", !.deployment = "failed",
                               !.failure = "post_deploy_verification_failed"]
  <2>1. /\ "rollback" \in Nodes /\ "rollback" \in Phases
        /\ "post_deploy_verification_failed" \in Codes
    BY DEF Nodes, Phases, Actions, Codes
  <2>2. v \in State /\ v.phase = "rollback" /\ v.status = "failed"
    <3> HIDE DEF seen
    <3> QED BY <1>1, <2>1 DEF State
  <2>3. /\ ActionResult(s, outcome).entry =
              Entry(s, "failed", "post_deploy_verification_failed", "rollback", "failed")
        /\ ActionResult(s, outcome).state = Routed(s, v)
    BY <1>5 DEF ActionResult, Result
  <2> HIDE DEF seen, plain, v
  <2>4. Route(s.node, v) = "rollback"
    BY <2>2, <1>5 DEF Route
  <2>5. PICK t : t = Routed(s, v)
    OBVIOUS
  <2>6. t \in State /\ t.node = "rollback" /\ t.phase = "rollback" /\ t.status = "failed"
    BY <2>1, <2>2, <2>4, <2>5, <1>0, RoutedOK
  <2>7. NodeRests("rollback", t)
    BY <2>6, <1>0, <1>5, AfterOK DEF NodeRests, AfterScope, AfterInventory,
       AfterBackup, AfterWorkspace, AfterPlan, AfterTest, AfterDeploy, AfterVerify
  <2>8. Rests(t)
    BY <2>6, <2>7 DEF Rests
  <2> QED BY <2>1, <2>3, <2>5, <2>6, <2>8, <1>0, EntryOK DEF ResultOK
<1>6. CASE s.node = "rollback"
  <2> DEFINE u == [seen EXCEPT !.status = "rolled_back", !.failure = "none"]
  <2>1. u \in State /\ u.status = "rolled_back"
    <3> HIDE DEF seen
    <3> QED BY <1>1 DEF State, Codes
  <2>2. ActionResult(s, outcome) = Proceed(s, "monitor_report", u)
    BY <1>6 DEF ActionResult, NextPhase
  <2>3. "monitor_report" \in Nodes \ {"failure"}
    BY DEF Nodes, Gates
  <2> HIDE DEF seen, plain, u
  <2>4. \A a \in Actions \ {"rollback"} : ledger[a] = "succeeded"
    <3>1. \A a \in Actions \ {"rollback"} : "rollback" \in After[a]
      BY DEF Actions, After, AfterVerify, AfterDeploy, AfterTest, AfterPlan, AfterWorkspace,
         AfterBackup, AfterInventory
    <3> QED BY <3>1, <1>0, <1>6 DEF NodeRests
  <2>5. Earned(u)
    BY <2>1, <2>4, <1>6 DEF Earned
  <2>6. NodeRests("monitor_report", u)
    BY <2>5, <1>0, <1>6, AfterOK DEF NodeRests, AfterScope, AfterInventory,
       AfterBackup, AfterWorkspace, AfterPlan, AfterTest, AfterDeploy, AfterVerify
  <2> QED BY <2>1, <2>2, <2>3, <2>6, <1>0, ProceedOK
<1> QED BY <1>2, <1>3, <1>4, <1>5, <1>6 DEF Actions

\* And when it failed.
LEMMA ActionErrorOK ==
    ASSUME TypeOK, NEW s, StateOK(s), s.node \in Actions, NEW code \in ActionCodes
    PROVE  StateOK(ActionError(s, code))
<1> DEFINE v == [s EXCEPT !.failure = code,
                          !.status = IF code = "action_failed" THEN "failed" ELSE "escalated"]
<1>0. s \in State /\ s.phase = s.node
  BY DEF StateOK, Rests, Nodes, Actions
<1>1. v \in State /\ v.phase = s.node /\ v.failure # "none"
  BY <1>0 DEF State, Codes, ActionCodes
<1>2. ActionError(s, code) = Routed(s, v)
  BY DEF ActionError
<1> HIDE DEF v
<1>3. CASE ~(s.node = "post_deploy_verify" /\ v.phase = "rollback")
  <2>1. Route(s.node, v) = "failure"
    BY <1>1, <1>3 DEF Route, Actions
  <2>2. "failure" \in Nodes /\ s.node # "completed"
    BY DEF Nodes, Gates, Actions
  <2>3. /\ Routed(s, v) \in State /\ Routed(s, v).node = "failure"
        /\ Routed(s, v).phase = s.node
    BY <2>1, <2>2, <1>0, <1>1, RoutedOK
  <2> QED BY <2>2, <2>3, <1>0, <1>2, RestsAtEnd DEF StateOK
<1> QED BY <1>1, <1>3


-----------------------------------------------------------------------------
(* What a step keeps *)

\* Durable facts are never taken back.
Grows ==
    /\ job' = job
    /\ \A a \in Actions : /\ ledger[a] = "succeeded" => ledger'[a] = "succeeded"
                          /\ ledger[a] # "none" => ledger'[a] # "none"
    /\ trail \subseteq trail'
    /\ approvals => approvals'
    /\ verdict = "failed" => verdict' = "failed"
    /\ preprod = "passed" => preprod' = "passed"

LEMMA ReachedGrows ==
    ASSUME Grows
    PROVE  Reached \subseteq Reached'
BY DEF Grows, Reached

\* So a state that rests on them still does.
LEMMA CheckpointRests ==
    ASSUME Grows, NEW s \in State, Rests(s), s.phase \in Reached', checkpoint' = s
    PROVE  StateOK(checkpoint)'
<1>1. Earned(s) => Earned(checkpoint)'
  BY DEF Grows, Earned, Actions
<1>2. NodeRests(s.node, s) => NodeRests(checkpoint.node, checkpoint)'
  <2>1. \A a \in Actions : checkpoint.node \in After[a] /\ ledger[a] = "succeeded"
                              => ledger'[a] = "succeeded"
    BY DEF Grows
  <2> QED BY <1>1, <2>1 DEF Grows, NodeRests, Restricted
<1> QED BY <1>1, <1>2 DEF StateOK, Rests

LEMMA RunRests ==
    ASSUME Grows, NEW w \in Workers, NEW s \in State, Rests(s), s.phase \in Reached',
           run'[w].state = s
    PROVE  StateOK(run[w].state)'
<1>1. Earned(s) => Earned(run[w].state)'
  BY DEF Grows, Earned, Actions
<1>2. NodeRests(s.node, s) => NodeRests(run[w].state.node, run[w].state)'
  BY <1>1 DEF Grows, NodeRests, Restricted
<1> QED BY <1>1, <1>2 DEF StateOK, Rests

LEMMA CheckpointKept ==
    ASSUME Grows, StateOK(checkpoint), UNCHANGED checkpoint
    PROVE  StateOK(checkpoint)'
BY CheckpointRests, ReachedGrows DEF StateOK

\* An invocation that does nothing keeps what it has found out, while the row
\* it holds is left alone.
LEMMA RunKept ==
    ASSUME Grows, NEW v \in Workers, RunOK(v), run'[v] = run[v],
           run[v].pc \in {"attempt", "commit"} =>
              ledger'[run[v].state.node] = ledger[run[v].state.node]
    PROVE  RunOK(v)'
<1>1. StateOK(run[v].state)'
  BY RunRests, ReachedGrows DEF RunOK, StateOK
<1>2. run[v].pc \in InAction => run[v].state.node \in Actions
  BY DEF RunOK
<1> HIDE DEF StateOK
<1>3. job' = job /\ (approvals => approvals') /\ (preprod = "passed" => preprod' = "passed")
  BY DEF Grows
<1>4. run[v].pc \in InAction =>
        /\ run[v].state.node \in Actions
        /\ run[v].state.node = "controlled_deploy" /\ job'.production => preprod' = "passed"
  BY <1>3 DEF RunOK
<1>5. At(v, "claim") => ledger'[run[v].state.node] # "none"
  BY <1>2 DEF RunOK, Grows, At, InAction
<1>6. run[v].pc \in {"attempt", "commit"} => ledger'[run[v].state.node] = "pending"
  BY DEF RunOK
<1>7. At(v, "leave") =>
        /\ run[v].outcome # "none"
        /\ run[v].outcome \in Successes => ledger'[run[v].state.node] = "succeeded"
        /\ run[v].outcome = "not_passed" =>
              run[v].state.node = "post_deploy_verify" /\ verdict' = "failed"
  BY <1>2 DEF RunOK, Grows, At, InAction
<1> QED BY <1>1, <1>3, <1>4, <1>5, <1>6, <1>7 DEF RunOK, At

\* A step of one worker that touches neither rows nor what the adapters did,
\* and that leaves the worker with no row.
Quiet(w) ==
    /\ UNCHANGED <<job, preprod, ledger, executed, verdict, crashes>>
    /\ trail \subseteq trail' /\ trail' \subseteq Transition
    /\ approvals' \in BOOLEAN /\ (approvals => approvals')
    /\ calls' \in 0..MaxCalls[job]
    /\ run' \in [Workers -> Invocation] /\ \A v \in Workers \ {w} : run'[v] = run[v]
    /\ run[w].pc \notin {"attempt", "commit"} /\ run'[w].pc \notin {"attempt", "commit"}

LEMMA QuietGrows ==
    ASSUME NEW w \in Workers, Quiet(w)
    PROVE  Grows
BY DEF Quiet, Grows

LEMMA QuietKeeps ==
    ASSUME WorkflowInv, NEW w \in Workers, Quiet(w),
           StateOK(checkpoint)', RunOK(w)', TrailOK'
    PROVE  WorkflowInv'
<1>1. TypeOK'
  BY DEF WorkflowInv, TypeOK, Quiet, StateOK
<1>2. \A v \in Workers : RunOK(v)'
  BY QuietGrows, RunKept DEF WorkflowInv, Quiet
<1>3. \A v \in Workers, a \in Actions : Holds(v, a)' <=> Holds(v, a)
  BY DEF Quiet, Holds
<1>4. LockOK'
  BY <1>3 DEF WorkflowInv, LockOK
<1>5. CountOK'
  <2> SUFFICES ASSUME NEW a \in Actions
               PROVE  /\ \A v \in Workers : Holds(v, a)' => executed'[a] <= Spent' + run'[v].tries
                      /\ ledger'[a] \in {"none", "pending"} /\ (\A v \in Workers : ~Holds(v, a)') =>
                            executed'[a] <= Spent'
                      /\ executed'[a] <= job'.attempts * (crashes' + 1)
    BY DEF CountOK
  <2>1. Spent' = Spent
    BY DEF Quiet, Spent
  <2>2. \A v \in Workers : Holds(v, a) => run'[v] = run[v]
    BY DEF Quiet, Holds
  <2> QED BY <1>3, <2>1, <2>2 DEF WorkflowInv, CountOK, Quiet
<1>6. VerdictOK' /\ DeployWasAuthorised' /\ RollbackFollowsFailedVerification'
  BY DEF WorkflowInv, Quiet, VerdictOK, DeployWasAuthorised,
         RollbackFollowsFailedVerification
<1> QED BY <1>1, <1>2, <1>4, <1>5, <1>6 DEF WorkflowInv


LEMMA InitialOK ==
    /\ InitialState \in State /\ Rests(InitialState)
    /\ InitialState.phase \in Reached /\ InitialState.node \in Nodes /\ Off \in Invocation
<1>1. InitialState \in State
  BY DEF InitialState, State, Nodes, Gates, Phases, Codes
<1>2. \A a \in Actions : "intake" \notin After[a]
  BY AfterOK
<1>3. "intake" \notin AfterScope
  BY DEF AfterScope, AfterInventory, AfterBackup, AfterWorkspace, AfterPlan, AfterTest,
     AfterDeploy, AfterVerify
<1>4. Rests(InitialState)
  BY <1>2, <1>3 DEF InitialState, Rests, NodeRests, AfterScope, AfterInventory, AfterBackup
<1>5. Off \in Invocation
  BY <1>1 DEF Off, Invocation, Outcomes
<1>6. InitialState.phase \in Reached /\ InitialState.node \in Nodes
  BY DEF InitialState, Reached, Nodes, Gates
<1> QED BY <1>1, <1>4, <1>5, <1>6

\* A worker that is between two nodes, or in none.
LEMMA IdleOK ==
    ASSUME Grows, NEW w \in Workers, NEW i \in Invocation, run'[w] = i,
           i.pc \in {"off", "save", "node"}, i.tries = 0,
           i.pc = "node" => i.state.node \in Nodes, i.decision = "approved" => approvals',
           Rests(i.state), i.state.phase \in Reached'
    PROVE  RunOK(w)'
<1>1. i.state \in State
  BY DEF Invocation
<1>2. StateOK(run[w].state)'
  BY <1>1, RunRests
<1> HIDE DEF StateOK
<1> QED BY <1>2 DEF RunOK, At, Running, InAction

\* The invocation of a worker that leaves the graph.
LEMMA EndOK ==
    ASSUME Grows, NEW w \in Workers, run'[w] = Off
    PROVE  RunOK(w)'
<1>1. /\ Off.pc = "off" /\ Off.tries = 0 /\ Off.decision = "none" /\ Off.state = InitialState
  BY DEF Off
<1>2. InitialState.phase \in Reached'
  BY InitialOK, ReachedGrows
<1> QED BY <1>1, <1>2, InitialOK, IdleOK

\* What a worker has to save.
LEMMA SaveOK ==
    ASSUME Grows, NEW w \in Workers, NEW s \in State, Rests(s), s.phase \in Reached',
           run'[w] = [Off EXCEPT !.pc = "save", !.state = s]
    PROVE  RunOK(w)' /\ run'[w].pc = "save" /\ run'[w] \in Invocation
<1>1. PICK i : i = [Off EXCEPT !.pc = "save", !.state = s]
  OBVIOUS
<1>2. /\ i \in Invocation /\ i.pc = "save" /\ i.tries = 0 /\ i.decision = "none" /\ i.state = s
  BY <1>1, InitialOK DEF Invocation, Off
<1> QED BY <1>1, <1>2, IdleOK

\* A node that ends in a result, or in an exception.
LEMMA LeaveKeeps ==
    ASSUME WorkflowInv, NEW w \in Workers, NEW r, ResultOK(run[w].state, r), Leave(w, r),
           run[w].pc \in {"node", "decide", "leave"},
           UNCHANGED <<job, preprod, checkpoint, ledger, world>>
    PROVE  WorkflowInv'
<1>0. /\ run \in [Workers -> Invocation] /\ trail \subseteq Transition /\ TrailOK /\ RunOK(w)
      /\ approvals \in BOOLEAN /\ calls \in 0..MaxCalls[job] /\ StateOK(checkpoint)
  BY DEF WorkflowInv, TypeOK
<1>1. CASE Ends(w) /\ UNCHANGED trail
  <2>1. Quiet(w) /\ run'[w] = Off
    BY <1>0, <1>1, InitialOK DEF Quiet, Ends, Off, world
  <2>2. Grows
    BY <2>1, QuietGrows
  <2>3. TrailOK'
    BY <1>0, <1>1 DEF TrailOK, Reached
  <2>4. StateOK(checkpoint)'
    BY <1>0, <2>2, CheckpointKept
  <2>5. RunOK(w)'
    BY <2>1, <2>2, EndOK
  <2> QED BY <2>1, <2>3, <2>4, <2>5, QuietKeeps
<1>2. CASE /\ trail' = trail \cup {r.entry}
           /\ run' = [run EXCEPT ![w] = [Off EXCEPT !.pc = "save", !.state = r.state]]
  <2>1. /\ r.state \in State /\ Rests(r.state) /\ r.entry \in Transition
        /\ r.entry.from = run[w].state.phase /\ r.entry.to = r.state.phase
    BY DEF ResultOK
  <2>2. run'[w] = [Off EXCEPT !.pc = "save", !.state = r.state]
    BY <1>0, <1>2
  <2>3. Grows /\ r.state.phase \in Reached'
    BY <1>2, <2>1 DEF Grows, Reached, world
  <2>4. RunOK(w)' /\ run'[w].pc = "save" /\ run'[w] \in Invocation
    BY <2>1, <2>2, <2>3, SaveOK
  <2>5. run' \in [Workers -> Invocation] /\ \A v \in Workers \ {w} : run'[v] = run[v]
    BY <1>0, <1>2, <2>2, <2>4
  <2>6. Quiet(w)
    BY <1>0, <1>2, <2>1, <2>4, <2>5 DEF Quiet, world
  <2>7. TrailOK'
    <3>1. Reached \subseteq Reached' /\ run[w].state.phase \in Reached
      BY <1>0, <2>3, ReachedGrows DEF RunOK, StateOK
    <3> QED BY <1>0, <1>2, <2>1, <3>1 DEF TrailOK
  <2>8. StateOK(checkpoint)'
    BY <1>0, <2>3, CheckpointKept DEF world
  <2> QED BY <2>4, <2>6, <2>7, <2>8, QuietKeeps
<1> QED BY <1>1, <1>2 DEF Leave

\* The state of a worker that runs a node.
LEMMA NodeStateOK ==
    ASSUME WorkflowInv, NEW w \in Workers
    PROVE  /\ TypeOK /\ RunOK(w) /\ StateOK(run[w].state) /\ run[w].state \in State
           /\ run[w].pc \in Running => run[w].state.node \in Nodes
BY DEF WorkflowInv, RunOK, StateOK

LEMMA RunGateKeeps ==
    ASSUME WorkflowInv, NEW w \in Workers, RunGate(w)
    PROVE  WorkflowInv'
<1>1. PICK r \in GateResults(run[w].state) : Leave(w, r)
  BY DEF RunGate
<1>2. ResultOK(run[w].state, r)
  BY NodeStateOK, GatesOK DEF RunGate
<1> QED BY <1>1, <1>2, LeaveKeeps DEF RunGate, At

\* A worker that leaves the graph without a trace.
LEMMA EndsKeeps ==
    ASSUME WorkflowInv, NEW w \in Workers, Ends(w), run[w].pc \notin {"attempt", "commit"},
           trail' \subseteq Transition, trail \subseteq trail', TrailOK',
           UNCHANGED <<job, preprod, checkpoint, ledger, world>>
    PROVE  WorkflowInv'
<1>1. Quiet(w) /\ run'[w] = Off
  BY InitialOK DEF Quiet, Ends, Off, world, WorkflowInv, TypeOK
<1>2. Grows
  BY <1>1, QuietGrows
<1>3. StateOK(checkpoint)'
  BY <1>2, CheckpointKept DEF WorkflowInv
<1> QED BY <1>1, <1>2, <1>3, EndOK, QuietKeeps

LEMMA ScanConflictKeeps ==
    ASSUME WorkflowInv, NEW w \in Workers, ScanConflict(w)
    PROVE  WorkflowInv'
<1>1. TrailOK' /\ trail' \subseteq Transition
  BY DEF ScanConflict, WorkflowInv, TrailOK, Reached, TypeOK
<1> QED BY <1>1, EndsKeeps DEF ScanConflict, At

LEMMA EvidenceOverflowsKeeps ==
    ASSUME WorkflowInv, NEW w \in Workers, EvidenceOverflows(w)
    PROVE  WorkflowInv'
<1>1. TrailOK' /\ trail' \subseteq Transition
  BY DEF EvidenceOverflows, WorkflowInv, TrailOK, Reached, TypeOK
<1> QED BY <1>1, EndsKeeps DEF EvidenceOverflows, At

LEMMA DecideKeeps ==
    ASSUME WorkflowInv, NEW w \in Workers, Decide(w)
    PROVE  WorkflowInv'
<1>1. /\ run[w].state.node = "approval" /\ run[w].pc = "decide"
      /\ run[w].decision \in {"approved", "rejected", "incomplete"}
      /\ run[w].decision = "approved" => approvals
      /\ UNCHANGED <<job, preprod, checkpoint, ledger, world>>
  BY NodeStateOK DEF Decide, RunOK, At, TypeOK, Invocation
<1>2. CASE run[w].decision = "approved"
  <2>1. Leave(w, Approved(run[w].state))
    BY <1>2 DEF Decide
  <2>2. ResultOK(run[w].state, Approved(run[w].state))
    BY <1>1, <1>2, NodeStateOK, ApprovalOK
  <2> QED BY <1>1, <2>1, <2>2, LeaveKeeps
<1>3. CASE run[w].decision = "rejected"
  <2>1. Leave(w, Failure(run[w].state, "approval_rejected"))
    BY <1>3 DEF Decide
  <2>2. "approval_rejected" \in Codes \ {"none"} /\ "approval" \in Nodes
    BY DEF Codes, Nodes, Gates
  <2>3. ResultOK(run[w].state, Failure(run[w].state, "approval_rejected"))
    BY <1>1, <2>2, NodeStateOK, FailureOK
  <2> QED BY <1>1, <2>1, <2>3, LeaveKeeps
<1>4. CASE run[w].decision = "incomplete"
  <2>1. Ends(w) /\ UNCHANGED trail
    BY <1>4 DEF Decide
  <2>2. TrailOK' /\ trail' \subseteq Transition
    BY <2>1 DEF WorkflowInv, TrailOK, Reached, TypeOK
  <2> QED BY <1>1, <2>1, <2>2, EndsKeeps
<1> QED BY <1>1, <1>2, <1>3, <1>4

LEMMA DeployRefusedKeeps ==
    ASSUME WorkflowInv, NEW w \in Workers, DeployRefused(w)
    PROVE  WorkflowInv'
<1> DEFINE code == IF PreproductionVerified(w) THEN "approval_required_before_deploy"
                   ELSE "verified_preproduction_environment_required"
<1>1. code \in Codes \ {"none"} /\ Leave(w, Failure(run[w].state, code)) /\ run[w].pc = "node"
      /\ UNCHANGED <<job, preprod, checkpoint, ledger, world>>
  BY DEF Codes, DeployRefused, At
<1> HIDE DEF code
<1>2. ResultOK(run[w].state, Failure(run[w].state, code))
  BY <1>1, NodeStateOK, FailureOK DEF Running
<1> QED BY <1>1, <1>2, LeaveKeeps


LEMMA DeliverKeeps ==
    ASSUME WorkflowInv, NEW w \in Workers, Deliver(w)
    PROVE  WorkflowInv'
<1>1. PICK i : i = [Off EXCEPT !.pc = "node", !.state = InitialState]
  OBVIOUS
<1>2. i \in Invocation /\ i.pc = "node" /\ i.tries = 0 /\ i.decision = "none"
      /\ i.state = InitialState
  BY <1>1, InitialOK DEF Invocation, Off
<1>3. run'[w] = i /\ run' \in [Workers -> Invocation] /\ \A v \in Workers \ {w} : run'[v] = run[v]
  BY <1>1, <1>2 DEF Deliver, WorkflowInv, TypeOK
<1>4. calls' \in 0..MaxCalls[job]
  BY MaxCallsAssumption DEF Deliver, Calls, WorkflowInv, TypeOK
<1>5. Quiet(w)
  BY <1>2, <1>3, <1>4 DEF Quiet, Deliver, At, WorkflowInv, TypeOK
<1>6. Grows /\ InitialState.phase \in Reached'
  BY <1>5, QuietGrows, ReachedGrows, InitialOK
<1>7. StateOK(checkpoint)'
  BY <1>6, InitialOK, CheckpointRests DEF Deliver
<1>8. RunOK(w)'
  BY <1>2, <1>3, <1>6, InitialOK, IdleOK
<1>9. TrailOK'
  BY DEF Deliver, WorkflowInv, TrailOK, Reached
<1> QED BY <1>5, <1>7, <1>8, <1>9, QuietKeeps

LEMMA ResumeKeeps ==
    ASSUME WorkflowInv, NEW w \in Workers,
           NEW decision \in {"none", "approved", "rejected", "incomplete"}, Resume(w, decision)
    PROVE  WorkflowInv'
<1>0. checkpoint \in State /\ Rests(checkpoint) /\ checkpoint.phase \in Reached
      /\ checkpoint.node \in Nodes
  BY DEF WorkflowInv, StateOK, Resume, State
<1>1. PICK i : i = [Off EXCEPT !.pc = "node", !.state = checkpoint, !.decision = decision]
  OBVIOUS
<1>2. i \in Invocation /\ i.pc = "node" /\ i.tries = 0 /\ i.decision = decision
      /\ i.state = checkpoint
  BY <1>0, <1>1, InitialOK DEF Invocation, Off
<1>3. run'[w] = i /\ run' \in [Workers -> Invocation] /\ \A v \in Workers \ {w} : run'[v] = run[v]
  BY <1>1, <1>2 DEF Resume, WorkflowInv, TypeOK
<1>4. calls' \in 0..MaxCalls[job]
  BY MaxCallsAssumption DEF Resume, Calls, WorkflowInv, TypeOK
<1>5. approvals' \in BOOLEAN /\ (approvals => approvals') /\ (decision = "approved" => approvals')
  BY DEF Resume, WorkflowInv, TypeOK
<1>6. Quiet(w)
  BY <1>2, <1>3, <1>4, <1>5 DEF Quiet, Resume, At, WorkflowInv, TypeOK
<1>7. Grows /\ checkpoint.phase \in Reached'
  BY <1>0, <1>6, QuietGrows, ReachedGrows
<1>8. StateOK(checkpoint)'
  BY <1>7, CheckpointKept DEF Resume, WorkflowInv
<1>9. RunOK(w)'
  BY <1>0, <1>2, <1>3, <1>5, <1>7, IdleOK
<1>10. TrailOK'
  BY DEF Resume, WorkflowInv, TrailOK, Reached
<1> QED BY <1>6, <1>8, <1>9, <1>10, QuietKeeps

LEMMA SaveKeeps ==
    ASSUME WorkflowInv, NEW w \in Workers, Save(w)
    PROVE  WorkflowInv'
<1>0. run[w].state \in State /\ Rests(run[w].state) /\ run[w].state.phase \in Reached
  BY NodeStateOK DEF StateOK
<1>1. PICK i : i = IF run[w].state.node = "end" THEN Off
                   ELSE [Off EXCEPT !.pc = "node", !.state = run[w].state]
  OBVIOUS
<1>2. /\ i \in Invocation /\ i.pc \in {"off", "node"} /\ i.tries = 0 /\ i.decision = "none"
      /\ i.pc = "node" => i.state.node \in Nodes
      /\ i.state \in {InitialState, run[w].state}
  <2>1. CASE run[w].state.node = "end"
    BY <1>1, <2>1, InitialOK DEF Off
  <2>2. CASE run[w].state.node # "end"
    <3>1. run[w].state.node \in Nodes
      BY <1>0, <2>2 DEF State
    <3> QED BY <1>0, <1>1, <2>2, <3>1, InitialOK DEF Invocation, Off
  <2> QED BY <2>1, <2>2
<1>3. run'[w] = i /\ run' \in [Workers -> Invocation] /\ \A v \in Workers \ {w} : run'[v] = run[v]
  BY <1>1, <1>2 DEF Save, WorkflowInv, TypeOK
<1>4. Quiet(w)
  BY <1>2, <1>3 DEF Quiet, Save, At, world, WorkflowInv, TypeOK
<1>5. Grows /\ run[w].state.phase \in Reached' /\ InitialState.phase \in Reached'
  BY <1>0, <1>4, QuietGrows, ReachedGrows, InitialOK
<1>6. StateOK(checkpoint)'
  BY <1>0, <1>5, CheckpointRests DEF Save
<1>7. RunOK(w)'
  BY <1>0, <1>2, <1>3, <1>5, InitialOK, IdleOK
<1>8. TrailOK'
  BY DEF Save, WorkflowInv, TrailOK, Reached
<1> QED BY <1>4, <1>6, <1>7, <1>8, QuietKeeps

LEMMA ApprovalKeeps ==
    ASSUME WorkflowInv, NEW w \in Workers, Approval(w)
    PROVE  WorkflowInv'
<1> DEFINE s == run[w].state
           paused == Entry(s, "paused", "none", "approval", "paused")
<1>1. /\ s \in State /\ s.node = "approval" /\ s.node \in Nodes /\ StateOK(s) /\ run[w].pc = "node"
      /\ UNCHANGED <<job, preprod, checkpoint, ledger, world>>
  BY NodeStateOK DEF Approval, At, Running
<1>2. CASE ~PreproductionVerified(w)
  <2>1. Leave(w, Failure(s, "verified_preproduction_environment_required"))
    BY <1>2 DEF Approval
  <2>2. "verified_preproduction_environment_required" \in Codes \ {"none"}
    BY DEF Codes
  <2> HIDE DEF s
  <2>3. ResultOK(s, Failure(s, "verified_preproduction_environment_required"))
    BY <1>1, <2>2, FailureOK
  <2> QED BY <1>1, <2>1, <2>3, LeaveKeeps DEF s
<1>3. CASE PreproductionVerified(w) /\ s.approval # "required"
  <2>1. Leave(w, NotRequired(s))
    BY <1>3 DEF Approval
  <2>2. ResultOK(s, NotRequired(s))
    BY <1>1, <1>3, NodeStateOK, ApprovalOK
  <2> QED BY <1>1, <2>1, <2>2, LeaveKeeps
<1>4. CASE PreproductionVerified(w) /\ s.approval = "required"
  <2>1. /\ trail' = trail \cup {paused}
        /\ IF run[w].decision = "none" THEN Ends(w) ELSE run' = [run EXCEPT ![w].pc = "decide"]
    BY <1>4 DEF Approval
  <2>2. s.phase = "approval" /\ s.phase \in Reached
    BY <1>1 DEF StateOK, Rests
  <2>3. "none" \in Codes /\ "approval" \in Phases
    BY DEF Codes, Phases, Nodes, Gates
  <2> HIDE DEF s
  <2>4. paused \in Transition /\ paused.from = "approval" /\ paused.to = "approval"
    BY <1>1, <2>2, <2>3, EntryOK
  <2> HIDE DEF paused
  <2>5. trail \subseteq trail' /\ trail' \subseteq Transition /\ TrailOK'
    BY <2>1, <2>2, <2>4 DEF WorkflowInv, TypeOK, TrailOK, Reached
  <2>6. CASE run[w].decision = "none"
    BY <1>1, <2>1, <2>5, <2>6, EndsKeeps
  <2>7. CASE run[w].decision # "none"
    <3>1. PICK i : i = [run[w] EXCEPT !.pc = "decide"]
      OBVIOUS
    <3>2. /\ i \in Invocation /\ i.pc = "decide" /\ i.state = s /\ i.decision = run[w].decision
      BY <3>1 DEF WorkflowInv, TypeOK, Invocation, s
    <3>3. run' = [run EXCEPT ![w] = i]
      BY <2>1, <2>7, <3>1
    <3>4. run'[w] = i /\ run' \in [Workers -> Invocation]
          /\ \A v \in Workers \ {w} : run'[v] = run[v]
      BY <3>2, <3>3 DEF WorkflowInv, TypeOK
    <3>5. Quiet(w)
      BY <1>1, <2>5, <3>2, <3>4 DEF Quiet, world, WorkflowInv, TypeOK
    <3>6. Grows /\ s.phase \in Reached'
      BY <2>2, <3>5, QuietGrows, ReachedGrows
    <3>7. StateOK(checkpoint)'
      BY <1>1, <3>6, CheckpointKept DEF WorkflowInv
    <3>8. StateOK(run[w].state)'
      BY <1>1, <3>2, <3>4, <3>6, RunRests DEF StateOK
    <3>9. run[w].decision = "approved" => approvals'
      BY <1>1, NodeStateOK DEF RunOK, world
    <3> HIDE DEF StateOK
    <3>10. RunOK(w)'
      BY <1>1, <2>7, <3>2, <3>4, <3>8, <3>9 DEF RunOK, At, Running, InAction
    <3> QED BY <2>5, <3>5, <3>7, <3>10, QuietKeeps
  <2> QED BY <2>6, <2>7
<1> QED BY <1>2, <1>3, <1>4

LEMMA ActionReturnsKeeps ==
    ASSUME WorkflowInv, NEW w \in Workers, ActionReturns(w)
    PROVE  WorkflowInv'
<1> DEFINE s == run[w].state
           outcome == run[w].outcome
<1>1. /\ s \in State /\ StateOK(s) /\ s.node \in Actions /\ run[w].pc = "leave"
      /\ outcome # "none" /\ (outcome \in Successes => ledger[s.node] = "succeeded")
      /\ outcome = "not_passed" => s.node = "post_deploy_verify" /\ verdict = "failed"
      /\ outcome \in Outcomes
      /\ UNCHANGED <<job, preprod, checkpoint, ledger, world>>
  BY NodeStateOK DEF ActionReturns, RunOK, At, InAction, TypeOK, Invocation
<1>2. CASE outcome \in Successes /\ ~run[w].over
  <2>1. Leave(w, ActionResult(s, outcome))
    BY <1>2 DEF ActionReturns
  <2>2. ResultOK(s, ActionResult(s, outcome))
    BY <1>1, <1>2, NodeStateOK, ActionResultOK
  <2> QED BY <1>1, <2>1, <2>2, LeaveKeeps
<1>3. CASE ~(outcome \in Successes /\ ~run[w].over)
  <2>1. PICK code \in ActionCodes :
           /\ run' = [run EXCEPT ![w] = [Off EXCEPT !.pc = "save", !.state = ActionError(s, code)]]
           /\ UNCHANGED trail
    <3>1. "cost_budget_exhausted" \in ActionCodes /\ (outcome \notin Successes => outcome \in ActionCodes)
      BY <1>1 DEF ActionCodes, Outcomes
    <3> QED BY <1>3, <3>1 DEF ActionReturns
  <2>2. StateOK(ActionError(s, code))
    BY <1>1, NodeStateOK, ActionErrorOK
  <2>3. PICK e : e = ActionError(s, code)
    OBVIOUS
  <2>4. e \in State /\ Rests(e) /\ e.phase \in Reached
    BY <2>2, <2>3 DEF StateOK
  <2>5. run' = [run EXCEPT ![w] = [Off EXCEPT !.pc = "save", !.state = e]]
    BY <2>1, <2>3
  <2>6. run'[w] = [Off EXCEPT !.pc = "save", !.state = e]
    BY <2>5 DEF WorkflowInv, TypeOK
  <2>7. Grows
    BY <1>1, <2>1 DEF Grows, world
  <2>8. RunOK(w)' /\ run'[w].pc = "save" /\ run'[w] \in Invocation
    BY <2>4, <2>6, <2>7, ReachedGrows, SaveOK
  <2>9. run' \in [Workers -> Invocation] /\ \A v \in Workers \ {w} : run'[v] = run[v]
    BY <2>5, <2>6, <2>8 DEF WorkflowInv, TypeOK
  <2>10. Quiet(w)
    BY <1>1, <2>1, <2>8, <2>9 DEF Quiet, world, WorkflowInv, TypeOK
  <2>11. StateOK(checkpoint)' /\ TrailOK'
    BY <1>1, <2>1, <2>7, CheckpointKept DEF WorkflowInv, TrailOK, Reached
  <2> QED BY <2>8, <2>10, <2>11, QuietKeeps
<1> QED BY <1>2, <1>3


\* What a step of one worker at a row leaves as it was.
LEMMA OthersKept ==
    ASSUME WorkflowInv, Grows, NEW w \in Workers, RunOK(w)',
           \A v \in Workers \ {w} :
              /\ run'[v] = run[v]
              /\ run[v].pc \in {"attempt", "commit"} =>
                    ledger'[run[v].state.node] = ledger[run[v].state.node],
           UNCHANGED <<checkpoint, trail>>
    PROVE  StateOK(checkpoint)' /\ (\A v \in Workers : RunOK(v)') /\ TrailOK'
<1>1. StateOK(checkpoint)'
  BY CheckpointKept DEF WorkflowInv
<1>2. \A v \in Workers : RunOK(v)'
  BY RunKept DEF WorkflowInv
<1>3. TrailOK'
  BY DEF WorkflowInv, TrailOK, Reached
<1> QED BY <1>1, <1>2, <1>3

\* The bounds on attempts, as numbers.
LEMMA Numbers ==
    ASSUME TypeOK
    PROVE  /\ job.attempts \in Nat /\ crashes \in Nat /\ Spent \in Nat
           /\ job.attempts * (crashes + 1) = Spent + job.attempts
           /\ \A a \in Actions : executed[a] \in Nat
           /\ \A w \in Workers : run[w].tries \in Nat
<1>1. job.attempts \in Nat /\ crashes \in Nat
  BY JobsAssumption, MaxCrashesAssumption DEF TypeOK
<1>2. \A m, n \in Nat : m * n \in Nat /\ m * (n + 1) = m * n + m
  OBVIOUS
<1>3. \A w \in Workers : run[w].tries \in Nat
  BY DEF TypeOK, Invocation
<1> QED BY <1>1, <1>2, <1>3 DEF Spent, TypeOK

LEMMA CreateRowKeeps ==
    ASSUME WorkflowInv, NEW w \in Workers, CreateRow(w)
    PROVE  WorkflowInv'
<1> DEFINE a == run[w].state.node
<1>1. /\ a \in Actions /\ run[w].pc = "node" /\ run[w].tries = 0 /\ run[w] \in Invocation
      /\ a = "controlled_deploy" /\ job.production => preprod = "passed"
      /\ run[w].state \in State /\ Rests(run[w].state) /\ run[w].state.phase \in Reached
      /\ run[w].decision = "approved" => approvals
      /\ UNCHANGED <<job, preprod, checkpoint, trail, world>>
  BY NodeStateOK
     DEF CreateRow, At, RunOK, StateOK, DeployAllowed, PreproductionVerified, TypeOK
<1>2. PICK i : i = [run[w] EXCEPT !.pc = "claim"]
  OBVIOUS
<1>3. /\ i \in Invocation /\ i.pc = "claim" /\ i.state = run[w].state /\ i.tries = run[w].tries
      /\ i.decision = run[w].decision
  BY <1>1, <1>2 DEF Invocation
<1>4. run'[w] = i /\ run' \in [Workers -> Invocation] /\ \A v \in Workers \ {w} : run'[v] = run[v]
  BY <1>2, <1>3 DEF CreateRow, WorkflowInv, TypeOK
<1>5. /\ ledger' \in [Actions -> {"none", "pending", "succeeded", "failed", "escalated"}]
      /\ ledger'[a] # "none" /\ \A b \in Actions : ledger[b] # "none" => ledger'[b] = ledger[b]
      /\ \A b \in Actions : ledger'[b] = ledger[b] \/ (ledger[b] = "none" /\ ledger'[b] = "pending")
  BY <1>1 DEF CreateRow, WorkflowInv, TypeOK
<1>6. Grows
  BY <1>1, <1>5 DEF Grows, world
<1>7. RunOK(w)'
  <2>1. StateOK(run[w].state)'
    BY <1>1, <1>3, <1>4, <1>6, ReachedGrows, RunRests
  <2>2. run'[w].state.node \in Nodes
    BY <1>1, <1>3, <1>4, NodesOK
  <2> HIDE DEF StateOK
  <2> QED BY <1>1, <1>3, <1>4, <1>5, <2>1, <2>2 DEF RunOK, At, world
<1>8. \A v \in Workers : run[v].pc \in {"attempt", "commit"} =>
         run[v].state.node \in Actions /\ ledger[run[v].state.node] = "pending"
  BY DEF WorkflowInv, RunOK, InAction
<1>9. StateOK(checkpoint)' /\ (\A v \in Workers : RunOK(v)') /\ TrailOK'
  BY <1>1, <1>4, <1>5, <1>6, <1>7, <1>8, OthersKept
<1>10. TypeOK'
  BY <1>1, <1>4, <1>5 DEF WorkflowInv, TypeOK, world
<1>11. \A v \in Workers, b \in Actions : Holds(v, b)' <=> Holds(v, b)
  BY <1>1, <1>3, <1>4 DEF Holds
<1>12. LockOK'
  BY <1>11 DEF WorkflowInv, LockOK
<1>13. CountOK'
  <2>1. UNCHANGED <<executed, Spent, job, crashes>>
    BY <1>1 DEF Spent, world
  <2>2. \A v \in Workers, b \in Actions : Holds(v, b) => run'[v] = run[v]
    BY <1>1, <1>4 DEF Holds
  <2> QED BY <1>5, <1>11, <2>1, <2>2 DEF WorkflowInv, CountOK
<1>14. VerdictOK' /\ DeployWasAuthorised' /\ RollbackFollowsFailedVerification'
  BY <1>1, <1>5 DEF WorkflowInv, VerdictOK, DeployWasAuthorised,
     RollbackFollowsFailedVerification, Actions, world
<1> QED BY <1>9, <1>10, <1>12, <1>13, <1>14 DEF WorkflowInv

LEMMA ClaimKeeps ==
    ASSUME WorkflowInv, NEW w \in Workers, Claim(w)
    PROVE  WorkflowInv'
<1> DEFINE a == run[w].state.node
<1>1. /\ a \in Actions /\ run[w].pc = "claim" /\ run[w].tries = 0 /\ run[w] \in Invocation
      /\ a = "controlled_deploy" /\ job.production => preprod = "passed"
      /\ run[w].state \in State /\ Rests(run[w].state) /\ run[w].state.phase \in Reached
      /\ run[w].decision = "approved" => approvals
      /\ ledger[a] \in {"pending", "succeeded", "failed", "escalated"}
      /\ UNCHANGED <<job, preprod, checkpoint, ledger, trail, world>>
  BY NodeStateOK DEF Claim, At, RunOK, StateOK, InAction, TypeOK
<1>2. Grows /\ run[w].state.phase \in Reached' /\ a \in Nodes
  BY <1>1, NodesOK, ReachedGrows DEF Grows, world
<1>3. CASE ledger[a] # "pending"
  <2>1. PICK outcome \in {"ok", "action_failed", "transient_failure"} :
           /\ run' = [run EXCEPT ![w].pc = "leave", ![w].outcome = outcome]
           /\ outcome = "ok" <=> ledger[a] = "succeeded"
    BY <1>1, <1>3 DEF Claim, ReadRow
  <2>2. PICK i : i = [run[w] EXCEPT !.pc = "leave", !.outcome = outcome]
    OBVIOUS
  <2>3. /\ i \in Invocation /\ i.pc = "leave" /\ i.outcome = outcome /\ i.state = run[w].state
        /\ i.decision = run[w].decision
    BY <1>1, <2>2 DEF Invocation, Outcomes, Successes, ActionCodes
  <2>4. run'[w] = i /\ run' \in [Workers -> Invocation]
        /\ \A v \in Workers \ {w} : run'[v] = run[v]
    BY <2>1, <2>2, <2>3 DEF WorkflowInv, TypeOK
  <2>5. Quiet(w)
    BY <1>1, <2>3, <2>4 DEF Quiet, world, WorkflowInv, TypeOK
  <2>6. StateOK(checkpoint)' /\ TrailOK'
    BY <1>1, <1>2, CheckpointKept DEF WorkflowInv, TrailOK, Reached
  <2>7. StateOK(run[w].state)'
    BY <1>1, <1>2, <2>3, <2>4, RunRests
  <2> HIDE DEF StateOK
  <2>8. outcome \notin {"none", "not_passed"} /\ (outcome \in Successes => outcome = "ok")
    BY DEF Successes
  <2>9. RunOK(w)'
    BY <1>1, <1>2, <2>1, <2>3, <2>4, <2>7, <2>8 DEF RunOK, At, InAction, world
  <2> QED BY <2>5, <2>6, <2>9, QuietKeeps
<1>4. CASE ledger[a] = "pending"
  <2>1. PICK i : i = [run[w] EXCEPT !.pc = "attempt"]
    OBVIOUS
  <2>2. run' = [run EXCEPT ![w] = i]
    BY <1>4, <2>1 DEF Claim, ReadRow
  <2>3. /\ i \in Invocation /\ i.pc = "attempt" /\ i.state = run[w].state /\ i.tries = 0
        /\ i.decision = run[w].decision
    BY <1>1, <2>1 DEF Invocation
  <2>4. run'[w] = i /\ run' \in [Workers -> Invocation]
        /\ \A v \in Workers \ {w} : run'[v] = run[v]
    BY <2>2, <2>3 DEF WorkflowInv, TypeOK
  <2>5. RunOK(w)'
    <3>1. StateOK(run[w].state)'
      BY <1>1, <1>2, <2>3, <2>4, RunRests
    <3> HIDE DEF StateOK
    <3>2. job.attempts > 0
      BY JobsAssumption DEF WorkflowInv, TypeOK
    <3> QED BY <1>1, <1>2, <1>4, <2>3, <2>4, <3>1, <3>2 DEF RunOK, At, InAction, world
  <2>6. StateOK(checkpoint)' /\ (\A v \in Workers : RunOK(v)') /\ TrailOK'
    BY <1>1, <1>2, <2>4, <2>5, OthersKept
  <2>7. TypeOK'
    BY <1>1, <2>4 DEF WorkflowInv, TypeOK, world
  <2>8. \A v \in Workers : ~Holds(v, a)
    BY DEF Claim, Locked, Holds
  <2>9. \A v \in Workers, b \in Actions :
           Holds(v, b)' <=> Holds(v, b) \/ (v = w /\ b = a)
    BY <1>1, <2>3, <2>4 DEF Holds
  <2>10. LockOK'
    BY <2>8, <2>9 DEF WorkflowInv, LockOK
  <2>11. CountOK'
    <3>1. UNCHANGED <<executed, ledger, Spent, job, crashes>>
      BY <1>1 DEF Spent, world
    <3>2. \A v \in Workers, b \in Actions : Holds(v, b) => run'[v] = run[v]
      BY <1>1, <2>4 DEF Holds
    <3>3. executed[a] <= Spent + run'[w].tries
      <4>1. executed[a] <= Spent
        BY <1>1, <1>4, <2>8 DEF WorkflowInv, CountOK
      <4> QED BY <1>1, <2>3, <2>4, <4>1, Numbers DEF WorkflowInv
    <3> QED BY <1>1, <2>9, <3>1, <3>2, <3>3 DEF WorkflowInv, CountOK
  <2>12. VerdictOK' /\ DeployWasAuthorised' /\ RollbackFollowsFailedVerification'
    BY <1>1 DEF WorkflowInv, VerdictOK, DeployWasAuthorised,
       RollbackFollowsFailedVerification, world
  <2> QED BY <2>6, <2>7, <2>10, <2>11, <2>12 DEF WorkflowInv
<1> QED BY <1>3, <1>4


\* Only the worker that holds a row executes its action, and none twice.
LEMMA AttemptKeeps ==
    ASSUME WorkflowInv, NEW w \in Workers, Attempt(w)
    PROVE  WorkflowInv'
<1> DEFINE a == run[w].state.node
           tries == run[w].tries + 1
<1>1. /\ a \in Actions /\ run[w].pc = "attempt" /\ run[w].tries < job.attempts
      /\ run[w] \in Invocation
      /\ a = "controlled_deploy" /\ job.production => preprod = "passed"
      /\ run[w].state \in State /\ Rests(run[w].state) /\ run[w].state.phase \in Reached
      /\ run[w].decision = "approved" => approvals
      /\ ledger[a] = "pending"
      /\ executed' = [executed EXCEPT ![a] = @ + 1]
      /\ UNCHANGED <<job, preprod, checkpoint, ledger, trail, verdict, approvals, calls, crashes>>
  BY NodeStateOK DEF Attempt, At, RunOK, StateOK, InAction, TypeOK
<1>2. Grows /\ run[w].state.phase \in Reached' /\ a \in Nodes
  BY <1>1, NodesOK, ReachedGrows DEF Grows
<1>3. tries \in 1..10 /\ tries <= job.attempts /\ job.attempts \in 1..10
  BY <1>1, JobsAssumption DEF WorkflowInv, TypeOK, Invocation
<1>4. PICK i : /\ run' = [run EXCEPT ![w] = i]
               /\ i \in Invocation /\ i.state = run[w].state /\ i.tries = tries
               /\ i.decision = run[w].decision
               /\ \/ i.pc = "attempt" /\ tries < job.attempts
                  \/ /\ i.pc = "commit" /\ i.outcome \in Settling
                     /\ i.outcome = "not_passed" => a = "post_deploy_verify"
  <2>1. CASE \E outcome \in Settling, over \in BOOLEAN :
                /\ outcome = "not_passed" => a = "post_deploy_verify"
                /\ run' = [run EXCEPT ![w].pc = "commit", ![w].tries = tries,
                                      ![w].outcome = outcome, ![w].over = over]
    <3>1. PICK outcome \in Settling, over \in BOOLEAN :
                /\ outcome = "not_passed" => a = "post_deploy_verify"
                /\ run' = [run EXCEPT ![w].pc = "commit", ![w].tries = tries,
                                      ![w].outcome = outcome, ![w].over = over]
      BY <2>1
    <3>2. PICK i : i = [run[w] EXCEPT !.pc = "commit", !.tries = tries,
                                      !.outcome = outcome, !.over = over]
      OBVIOUS
    <3>3. run' = [run EXCEPT ![w] = i]
      BY <3>1, <3>2
    <3>4. outcome \in Outcomes /\ tries \in 0..10
      BY <1>3 DEF Settling, Outcomes, ActionCodes
    <3> HIDE DEF tries
    <3>5. /\ i \in Invocation /\ i.state = run[w].state /\ i.tries = tries /\ i.pc = "commit"
          /\ i.decision = run[w].decision /\ i.outcome = outcome
      BY <1>1, <3>2, <3>4 DEF Invocation
    <3> QED BY <3>1, <3>3, <3>5
  <2>2. CASE tries < job.attempts /\ run' = [run EXCEPT ![w].tries = tries]
    <3>1. PICK i : i = [run[w] EXCEPT !.tries = tries]
      OBVIOUS
    <3>2. run' = [run EXCEPT ![w] = i]
      BY <2>2, <3>1
    <3>3. tries \in 0..10
      BY <1>3
    <3> HIDE DEF tries
    <3>4. /\ i \in Invocation /\ i.state = run[w].state /\ i.tries = tries /\ i.pc = "attempt"
          /\ i.decision = run[w].decision
      BY <1>1, <3>1, <3>3 DEF Invocation
    <3> QED BY <2>2, <3>2, <3>4
  <2>3. "not_passed" \notin {"action_failed", "retry_budget_exhausted"}
    OBVIOUS
  <2> QED BY <2>1, <2>2, <2>3 DEF Attempt, Settling
<1>5. run'[w] = i /\ run' \in [Workers -> Invocation] /\ \A v \in Workers \ {w} : run'[v] = run[v]
  BY <1>4 DEF WorkflowInv, TypeOK
<1>6. RunOK(w)'
  <2>1. StateOK(run[w].state)'
    BY <1>1, <1>2, <1>4, <1>5, RunRests
  <2> HIDE DEF StateOK
  <2> QED BY <1>1, <1>2, <1>3, <1>4, <1>5, <2>1 DEF RunOK, At
<1>7. StateOK(checkpoint)' /\ (\A v \in Workers : RunOK(v)') /\ TrailOK'
  BY <1>1, <1>2, <1>5, <1>6, OthersKept
<1>8. TypeOK'
  BY <1>1, <1>5 DEF WorkflowInv, TypeOK
<1>9. Holds(w, a) /\ \A v \in Workers, b \in Actions : Holds(v, b)' <=> Holds(v, b)
  BY <1>1, <1>4, <1>5 DEF Holds
<1>10. LockOK' /\ \A v \in Workers : Holds(v, a) => v = w
  BY <1>1, <1>9 DEF WorkflowInv, LockOK
<1>11. executed'[a] <= Spent + tries /\ \A b \in Actions \ {a} : executed'[b] = executed[b]
  <2>1. executed[a] <= Spent + run[w].tries
    BY <1>1, <1>9 DEF WorkflowInv, CountOK
  <2>2. executed'[a] = executed[a] + 1 /\ \A b \in Actions \ {a} : executed'[b] = executed[b]
    BY <1>1 DEF WorkflowInv, TypeOK
  <2> QED BY <1>1, <2>1, <2>2, Numbers DEF WorkflowInv
<1>12. CountOK'
  <2>1. UNCHANGED <<ledger, Spent, job, crashes>>
    BY <1>1 DEF Spent
  <2>2. \A v \in Workers, b \in Actions \ {a} : Holds(v, b) => run'[v] = run[v]
    BY <1>1, <1>5 DEF Holds
  <2>3. run'[w].tries = tries
    BY <1>4, <1>5
  <2>4. executed'[a] <= job.attempts * (crashes + 1)
    BY <1>1, <1>3, <1>8, <1>11, Numbers DEF WorkflowInv, TypeOK
  <2> QED BY <1>9, <1>10, <1>11, <2>1, <2>2, <2>3, <2>4 DEF WorkflowInv, CountOK
<1>13. VerdictOK'
  BY <1>1 DEF WorkflowInv, VerdictOK
<1>14. DeployWasAuthorised'
  <2>1. CASE a = "controlled_deploy"
    <3>1. job.valid /\ job.inScope /\ job.backup /\ (Restricted => approvals)
      BY <1>1, <2>1 DEF Rests, NodeRests, AfterScope, AfterInventory, AfterBackup,
         AfterWorkspace, AfterPlan, AfterTest
    <3> QED BY <1>1, <2>1, <3>1 DEF DeployWasAuthorised, Restricted
  <2>2. CASE a # "controlled_deploy"
    BY <1>1, <1>11, <2>2 DEF WorkflowInv, DeployWasAuthorised, Actions
  <2> QED BY <2>1, <2>2
<1>15. RollbackFollowsFailedVerification'
  <2>1. CASE a = "rollback"
    <3>1. "rollback" \in After["controlled_deploy"]
      BY DEF After, AfterDeploy, AfterVerify
    <3>2. ledger["controlled_deploy"] = "succeeded" /\ verdict = "failed"
      BY <1>1, <2>1, <3>1 DEF Rests, NodeRests, Actions
    <3> QED BY <1>1, <3>2 DEF RollbackFollowsFailedVerification
  <2>2. CASE a # "rollback"
    BY <1>1, <1>11, <2>2 DEF WorkflowInv, RollbackFollowsFailedVerification, Actions
  <2> QED BY <2>1, <2>2
<1> QED BY <1>7, <1>8, <1>10, <1>12, <1>13, <1>14, <1>15 DEF WorkflowInv

LEMMA CommitKeeps ==
    ASSUME WorkflowInv, NEW w \in Workers, Commit(w)
    PROVE  WorkflowInv'
<1> DEFINE a == run[w].state.node
           outcome == run[w].outcome
<1>1. /\ a \in Actions /\ run[w].pc = "commit" /\ run[w] \in Invocation
      /\ a = "controlled_deploy" /\ job.production => preprod = "passed"
      /\ run[w].state \in State /\ Rests(run[w].state) /\ run[w].state.phase \in Reached
      /\ run[w].decision = "approved" => approvals
      /\ ledger[a] = "pending"
      /\ outcome \in Settling /\ (outcome = "not_passed" => a = "post_deploy_verify")
      /\ UNCHANGED <<job, preprod, checkpoint, trail, executed, approvals, calls, crashes>>
  BY NodeStateOK DEF Commit, At, RunOK, StateOK, InAction, TypeOK
<1>2. /\ ledger' \in [Actions -> {"none", "pending", "succeeded", "failed", "escalated"}]
      /\ \A b \in Actions \ {a} : ledger'[b] = ledger[b]
      /\ ledger'[a] \in {"succeeded", "failed", "escalated"}
      /\ ledger'[a] = "succeeded" <=> outcome \in Successes
  BY <1>1 DEF Commit, WorkflowInv, TypeOK, Settling, Successes
<1>3. /\ verdict' \in {"none", "passed", "failed"}
      /\ verdict = "failed" => verdict' = "failed"
      /\ verdict' # "none" => ledger'["post_deploy_verify"] = "succeeded"
      /\ outcome = "not_passed" => verdict' = "failed"
  <2>1. CASE a = "post_deploy_verify"
    <3>1. verdict = "none"
      BY <1>1, <2>1 DEF WorkflowInv, VerdictOK, TypeOK
    <3> QED BY <1>1, <1>2, <2>1, <3>1 DEF Commit, Successes
  <2>2. CASE a # "post_deploy_verify"
    <3>1. verdict' = verdict /\ outcome # "not_passed"
      BY <1>1, <2>2 DEF Commit
    <3> QED BY <1>1, <1>2, <2>2, <3>1 DEF WorkflowInv, VerdictOK, TypeOK, Actions
  <2> QED BY <2>1, <2>2
<1>4. PICK i : i = [run[w] EXCEPT !.pc = "leave"]
  OBVIOUS
<1>5. /\ i \in Invocation /\ i.pc = "leave" /\ i.state = run[w].state /\ i.outcome = outcome
      /\ i.decision = run[w].decision
  BY <1>1, <1>4 DEF Invocation
<1>6. run'[w] = i /\ run' \in [Workers -> Invocation] /\ \A v \in Workers \ {w} : run'[v] = run[v]
  BY <1>4, <1>5 DEF Commit, WorkflowInv, TypeOK
<1>7. Grows /\ run[w].state.phase \in Reached' /\ a \in Nodes
  <2>1. Grows
    BY <1>1, <1>2, <1>3 DEF Grows
  <2> QED BY <1>1, <2>1, NodesOK, ReachedGrows
<1>8. RunOK(w)'
  <2>1. StateOK(run[w].state)'
    BY <1>1, <1>5, <1>6, <1>7, RunRests
  <2>2. outcome # "none"
    BY <1>1 DEF Settling, Successes
  <2> HIDE DEF StateOK
  <2> QED BY <1>1, <1>2, <1>3, <1>5, <1>6, <1>7, <2>1, <2>2 DEF RunOK, At
<1>9. Holds(w, a) /\ \A v \in Workers : Holds(v, a) => v = w
  BY <1>1 DEF Holds, WorkflowInv, LockOK
<1>10. \A v \in Workers \ {w} : run[v].pc \in {"attempt", "commit"} =>
          ledger'[run[v].state.node] = ledger[run[v].state.node]
  <2>1. \A v \in Workers : run[v].pc \in {"attempt", "commit"} => run[v].state.node \in Actions
    BY DEF WorkflowInv, RunOK, InAction
  <2> QED BY <1>2, <1>9, <2>1 DEF Holds
<1>11. StateOK(checkpoint)' /\ (\A v \in Workers : RunOK(v)') /\ TrailOK'
  BY <1>1, <1>6, <1>7, <1>8, <1>10, OthersKept
<1>12. TypeOK'
  BY <1>1, <1>2, <1>3, <1>6 DEF WorkflowInv, TypeOK
<1>13. \A v \in Workers, b \in Actions : Holds(v, b)' <=> Holds(v, b) /\ v # w
  BY <1>1, <1>5, <1>6 DEF Holds
<1>14. LockOK'
  BY <1>13 DEF WorkflowInv, LockOK
<1>15. CountOK'
  <2>1. UNCHANGED <<executed, Spent, job, crashes>>
    BY <1>1 DEF Spent
  <2>2. \A v \in Workers \ {w}, b \in Actions : Holds(v, b) => run'[v] = run[v]
    BY <1>6
  <2>3. \A b \in Actions \ {a} : ~Holds(w, b)
    BY DEF Holds
  <2> QED BY <1>2, <1>13, <2>1, <2>2, <2>3 DEF WorkflowInv, CountOK
<1>16. VerdictOK' /\ DeployWasAuthorised'
  BY <1>1, <1>3 DEF WorkflowInv, VerdictOK, DeployWasAuthorised
<1>17. RollbackFollowsFailedVerification'
  BY <1>1, <1>2, <1>3 DEF WorkflowInv, RollbackFollowsFailedVerification, Actions
<1> QED BY <1>11, <1>12, <1>14, <1>15, <1>16, <1>17 DEF WorkflowInv

\* A crash gives the row back, and the attempts it may have cost are its own.
LEMMA CrashKeeps ==
    ASSUME WorkflowInv, NEW w \in Workers, Crash(w)
    PROVE  WorkflowInv'
<1>1. /\ crashes' = crashes + 1 /\ crashes' \in 0..MaxCrashes
      /\ UNCHANGED <<job, preprod, checkpoint, ledger, trail, executed, verdict, approvals, calls>>
  BY MaxCrashesAssumption DEF Crash, WorkflowInv, TypeOK
<1>2. /\ run'[w] = Off /\ run' \in [Workers -> Invocation]
      /\ \A v \in Workers \ {w} : run'[v] = run[v]
  BY InitialOK DEF Crash, Ends, WorkflowInv, TypeOK
<1>3. Grows
  BY <1>1 DEF Grows
<1>4. RunOK(w)'
  BY <1>2, <1>3, EndOK
<1>5. StateOK(checkpoint)' /\ (\A v \in Workers : RunOK(v)') /\ TrailOK'
  BY <1>1, <1>2, <1>3, <1>4, OthersKept
<1>6. TypeOK'
  BY <1>1, <1>2 DEF WorkflowInv, TypeOK
<1>7. \A v \in Workers, a \in Actions : Holds(v, a)' <=> Holds(v, a) /\ v # w
  BY <1>2 DEF Holds, Off
<1>8. LockOK'
  BY <1>7 DEF WorkflowInv, LockOK
<1>9. CountOK'
  <2> SUFFICES ASSUME NEW a \in Actions
               PROVE  /\ \A v \in Workers : Holds(v, a)' => executed'[a] <= Spent' + run'[v].tries
                      /\ ledger'[a] \in {"none", "pending"} /\ (\A v \in Workers : ~Holds(v, a)') =>
                            executed'[a] <= Spent'
                      /\ executed'[a] <= job'.attempts * (crashes' + 1)
    BY DEF CountOK
  <2>1. /\ Spent' = Spent + job.attempts /\ Spent \in Nat /\ job.attempts \in Nat
        /\ job.attempts * (crashes' + 1) = Spent' + job.attempts
        /\ executed[a] \in Nat /\ \A v \in Workers : run[v].tries \in Nat
    <3>1. Spent' = job.attempts * (crashes + 1)
      BY <1>1 DEF Spent
    <3>2. job.attempts * (crashes' + 1) = Spent' + job.attempts
      <4>1. \A m, n \in Nat : m * (n + 1) = m * n + m
        OBVIOUS
      <4>2. Spent' = job.attempts * crashes'
        BY <1>1 DEF Spent
      <4>3. job.attempts \in Nat /\ crashes' \in Nat
        BY <1>1, Numbers DEF WorkflowInv
      <4> QED BY <4>1, <4>2, <4>3
    <3> QED BY <3>1, <3>2, Numbers DEF WorkflowInv
  <2>2. executed[a] <= Spent + job.attempts
    BY <2>1, Numbers DEF WorkflowInv, CountOK
  <2> QED BY <1>1, <1>2, <1>7, <2>1, <2>2
<1>10. VerdictOK' /\ DeployWasAuthorised' /\ RollbackFollowsFailedVerification'
  BY <1>1 DEF WorkflowInv, VerdictOK, DeployWasAuthorised, RollbackFollowsFailedVerification
<1> QED BY <1>5, <1>6, <1>8, <1>9, <1>10 DEF WorkflowInv


LEMMA RecordPreproductionKeeps ==
    ASSUME WorkflowInv, NEW outcome \in {"passed", "failed"}, RecordPreproduction(outcome)
    PROVE  WorkflowInv'
<1>1. /\ preprod = "none" /\ preprod' \in {"passed", "failed"}
      /\ UNCHANGED <<job, checkpoint, ledger, trail, run, world>>
  BY DEF RecordPreproduction
<1>2. Grows
  BY <1>1 DEF Grows, world
<1>3. StateOK(checkpoint)' /\ TrailOK' /\ \A v \in Workers : RunOK(v)'
  BY <1>1, <1>2, CheckpointKept, RunKept DEF WorkflowInv, TrailOK, Reached
<1>4. TypeOK'
  BY <1>1 DEF WorkflowInv, TypeOK, world
<1>5. \A v \in Workers, a \in Actions : Holds(v, a)' <=> Holds(v, a)
  BY <1>1 DEF Holds
<1>6. LockOK' /\ CountOK'
  BY <1>1, <1>5 DEF WorkflowInv, LockOK, CountOK, Spent, world
<1>7. VerdictOK' /\ DeployWasAuthorised' /\ RollbackFollowsFailedVerification'
  BY <1>1 DEF WorkflowInv, VerdictOK, DeployWasAuthorised,
     RollbackFollowsFailedVerification, world
<1> QED BY <1>3, <1>4, <1>6, <1>7 DEF WorkflowInv

LEMMA WorkflowStutterKeeps ==
    ASSUME WorkflowInv, UNCHANGED vars
    PROVE  WorkflowInv'
<1>1. Grows /\ UNCHANGED <<checkpoint, trail, run, ledger>>
  BY DEF vars, Grows
<1>2. StateOK(checkpoint)' /\ TrailOK' /\ \A v \in Workers : RunOK(v)'
  BY <1>1, CheckpointKept, RunKept DEF WorkflowInv, TrailOK, Reached
<1>3. TypeOK' /\ LockOK' /\ CountOK'
  BY DEF vars, WorkflowInv, TypeOK, LockOK, CountOK, Holds, Spent
<1>4. VerdictOK' /\ DeployWasAuthorised' /\ RollbackFollowsFailedVerification'
  BY DEF vars, WorkflowInv, VerdictOK, DeployWasAuthorised,
         RollbackFollowsFailedVerification
<1> QED BY <1>2, <1>3, <1>4 DEF WorkflowInv

LEMMA WorkflowInitOK ==
    ASSUME Init
    PROVE  WorkflowInv
<1> DEFINE s == [InitialState EXCEPT !.node = "end"]
<1>1. s \in State /\ s.node = "end" /\ s.phase = "intake"
  BY InitialOK DEF InitialState, State
<1> HIDE DEF s
<1>2. StateOK(s)
  BY <1>1, RestsAtEnd DEF StateOK, Reached
<1>3. checkpoint = s /\ run = [w \in Workers |-> Off] /\ trail = {} /\ job \in Jobs
  BY DEF Init, s
<1>4. TypeOK
  <2>1. MaxCalls[job] \in Nat /\ 0 \in 0..MaxCalls[job] /\ 0 \in 0..MaxCrashes
    BY <1>3, MaxCallsAssumption, MaxCrashesAssumption
  <2>2. run \in [Workers -> Invocation] /\ checkpoint \in State /\ trail \subseteq Transition
    BY <1>1, <1>3, InitialOK
  <2>3. /\ ledger \in [Actions -> {"none", "pending", "succeeded", "failed", "escalated"}]
        /\ executed \in [Actions -> Nat]
    BY DEF Init
  <2> QED BY <1>3, <2>1, <2>2, <2>3 DEF Init, TypeOK
<1>5. \A w \in Workers : RunOK(w)
  <2> SUFFICES ASSUME NEW w \in Workers PROVE RunOK(w)
    OBVIOUS
  <2>1. run[w] = Off /\ Off.state = InitialState /\ StateOK(InitialState)
    BY <1>3, InitialOK DEF Off, StateOK
  <2>2. Off.pc = "off" /\ Off.decision = "none" /\ Off.tries = 0
    BY DEF Off
  <2> HIDE DEF StateOK
  <2> QED BY <2>1, <2>2 DEF RunOK, At, Running, InAction
<1>6. LockOK /\ TrailOK /\ VerdictOK /\ DeployWasAuthorised /\ RollbackFollowsFailedVerification
  BY <1>3 DEF Init, LockOK, Holds, Off, TrailOK, VerdictOK, DeployWasAuthorised,
     RollbackFollowsFailedVerification, Actions
<1>7. CountOK
  <2>1. \A a \in Actions : executed[a] = 0
    BY DEF Init
  <2>2. \A w \in Workers, a \in Actions : ~Holds(w, a)
    BY <1>3 DEF Holds, Off
  <2> QED BY <1>4, <2>1, <2>2, Numbers DEF CountOK
<1> QED BY <1>2, <1>3, <1>4, <1>5, <1>6, <1>7 DEF WorkflowInv

LEMMA WorkflowStepKeeps ==
    ASSUME WorkflowInv, [Next]_vars
    PROVE  WorkflowInv'
<1>1. CASE UNCHANGED vars
  BY <1>1, WorkflowStutterKeeps
<1>2. ASSUME NEW w \in Workers, Deliver(w) PROVE WorkflowInv'
  BY <1>2, DeliverKeeps
<1>3. ASSUME NEW w \in Workers, Step(w) PROVE WorkflowInv'
  BY <1>3, SaveKeeps, RunGateKeeps, ScanConflictKeeps, ApprovalKeeps, DecideKeeps,
     DeployRefusedKeeps, CreateRowKeeps, ClaimKeeps, AttemptKeeps, CommitKeeps,
     ActionReturnsKeeps, EvidenceOverflowsKeeps DEF Step
<1>4. ASSUME NEW w \in Workers, Crash(w) PROVE WorkflowInv'
  BY <1>4, CrashKeeps
<1>5. ASSUME NEW w \in Workers, NEW d \in {"none", "approved", "rejected", "incomplete"},
             Resume(w, d)
      PROVE  WorkflowInv'
  BY <1>5, ResumeKeeps
<1>6. ASSUME NEW outcome \in {"passed", "failed"}, RecordPreproduction(outcome)
      PROVE  WorkflowInv'
  BY <1>6, RecordPreproductionKeeps
<1> QED BY <1>1, <1>2, <1>3, <1>4, <1>5, <1>6 DEF Next

-----------------------------------------------------------------------------
(* Theorems *)

\* Whatever its workers do and wherever they crash, the graph's states rest on
\* what is durable (graph.py, activities.py).
THEOREM WorkflowInvariant == Spec => []WorkflowInv
<1>1. Init => WorkflowInv
  BY WorkflowInitOK
<1>2. WorkflowInv /\ [Next]_vars => WorkflowInv'
  BY WorkflowStepKeeps
<1> QED BY <1>1, <1>2, PTL DEF Spec

\* Every variable keeps its type: no node leaves a phase, status or transition
\* that the durable records do not have.
THEOREM WorkflowTypeCorrect == Spec => []TypeOK
<1>1. WorkflowInv => TypeOK
  BY DEF WorkflowInv
<1> QED BY <1>1, WorkflowInvariant, PTL

\* However many workers and deliveries compete for an action, the ledger lets
\* its adapter run for one retry budget, and one more for each crash.
THEOREM ExecutionsBounded == Spec => []ExecutionsAreBounded
<1>1. WorkflowInv => ExecutionsAreBounded
  BY DEF WorkflowInv, CountOK, ExecutionsAreBounded
<1> QED BY <1>1, WorkflowInvariant, PTL

\* The deploy adapter runs only for a valid job in scope with a verified backup, with
\* its pre-production evidence passed and an approval where they are required.
THEOREM DeploysAuthorised == Spec => []DeployWasAuthorised
<1>1. WorkflowInv => DeployWasAuthorised
  BY DEF WorkflowInv
<1> QED BY <1>1, WorkflowInvariant, PTL

\* The rollback adapter runs only after a settled deployment whose settled
\* verification did not pass.
THEOREM RollbacksFollow == Spec => []RollbackFollowsFailedVerification
<1>1. WorkflowInv => RollbackFollowsFailedVerification
  BY DEF WorkflowInv
<1> QED BY <1>1, WorkflowInvariant, PTL

\* A checkpoint that says completed rests on settled actions, and on a
\* verification or on a rollback.
THEOREM CompletionsEarned == Spec => []CompletionWasEarned
<1>1. WorkflowInv => CompletionWasEarned
  BY DEF WorkflowInv, StateOK, Rests, Earned, CompletionWasEarned
<1> QED BY <1>1, WorkflowInvariant, PTL

\* The durable trail accounts for the checkpoint's phase, and for every phase
\* that it leaves.
THEOREM TrailAccounts == Spec => []TrailAccountsForPhase
<1>1. WorkflowInv => TrailAccountsForPhase
  BY DEF WorkflowInv, StateOK, TrailOK, Reached, TrailAccountsForPhase
<1> QED BY <1>1, WorkflowInvariant, PTL

\* No step, of any worker, after any crash or delivery, executes an action
\* whose row is settled, or settles a row anew.
THEOREM SettledIsFinal == Spec => SettledActionsAreNotRepeated
<1> DEFINE Final == \A a \in Actions : ledger[a] \notin {"none", "pending"} =>
                       executed'[a] = executed[a] /\ ledger'[a] = ledger[a]
<1>1. ASSUME WorkflowInv, [Next]_vars PROVE Final
  <2>1. \A w \in Workers : run[w].pc \in {"attempt", "commit"} =>
           run[w].state.node \in Actions /\ ledger[run[w].state.node] = "pending"
    BY <1>1 DEF WorkflowInv, RunOK, InAction
  <2>2. executed \in [Actions -> Nat] /\ DOMAIN ledger = Actions
    BY <1>1 DEF WorkflowInv, TypeOK
  <2>3. CASE UNCHANGED <<ledger, executed>>
    BY <2>3
  <2>4. ASSUME NEW w \in Workers, CreateRow(w) PROVE Final
    BY <2>2, <2>4 DEF CreateRow, world
  <2>5. ASSUME NEW w \in Workers, Attempt(w) PROVE Final
    BY <2>1, <2>2, <2>5 DEF Attempt, At
  <2>6. ASSUME NEW w \in Workers, Commit(w) PROVE Final
    BY <2>1, <2>2, <2>6 DEF Commit, At
  <2>7. \/ UNCHANGED <<ledger, executed>>
        \/ \E w \in Workers : CreateRow(w) \/ Attempt(w) \/ Commit(w)
    BY <1>1 DEF Next, Step, Deliver, Crash, Resume, RecordPreproduction, Save, RunGate,
       ScanConflict, Approval, Decide, DeployRefused, Claim, ActionReturns, EvidenceOverflows,
       vars, world
  <2> QED BY <2>3, <2>4, <2>5, <2>6, <2>7
<1>2. WorkflowInv /\ [Next]_vars => [Final]_vars
  BY <1>1
<1> HIDE DEF Final
<1>3. Spec => [][Final]_vars
  BY <1>2, WorkflowInvariant, PTL DEF Spec
<1> QED BY <1>3 DEF SettledActionsAreNotRepeated, Final
=============================================================================
