------------------------ MODULE DeploymentLifecycle ------------------------
(***************************************************************************)
(* What the deployment controller promises about one immutable intent,     *)
(* with every controller, cache, call and crash abstracted away: an intent *)
(* is registered once, its status only moves along the edges below, and    *)
(* each move appends exactly one entry to an audit trail that is never     *)
(* rewritten.  Deployment.tla is shown to implement this specification.    *)
(***************************************************************************)
EXTENDS Sequences

CONSTANTS Intents,   \* deployment intents
          Reasons    \* reason codes an audit entry may carry

VARIABLES status,    \* status[i]: "none" until i is registered
          trail      \* trail[i]: the audit entries of i, oldest first

lifecycleVars == <<status, trail>>

Terminal == {"succeeded", "rolled_back", "rollback_failed",
             "denied", "emergency_stopped", "failed"}

InFlight == {"deploying", "verifying", "rolling_back"}

\* The moves a status may make.  No edge leaves a terminal status.
Edges ==
    ({"approval_pending"} \X
        {"approval_pending", "approved", "denied", "emergency_stopped"})
    \cup ({"approved"} \X {"deploying", "denied", "emergency_stopped"})
    \cup ({"deploying"} \X {"verifying", "rolling_back", "failed"})
    \cup ({"verifying"} \X {"succeeded", "rolling_back", "failed"})
    \cup ({"rolling_back"} \X {"rolled_back", "rollback_failed", "failed"})

LifecycleInit ==
    /\ status = [i \in Intents |-> "none"]
    /\ trail = [i \in Intents |-> <<>>]

Register(i) ==
    /\ status[i] = "none"
    /\ status' = [status EXCEPT ![i] = "approval_pending"]
    /\ UNCHANGED trail

Advance(i) ==
    \E s \in Terminal \cup InFlight \cup {"approval_pending", "approved"} :
        /\ <<status[i], s>> \in Edges
        /\ status' = [status EXCEPT ![i] = s]
        /\ \E r \in Reasons :
              trail' = [trail EXCEPT ![i] =
                           Append(@, [from |-> status[i], to |-> s, reason |-> r])]

LifecycleNext == \E i \in Intents : Register(i) \/ Advance(i)

LifecycleSpec == LifecycleInit /\ [][LifecycleNext]_lifecycleVars
============================================================================
