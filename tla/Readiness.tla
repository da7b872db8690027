----------------------------- MODULE Readiness -----------------------------
(***************************************************************************)
(* Readiness of one application (appcare/readiness): the evaluation of its *)
(* capabilities, the layered decision on top of it, the coordinator's      *)
(* approvals, downgrades, and the append-only tables that the API serves.  *)
(*                                                                         *)
(* A digest is the value it is computed from.  Each observation and each   *)
(* level that a caller brings is sound or has one defect.  Evidence of     *)
(* another application, unknown or twice the same, raises and decides      *)
(* nothing: it is not among the inputs.                                    *)
(***************************************************************************)
EXTENDS Naturals, FiniteSets

CONSTANTS Capabilities,   \* the mandatory capabilities
          Candidates,     \* revisions that evidence is about
          Observed,       \* what callers bring: an observation of each capability
          ClaimSets,      \* and a claim for each level
          MaxDecisions    \* bound on the decisions taken

ASSUME MaxDecisionsAssumption == MaxDecisions \in Nat

VARIABLES
    supportability,   \* the supportability decision at hand, in a set
    readiness,        \* the layered decision at hand, in a set
    approval,         \* the digest the coordinator approved last, in a set
    supportRows,      \* supportability_decisions, one row for each digest
    levelRows,        \* readiness_levels, the rows of each digest
    downgrades,       \* readiness_downgrades
    saved,            \* the layered decision saved last, in a set
    decisionCount

readinessVars == <<supportability, readiness, approval, supportRows, levelRows,
                   downgrades, saved, decisionCount>>

Nothing == "none"
Tiers == {"core", "stack", "customer_onboarding", "pilot", "paid_service"}
LiveTiers == {"customer_onboarding", "pilot", "paid_service"}
Prerequisite == [stack |-> "core", customer_onboarding |-> "stack",
                 pilot |-> "customer_onboarding", paid_service |-> "pilot"]

-----------------------------------------------------------------------------
(* SupportabilityEvaluator *)

\* An observation of a capability, if there is one: its status, whether its
\* evidence class is high enough, and the revision it names.
Statuses == {"supported", "needs_cleanup", "missing_capability", "unsupported",
             "blocked_external"}
Unobserved == [status |-> Nothing, strong |-> FALSE, revision |-> Nothing]
Observations == {Unobserved} \cup
    [status : Statuses, strong : BOOLEAN, revision : Candidates \cup {Nothing}]

\* The status of one capability's result when a revision may be expected.
ResultStatus(o, expected) ==
    IF o.status = Nothing THEN "missing_capability"
    ELSE IF (expected # Nothing /\ o.revision # expected) \/ ~o.strong THEN "blocked_external"
    ELSE o.status

Results(evidence, expected) ==
    [k \in Capabilities |-> [evidence[k] EXCEPT !.status = ResultStatus(evidence[k], expected)]]

SupportStatus(results) ==
    LET found == {results[k].status : k \in Capabilities}
    IN  IF found \subseteq {"supported"} THEN "supported"
        ELSE IF found \subseteq {"supported", "needs_cleanup"} THEN "needs_cleanup"
        ELSE "unsupported"

\* The coordinator approves a digest.
CoordinatorApproval(digest) == [assessed |-> digest]

SupportabilityDecisions ==
    [results : [Capabilities -> Observations],
     status : {"supported", "needs_cleanup", "unsupported"}, approved : BOOLEAN]

\* assessment_digest is of the results; who decided, and when, is left out.
SupportDigest(s) == s.results
Authoritative(s) == s.status = "supported" /\ s.approved

Supportability(evidence, expected) ==
    LET results == Results(evidence, expected)
    IN  [results |-> results, status |-> SupportStatus(results),
         approved |-> CoordinatorApproval(results) \in approval]

-----------------------------------------------------------------------------
(* ReadinessEvaluator *)

\* What can be wrong with a level that claims to be ready, in the order the
\* evaluator looks; a level may also be absent, or claim less.
Defects == {"scope", "stale", "no_refs", "bad_ref", "failed", "artifact", "class", "kinds"}
Claims == {"absent", "partial", "blocked", "sound"} \cup Defects
Gates == {Nothing, "failed"} \cup Candidates   \* the candidate of a gate that passed

ASSUME EvidenceAssumption ==
    /\ Observed \subseteq [Capabilities -> Observations]
    /\ ClaimSets \subseteq [Tiers -> Claims]

\* core and stack accept any class and need no particular kinds of evidence.
Flawed(t, claim) ==
    claim \in Defects /\ ~(claim = "class" /\ t \notin LiveTiers)
                      /\ ~(claim = "kinds" /\ t \notin LiveTiers)

OwnStatus(t, claim) ==
    IF claim = "absent" \/ Flawed(t, claim) THEN "blocked"
    ELSE IF claim \in {"partial", "blocked"} THEN claim
    ELSE "ready"

\* Mutant: the results may be of any revision.
SupportOfAnyRevision(s, candidate) ==
    Authoritative(s)

\* The stack level needs the coordinator's supportability decision, and every
\* result in it supported, strong enough and made on the candidate.
SupportReady(s, candidate) ==
    /\ Authoritative(s)
    /\ \A k \in Capabilities :
          /\ s.results[k].status = "supported" /\ s.results[k].strong
          /\ s.results[k].revision = candidate

GateOpen(gate, candidate) == gate = candidate

TierStatus(claims, s, gate, candidate) ==
    LET status[t \in Tiers] ==
          LET own == OwnStatus(t, claims[t])
              held == \/ t # "core" /\ status[Prerequisite[t]] # "ready"
                      \/ t = "stack" /\ ~SupportReady(s, candidate)
                      \/ t \in LiveTiers /\ ~GateOpen(gate, candidate)
          IN  IF own = "ready" /\ held THEN "blocked" ELSE own
    IN  status

LayeredDigest(claims, s, gate, candidate) ==
    [claims |-> claims, support |-> s, gate |-> gate, candidate |-> candidate]

LayeredDecision(digest, approved, levels) ==
    [digest |-> digest, approved |-> approved, levels |-> levels]

\* Without the coordinator's approval of this very assessment no level is ready.
Layered(claims, s, gate, candidate) ==
    LET digest == LayeredDigest(claims, SupportDigest(s), gate, candidate)
        status == TierStatus(claims, s, gate, candidate)
        approved == CoordinatorApproval(digest) \in approval /\ \A t \in Tiers : status[t] = "ready"
    IN  LayeredDecision(digest, approved,
            [t \in Tiers |-> IF ~approved /\ status[t] = "ready" THEN "blocked" ELSE status[t]])

-----------------------------------------------------------------------------
(* The operations *)

ReadinessInit ==
    /\ supportability = {} /\ readiness = {} /\ approval = {}
    /\ downgrades = {} /\ supportRows = {} /\ levelRows = {}
    /\ saved = {} /\ decisionCount = 0

Decides == decisionCount < MaxDecisions /\ decisionCount' = decisionCount + 1

\* The coordinator reviews an assessment and approves it by its digest, before
\* or after it is evaluated; what is not supported cannot be approved.
ApproveSupportability(evidence, expected) ==
    /\ SupportStatus(Results(evidence, expected)) = "supported"
    /\ approval' = {CoordinatorApproval(Results(evidence, expected))}
    /\ UNCHANGED <<supportability, readiness, supportRows, levelRows, downgrades, saved,
                   decisionCount>>

EvaluateSupportability(evidence, expected) ==
    /\ Decides
    /\ supportability' = {Supportability(evidence, expected)}
    /\ UNCHANGED <<readiness, approval, supportRows, levelRows, downgrades, saved>>

\* ReadinessEvaluator.approve takes only decisions that are approved already,
\* so the coordinator approves the digest of an assessment.
ApproveReadiness(claims, gate, candidate) ==
    /\ \E s \in supportability :
          approval' =
              {CoordinatorApproval(LayeredDigest(claims, SupportDigest(s), gate, candidate))}
    /\ UNCHANGED <<supportability, readiness, supportRows, levelRows, downgrades, saved,
                   decisionCount>>

EvaluateReadiness(claims, gate, candidate) ==
    /\ Decides
    /\ \E s \in supportability : readiness' = {Layered(claims, s, gate, candidate)}
    /\ UNCHANGED <<supportability, approval, supportRows, levelRows, downgrades, saved>>

Downgrade(level, previous, trigger) ==
    [level |-> level, previous |-> previous, trigger |-> trigger]

\* A capability that fails on a real target blocks every level above core and
\* leaves an event for each that was not blocked.
ApplyDowngrade(capability) ==
    /\ \E r \in readiness :
          LET hit == {t \in Tiers \ {"core"} : r.levels[t] # "blocked"}
          IN  /\ downgrades' = downgrades \cup
                     {Downgrade(t, r.levels[t], capability) : t \in hit}
              /\ readiness' = {[r EXCEPT
                     !.approved = FALSE,
                     !.levels = [t \in Tiers |-> IF t \in hit THEN "blocked" ELSE @[t]]]}
    /\ UNCHANGED <<supportability, approval, supportRows, levelRows, saved, decisionCount>>

\* The tables have one row for each digest; a digest that has one keeps it.
HasSupportRow(s) == \E row \in supportRows : SupportDigest(row) = SupportDigest(s)
HasLevelRows(r) == \E row \in levelRows : row.digest = r.digest

SaveSupportability ==
    /\ \E s \in supportability :
          IF HasSupportRow(s)
            THEN UNCHANGED supportRows
            ELSE supportRows' = supportRows \cup {s}
    /\ UNCHANGED <<supportability, readiness, approval, levelRows, downgrades, saved,
                   decisionCount>>

SaveReadiness ==
    /\ \E r \in readiness :
          IF HasLevelRows(r)
            THEN UNCHANGED levelRows
            ELSE levelRows' = levelRows \cup {r}
    /\ saved' = readiness
    /\ UNCHANGED <<supportability, readiness, approval, supportRows, downgrades,
                   decisionCount>>

ReadinessNext ==
    \/ \E e \in Observed, x \in Candidates \cup {Nothing} :
          ApproveSupportability(e, x) \/ EvaluateSupportability(e, x)
    \/ \E l \in ClaimSets, g \in Gates, c \in Candidates :
          ApproveReadiness(l, g, c) \/ EvaluateReadiness(l, g, c)
    \/ \E k \in Capabilities : ApplyDowngrade(k)
    \/ SaveSupportability \/ SaveReadiness

ReadinessSpec == ReadinessInit /\ [][ReadinessNext]_readinessVars

-----------------------------------------------------------------------------
(* Properties *)

\* Every variable has its type.
ReadinessTypeOK ==
    /\ supportability \cup supportRows \subseteq SupportabilityDecisions
    /\ \A r \in readiness \cup saved \cup levelRows :
          r.levels \in [Tiers -> {"ready", "partial", "blocked"}] /\ r.approved \in BOOLEAN
    /\ downgrades \subseteq [level : Tiers, previous : {"ready", "partial"},
                             trigger : Capabilities]
    /\ decisionCount \in 0..MaxDecisions

\* Whatever was approved, and in whatever order, a row that says a level is
\* ready stands for one assessment in which all was sound for its candidate:
\* every level's claim, every capability's observation, even one evaluated
\* before the candidate was known, and the security gate (evaluate and
\* save_readiness).
ReadyRowsAreEarned ==
    \A row \in levelRows : \A t \in Tiers : row.levels[t] = "ready" =>
        LET candidate == row.digest.candidate
        IN  /\ row.digest.gate = candidate
            /\ \A u \in Tiers : OwnStatus(u, row.digest.claims[u]) = "ready"
            /\ \A k \in Capabilities :
                  row.digest.support[k] =
                      [status |-> "supported", strong |-> TRUE, revision |-> candidate]

\* A decision that a downgrade blocked is what the API serves once it is saved.
DowngradeIsServed ==
    \A row \in levelRows, last \in saved : last.digest = row.digest =>
        \A t \in Tiers : row.levels[t] = "ready" => last.levels[t] = "ready"
=============================================================================
