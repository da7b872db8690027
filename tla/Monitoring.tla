----------------------------- MODULE Monitoring -----------------------------
(***************************************************************************)
(* The monitoring engine (appcare/monitoring) of one target: engines keep  *)
(* observations and incidents in memory, write every step to one           *)
(* append-only event table, and are rebuilt from it when they restart.     *)
(*                                                                         *)
(* An event's sequence number is read from the table before the event is   *)
(* built and checked when it is appended; memory is changed before the     *)
(* append, so a refused append leaves memory ahead of the table.           *)
(***************************************************************************)
EXTENDS Naturals, FiniteSets, Sequences

CONSTANTS Engines,             \* engines that share the target's table
          AlertObservations,   \* observations that checks bring
          BackupChecks,        \* inputs of backup health checks
          FreshnessLimit,      \* in the same units as the times of observations
          Suppression,         \* the engine's suppression window
          MaxCalls,            \* bound on the calls of observe and record_usage
          MaxMonitoringFaults  \* bound on restarts and failed appends

CheckKinds == {"uptime", "critical_flow", "deployment", "dependency", "secret", "config",
               "backup"}
ObservationOK(o) ==
    o.kind \in CheckKinds /\ o.status \in {"healthy", "degraded", "failed", "unknown"} /\ o.at \in Nat
BackupCheckOK(c) ==
    /\ c.failure \in BOOLEAN /\ c.integrity \in BOOLEAN /\ c.at \in Nat
    /\ c.verified \subseteq Nat /\ Cardinality(c.verified) <= 1

ASSUME MonitoringAssumption ==
    /\ MaxCalls \in Nat /\ MaxMonitoringFaults \in Nat
    /\ FreshnessLimit \in Nat /\ Suppression \in Nat
    /\ \A o \in AlertObservations : ObservationOK(o)
    /\ \A c \in BackupChecks : BackupCheckOK(c)

VARIABLES
    events,      \* monitoring_events of the target, by sequence
    heard,       \* [engine -> observations in memory]
    alerts,      \* [engine -> incidents in memory by fingerprint]
    jobs,        \* [engine -> jobs of the usage samples in memory]
    step,        \* [engine -> the call it is in]
    inStep,      \* engines whose appends all succeeded and that alone wrote
                 \* since they were last rebuilt
    calls,       \* calls so far
    mishaps      \* restarts and failed appends so far

monitoringVars == <<events, heard, alerts, jobs, step, inStep, calls, mishaps>>

FindingKinds == {"dependency", "secret", "config"}
EventTypes == {"observation", "alert_opened", "alert_repeated", "alert_suppressed",
               "alert_resolved", "usage_recorded"}

-----------------------------------------------------------------------------
(* What checks bring *)

\* The first thing wrong with the evidence of the latest backup.
BackupReason(c) ==
    IF c.failure THEN "verify_failed"
    ELSE IF c.verified = {} THEN "backup_missing"
    ELSE LET at == CHOOSE t \in c.verified : TRUE
         IN  IF at > c.at THEN "backup_timestamp_invalid"
             ELSE IF ~c.integrity THEN "backup_integrity_failed"
             ELSE IF c.at - at > FreshnessLimit THEN "backup_stale"
             ELSE "backup_healthy"

BackupObservation(c) ==
    [kind |-> "backup", reason |-> BackupReason(c), at |-> c.at,
     status |-> IF BackupReason(c) = "backup_healthy" THEN "healthy" ELSE "failed"]

Inputs == AlertObservations \cup {BackupObservation(c) : c \in BackupChecks}

\* evidence_digest of the target, the kind and the reason or else the status.
Fingerprint(o) == <<o.kind, IF o.reason = "none" THEN o.status ELSE o.reason>>
Fingerprints == {Fingerprint(o) : o \in Inputs}

Severity(o) ==
    IF o.kind \in {"secret", "critical_flow"} THEN "high"
    ELSE IF o.kind = "backup" /\ o.status = "failed" THEN "critical"
    ELSE IF o.status = "failed" THEN "high"
    ELSE IF o.status = "degraded" THEN "medium" ELSE "low"

-----------------------------------------------------------------------------
(* Incidents *)

NoAlert == [state |-> "none", first |-> 0, last |-> 0, occurrences |-> 0,
            suppressed |-> 0, severity |-> "low"]
NoAlerts == [f \in Fingerprints |-> NoAlert]
Opened(o) == [state |-> "open", first |-> o.at, last |-> o.at, occurrences |-> 1,
              suppressed |-> 0, severity |-> Severity(o)]
WithinWindow(a, o) == o.at <= a.last + Suppression
Repeated(a, o) ==
    [a EXCEPT !.last = o.at, !.occurrences = @ + 1,
              !.suppressed = @ + (IF WithinWindow(a, o) THEN 1 ELSE 0)]
Resolved(a, at) == [a EXCEPT !.state = "resolved", !.last = at]
OpenOf(a) == {f \in Fingerprints : a[f].state = "open"}

\* An event: dummy fields where the type has none.
ObservationEvent(o) == [type |-> "observation", at |-> o.at, observation |-> {o},
                        fingerprint |-> <<>>, alert |-> NoAlert, jobs |-> 0]
AlertEvent(type, f, a) == [type |-> type, at |-> a.last, observation |-> {},
                           fingerprint |-> f, alert |-> a, jobs |-> 0]
UsageEvent == [type |-> "usage_recorded", at |-> 0, observation |-> {},
               fingerprint |-> <<>>, alert |-> NoAlert, jobs |-> 1]

\* A row has no column for the first and last time of an incident.
RowOf(event) == [event EXCEPT !.alert.first = 0, !.alert.last = 0]

Larger(m, n) == IF m > n THEN m ELSE n

\* Mutant: the time of an incident is when it was first seen.
ReplayFirstTime(a, e) ==
    IF a.state = "none" THEN [e.alert EXCEPT !.first = e.at, !.last = e.at]
    ELSE [a EXCEPT !.state = e.alert.state]

\* What an alert event makes of the incident that replay has so far.
ReplayAlert(a, e) ==
    IF a.state = "none"
    THEN [e.alert EXCEPT !.first = e.at, !.last = e.at, !.occurrences = Larger(1, @)]
    ELSE [a EXCEPT !.state = e.alert.state, !.last = e.at,
                   !.occurrences = Larger(@, e.alert.occurrences),
                   !.suppressed = Larger(@, e.alert.suppressed)]

\* What an event of the table adds to the memory that replay has so far.
Remember(memory, e) ==
    CASE e.type = "observation" ->
             [memory EXCEPT !.heard = Append(@, CHOOSE o \in e.observation : TRUE)]
      [] e.type = "usage_recorded" -> [memory EXCEPT !.jobs = @ + e.jobs]
      [] OTHER -> [memory EXCEPT !.alerts[e.fingerprint] = ReplayAlert(@, e)]

NoMemory == [heard |-> <<>>, alerts |-> NoAlerts, jobs |-> 0]

\* The memory of an engine that is rebuilt from the table.
Replay(log) ==
    LET memory[n \in 0..Len(log)] ==
            IF n = 0 THEN NoMemory ELSE Remember(memory[n - 1], log[n])
    IN  memory[Len(log)]

\* The report of all that happened before a time; usage is all of the period.
MonthlyReport(memory, log, end) ==
    LET observed == SelectSeq(memory.heard, LAMBDA o : o.at < end)
        Count(Test(_)) == Len(SelectSeq(observed, Test))
        Events(type) == Len(SelectSeq(log, LAMBDA e : e.type = type /\ e.at < end))
    IN  [observations |-> Len(observed),
         findings |-> Count(LAMBDA o : o.status # "healthy" /\ o.kind \in FindingKinds),
         fixes |-> Count(LAMBDA o : o.status = "healthy" /\ o.kind = "deployment"),
         verified |-> Count(LAMBDA o : o.status = "healthy" /\ o.kind = "backup"),
         failures |-> Count(LAMBDA o : o.status # "healthy" /\ o.kind = "backup"),
         opened |-> Events("alert_opened"),
         resolved |-> Events("alert_resolved"),
         remaining |-> Cardinality(OpenOf(memory.alerts)),
         jobs |-> memory.jobs]

-----------------------------------------------------------------------------
\* A call: the event it appends next, the number read for it or 0, and the
\* incidents it has left to resolve.
AtRest == [doing |-> "rest", sequence |-> 0, event |-> UsageEvent, left |-> {}]
NextSequence == Len(events) + 1

MonitoringInit ==
    /\ events = <<>>
    /\ heard = [e \in Engines |-> <<>>]
    /\ alerts = [e \in Engines |-> NoAlerts]
    /\ jobs = [e \in Engines |-> 0]
    /\ step = [e \in Engines |-> AtRest]
    /\ inStep = Engines
    /\ calls = 0
    /\ mishaps = 0

Begin(e, doing, event) ==
    step' = [step EXCEPT ![e] = [doing |-> doing, sequence |-> 0, event |-> event,
                                 left |-> {}]]

\* observe puts the observation into memory before its event is written.
Observe(e, o) ==
    /\ step[e].doing = "rest" /\ calls < MaxCalls
    /\ calls' = calls + 1
    /\ heard' = [heard EXCEPT ![e] = Append(@, o)]
    /\ Begin(e, "observe", ObservationEvent(o))
    /\ UNCHANGED <<events, alerts, jobs, inStep, mishaps>>

\* record_usage puts the sample into memory before its event is written.
RecordUsage(e) ==
    /\ step[e].doing = "rest" /\ calls < MaxCalls
    /\ calls' = calls + 1
    /\ jobs' = [jobs EXCEPT ![e] = @ + 1]
    /\ Begin(e, "usage", UsageEvent)
    /\ UNCHANGED <<events, heard, alerts, inStep, mishaps>>

\* _next_sequence: the table is read when the event is built.
ReadSequence(e) ==
    /\ step[e].doing # "rest" /\ step[e].sequence = 0
    /\ step' = [step EXCEPT ![e].sequence = NextSequence]
    /\ UNCHANGED <<events, heard, alerts, jobs, inStep, calls, mishaps>>

\* The next incident to resolve changes in memory before its event is written.
ResolveNext(e, at, left) ==
    IF left = {}
    THEN UNCHANGED alerts /\ step' = [step EXCEPT ![e] = AtRest]
    ELSE \E f \in left :
            LET a == Resolved(alerts[e][f], at)
            IN  /\ alerts' = [alerts EXCEPT ![e][f] = a]
                /\ step' = [step EXCEPT ![e] =
                       [doing |-> "resolve", sequence |-> 0,
                        event |-> AlertEvent("alert_resolved", f, a), left |-> left \ {f}]]

\* After its observation is in the table: resolve every open incident of its
\* kind, or open, repeat or suppress the incident of its fingerprint.
AfterObservation(e, o) ==
    IF o.status = "healthy"
    THEN ResolveNext(e, o.at, {f \in OpenOf(alerts[e]) : f[1] = o.kind})
    ELSE LET f == Fingerprint(o)
             a == alerts[e][f]
             new == a.state # "open"
             b == IF new THEN Opened(o) ELSE Repeated(a, o)
             type == IF new THEN "alert_opened"
                     ELSE IF WithinWindow(a, o) THEN "alert_suppressed" ELSE "alert_repeated"
         IN  /\ alerts' = [alerts EXCEPT ![e][f] = b]
             /\ Begin(e, "alert", AlertEvent(type, f, b))

\* The event is appended when its number is the next one.
AppendEvent(e) ==
    LET s == step[e] IN
    /\ s.doing # "rest" /\ s.sequence = NextSequence
    /\ events' = Append(events, RowOf(s.event))
    /\ inStep' = inStep \cap {e}
    /\ \/ s.doing = "observe" /\ \E o \in s.event.observation : AfterObservation(e, o)
       \/ s.doing \in {"alert", "resolve"} /\ ResolveNext(e, s.event.at, s.left)
       \/ s.doing = "usage" /\ UNCHANGED alerts /\ step' = [step EXCEPT ![e] = AtRest]
    /\ UNCHANGED <<heard, jobs, calls, mishaps>>

\* Another event took the number: the store refuses and the call raises.
AppendRefused(e) ==
    /\ step[e].doing # "rest" /\ step[e].sequence \notin {0, NextSequence}
    /\ step' = [step EXCEPT ![e] = AtRest]
    /\ inStep' = inStep \ {e}
    /\ UNCHANGED <<events, heard, alerts, jobs, calls, mishaps>>

\* The database fails: the call raises, and memory keeps what was not written.
AppendFails(e) ==
    /\ step[e].doing # "rest" /\ mishaps < MaxMonitoringFaults
    /\ step' = [step EXCEPT ![e] = AtRest]
    /\ inStep' = inStep \ {e}
    /\ mishaps' = mishaps + 1
    /\ UNCHANGED <<events, heard, alerts, jobs, calls>>

\* The engine stops, at any point, and another is built from the table.
Restart(e) ==
    LET memory == Replay(events) IN
    /\ mishaps < MaxMonitoringFaults
    /\ mishaps' = mishaps + 1
    /\ heard' = [heard EXCEPT ![e] = memory.heard]
    /\ alerts' = [alerts EXCEPT ![e] = memory.alerts]
    /\ jobs' = [jobs EXCEPT ![e] = memory.jobs]
    /\ step' = [step EXCEPT ![e] = AtRest]
    /\ inStep' = inStep \cup {e}
    /\ UNCHANGED <<events, calls>>

MonitoringNext ==
    \E e \in Engines :
        \/ \E o \in Inputs : Observe(e, o)
        \/ RecordUsage(e)
        \/ ReadSequence(e)
        \/ AppendEvent(e)
        \/ AppendRefused(e)
        \/ AppendFails(e)
        \/ Restart(e)

MonitoringSpec == MonitoringInit /\ [][MonitoringNext]_monitoringVars

-----------------------------------------------------------------------------
(* Properties *)

\* Type invariant of the monitoring engines and their table.
MonitoringTypeOK ==
    /\ \A i \in DOMAIN events : events[i].type \in EventTypes
    /\ \A e \in Engines :
        /\ \A i \in DOMAIN heard[e] : heard[e][i] \in Inputs
        /\ \A f \in Fingerprints : alerts[e][f].state \in {"none", "open", "resolved"}
        /\ step[e].doing \in {"rest", "observe", "alert", "resolve", "usage"}
        /\ jobs[e] \in Nat
    /\ inStep \subseteq Engines
    /\ calls \in 0..MaxCalls
    /\ mishaps \in 0..MaxMonitoringFaults

\* An engine at rest that wrote all it did, and alone, would lose nothing that
\* its next decisions depend on if it stopped now: an engine rebuilt from the
\* table has the same observations and open incidents, measures the suppression
\* window from the same time, and makes the same monthly reports.
RestartKeepsIncidents ==
    \A e \in inStep :
        step[e].doing = "rest" =>
            LET rebuilt == Replay(events)
                memory == [heard |-> heard[e], alerts |-> alerts[e], jobs |-> jobs[e]]
            IN  /\ rebuilt.heard = memory.heard
                /\ \A f \in Fingerprints :
                    /\ rebuilt.alerts[f].state = memory.alerts[f].state
                    /\ rebuilt.alerts[f].last = memory.alerts[f].last
                /\ \A o \in Inputs :
                    MonthlyReport(rebuilt, events, o.at) = MonthlyReport(memory, events, o.at)
=============================================================================
