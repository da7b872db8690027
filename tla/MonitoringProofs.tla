-------------------------- MODULE MonitoringProofs --------------------------
(***************************************************************************)
(* Theorems about Monitoring, for any engines, observations, checks and    *)
(* bounds.  The inductive invariant MonitoringInv says of an engine that   *)
(* wrote all it did, and alone, that its memory is what replaying the      *)
(* table gives, or is ahead of that by the event it is writing (InStepOK). *)
(* Replay is a recursion over the table; that it has one solution is part  *)
(* of the invariant (ReplayDefined), since the table grows by one row at a *)
(* time (ReplayAppend), and so needs no induction over sequences.          *)
(***************************************************************************)
EXTENDS Monitoring, TLAPS

-----------------------------------------------------------------------------
(* What an engine replays *)

\* m is the memory after each number of events of the log.
Replayed(m, log) ==
    m = [n \in 0..Len(log) |-> IF n = 0 THEN NoMemory ELSE Remember(m[n - 1], log[n])]

\* The recursion of Replay has one solution on the log.
ReplayDefined(log) ==
    \E m : Replayed(m, log) /\ \A other : Replayed(other, log) => other = m

LEMMA ReplayIs ==
    ASSUME NEW log, NEW m, Replayed(m, log), \A other : Replayed(other, log) => other = m
    PROVE  Replay(log) = m[Len(log)]
BY DEF Replay, Replayed

LEMMA ReplayNone ==
    ReplayDefined(<<>>) /\ Replay(<<>>) = NoMemory
<1> DEFINE m == [n \in 0..Len(<<>>) |-> NoMemory]
<1>1. Len(<<>>) = 0 /\ \A n \in 0..Len(<<>>) : n = 0
  OBVIOUS
<1>2. Replayed(m, <<>>)
  BY <1>1 DEF Replayed
<1>3. ASSUME NEW other, Replayed(other, <<>>)
      PROVE  other = m
  BY <1>1, <1>3 DEF Replayed
<1>4. m[Len(<<>>)] = NoMemory
  BY <1>1
<1> HIDE DEF m
<1> QED BY <1>2, <1>3, <1>4, ReplayIs DEF ReplayDefined

\* One event more: what was replayed before it is replayed again.
LEMMA ReplayAppend ==
    ASSUME NEW S, NEW log \in Seq(S), NEW ev \in S, ReplayDefined(log)
    PROVE  /\ ReplayDefined(Append(log, ev))
           /\ Replay(Append(log, ev)) = Remember(Replay(log), ev)
<1> DEFINE longer == Append(log, ev)
           k == Len(log)
<1>1. PICK m : Replayed(m, log) /\ \A other : Replayed(other, log) => other = m
  BY DEF ReplayDefined
<1>2. /\ k \in Nat /\ Len(longer) = k + 1 /\ longer[k + 1] = ev
      /\ \A n \in 1..k : longer[n] = log[n]
  OBVIOUS
<1> HIDE DEF longer, k
<1>3. /\ 0..(k + 1) = 0..k \cup {k + 1} /\ k + 1 \notin 0..k /\ k \in 0..k /\ (k + 1) - 1 = k
      /\ k + 1 # 0
      /\ \A n \in 0..k : n # 0 => n \in 1..k /\ n - 1 \in 0..k
  BY <1>2
<1> DEFINE next == Remember(m[k], ev)
           f == [n \in 0..(k + 1) |-> IF n = k + 1 THEN next ELSE m[n]]
<1>4. m = [n \in 0..k |-> IF n = 0 THEN NoMemory ELSE Remember(m[n - 1], log[n])]
  BY <1>1 DEF Replayed, k
<1>5. Replayed(f, longer)
  <2>1. /\ \A n \in 0..k : f[n] = m[n]
        /\ f[k + 1] = next
    BY <1>3
  <2> HIDE DEF f, next
  <2>2. \A n \in 0..k : f[n] = IF n = 0 THEN NoMemory ELSE Remember(f[n - 1], longer[n])
    BY <2>1, <1>2, <1>3, <1>4
  <2>3. f[k + 1] = Remember(f[(k + 1) - 1], longer[k + 1])
    BY <2>1, <1>2, <1>3 DEF next
  <2>4. \A n \in 0..(k + 1) : f[n] = IF n = 0 THEN NoMemory ELSE Remember(f[n - 1], longer[n])
    BY <2>2, <2>3, <1>3
  <2>5. f = [n \in 0..(k + 1) |-> f[n]]
    BY DEF f
  <2>6. f = [n \in 0..(k + 1) |-> IF n = 0 THEN NoMemory ELSE Remember(f[n - 1], longer[n])]
    BY <2>4, <2>5
  <2> QED BY <2>6, <1>2 DEF Replayed
<1>6. ASSUME NEW other, Replayed(other, longer)
      PROVE  other = f
  <2> DEFINE g == [n \in 0..k |-> other[n]]
  <2>1. other = [n \in 0..(k + 1) |-> IF n = 0 THEN NoMemory
                                      ELSE Remember(other[n - 1], longer[n])]
    BY <1>6, <1>2 DEF Replayed
  <2>2. \A n \in 0..k : other[n] = IF n = 0 THEN NoMemory ELSE Remember(other[n - 1], longer[n])
    BY <2>1, <1>3
  <2>3. other[k + 1] = Remember(other[k], ev)
    BY <2>1, <1>2, <1>3
  <2>4. \A n \in 0..k : g[n] = other[n]
    OBVIOUS
  <2>5. g = [n \in 0..k |-> g[n]]
    OBVIOUS
  <2> HIDE DEF g
  <2>6. \A n \in 0..k : g[n] = IF n = 0 THEN NoMemory ELSE Remember(g[n - 1], log[n])
    BY <2>2, <2>4, <1>2, <1>3
  <2>7. g = [n \in 0..k |-> IF n = 0 THEN NoMemory ELSE Remember(g[n - 1], log[n])]
    BY <2>5, <2>6
  <2>8. g = m
    BY <2>7, <1>1 DEF Replayed, k
  <2>9. /\ \A n \in 0..(k + 1) : other[n] = f[n]
    BY <2>3, <2>4, <2>8, <1>3
  <2>10. other = [n \in 0..(k + 1) |-> other[n]]
    BY <2>1
  <2> HIDE DEF f
  <2>11. f = [n \in 0..(k + 1) |-> f[n]]
    BY DEF f
  <2> QED BY <2>9, <2>10, <2>11
<1>7. f[k + 1] = Remember(m[k], ev)
  BY <1>3
<1> HIDE DEF f, next
<1>8. Replay(longer) = f[k + 1] /\ Replay(log) = m[k]
  BY <1>1, <1>2, <1>5, <1>6, ReplayIs DEF k
<1> QED BY <1>5, <1>6, <1>7, <1>8 DEF ReplayDefined, longer

-----------------------------------------------------------------------------
(* The inductive invariant *)

Alerts == [state : {"none", "open", "resolved"}, first : Nat, last : Nat, occurrences : Nat,
           suppressed : Nat, severity : {"low", "medium", "high", "critical"}]
Memories == [heard : Seq(Inputs), alerts : [Fingerprints -> Alerts], jobs : Nat]

MonitoringEvents ==
    {ev \in [type : EventTypes, at : Nat, observation : SUBSET Inputs,
             fingerprint : Fingerprints \cup {<<>>}, alert : Alerts, jobs : Nat] :
        /\ ev.type = "observation" => \E o \in Inputs : ev.observation = {o}
        /\ ev.type \notin {"observation", "usage_recorded"} => ev.fingerprint \in Fingerprints}

MonitoringCalls ==
    {s \in [doing : {"rest", "observe", "alert", "resolve", "usage"}, sequence : Nat,
            event : MonitoringEvents, left : SUBSET Fingerprints] :
        s.doing = "observe" => s.event.type = "observation"}

MonitoringShapes ==
    /\ events \in Seq(MonitoringEvents)
    /\ heard \in [Engines -> Seq(Inputs)]
    /\ alerts \in [Engines -> [Fingerprints -> Alerts]]
    /\ jobs \in [Engines -> Nat]
    /\ step \in [Engines -> MonitoringCalls]
    /\ inStep \subseteq Engines
    /\ calls \in 0..MaxCalls /\ mishaps \in 0..MaxMonitoringFaults
    /\ Replay(events) \in Memories

\* Two memories are one as far as decisions go.
Agree(m1, m2) ==
    /\ m1.heard = m2.heard /\ m1.jobs = m2.jobs
    /\ \A f \in Fingerprints :
          /\ m1.alerts[f].state = m2.alerts[f].state
          /\ m1.alerts[f].last = m2.alerts[f].last

MemoryOf(e) == [heard |-> heard[e], alerts |-> alerts[e], jobs |-> jobs[e]]

\* An engine that wrote all it did, and alone, is ahead of the table by the event
\* that it is writing.
InStepOK(e) ==
    Agree(MemoryOf(e), IF step[e].doing = "rest" THEN Replay(events)
                       ELSE Remember(Replay(events), RowOf(step[e].event)))

MonitoringInv ==
    /\ MonitoringShapes /\ ReplayDefined(events)
    /\ \A e \in inStep : InStepOK(e)

-----------------------------------------------------------------------------
(* Events and what they add *)

AlertTypes == {"alert_opened", "alert_repeated", "alert_suppressed", "alert_resolved"}

LEMMA InputOK ==
    ASSUME NEW o \in Inputs
    PROVE  /\ o.at \in Nat /\ Fingerprint(o) \in Fingerprints
           /\ Severity(o) \in {"low", "medium", "high", "critical"}
<1>1. Fingerprint(o) \in Fingerprints
  BY DEF Fingerprints
<1>2. CASE o \in AlertObservations
  BY <1>1, <1>2, MonitoringAssumption DEF ObservationOK, Severity
<1>3. ASSUME NEW c \in BackupChecks, o = BackupObservation(c)
      PROVE  o.at \in Nat
  BY <1>3, MonitoringAssumption DEF BackupCheckOK, BackupObservation
<1> QED BY <1>1, <1>2, <1>3 DEF Inputs, Severity

LEMMA AlertsOK ==
    /\ NoAlert \in Alerts /\ NoAlerts \in [Fingerprints -> Alerts]
    /\ \A o \in Inputs : Opened(o) \in Alerts
    /\ \A a \in Alerts, o \in Inputs : Repeated(a, o) \in Alerts
    /\ \A a \in Alerts, t \in Nat : Resolved(a, t) \in Alerts
<1>1. NoAlert \in Alerts
  BY DEF NoAlert, Alerts
<1>2. NoAlerts \in [Fingerprints -> Alerts]
  BY <1>1 DEF NoAlerts
<1>3. ASSUME NEW o \in Inputs
      PROVE  Opened(o) \in Alerts
  BY InputOK DEF Opened, Alerts
<1>4. ASSUME NEW a \in Alerts, NEW o \in Inputs
      PROVE  Repeated(a, o) \in Alerts
  <2>1. o.at \in Nat /\ a.occurrences + 1 \in Nat
    BY InputOK DEF Alerts
  <2>2. a.suppressed + (IF WithinWindow(a, o) THEN 1 ELSE 0) \in Nat
    BY DEF Alerts
  <2> QED BY <2>1, <2>2 DEF Repeated, Alerts
<1>5. ASSUME NEW a \in Alerts, NEW t \in Nat
      PROVE  Resolved(a, t) \in Alerts
  BY DEF Resolved, Alerts
<1> QED BY <1>1, <1>2, <1>3, <1>4, <1>5

LEMMA EventsOK ==
    /\ UsageEvent \in MonitoringEvents
    /\ \A o \in Inputs : ObservationEvent(o) \in MonitoringEvents
    /\ \A type \in AlertTypes, f \in Fingerprints, a \in Alerts :
          AlertEvent(type, f, a) \in MonitoringEvents
<1>1. UsageEvent \in MonitoringEvents
  BY AlertsOK DEF UsageEvent, MonitoringEvents, EventTypes
<1>2. ASSUME NEW o \in Inputs
      PROVE  ObservationEvent(o) \in MonitoringEvents
  BY AlertsOK, InputOK DEF ObservationEvent, MonitoringEvents, EventTypes
<1>3. ASSUME NEW type \in AlertTypes, NEW f \in Fingerprints, NEW a \in Alerts
      PROVE  AlertEvent(type, f, a) \in MonitoringEvents
  <2>1. a.last \in Nat
    BY DEF Alerts
  <2> QED BY <2>1 DEF AlertEvent, MonitoringEvents, EventTypes, AlertTypes
<1> QED BY <1>1, <1>2, <1>3

\* A row keeps all of an event but the times of its incident.
LEMMA RowOK ==
    ASSUME NEW ev \in MonitoringEvents
    PROVE  /\ RowOf(ev) \in MonitoringEvents
           /\ RowOf(ev).type = ev.type /\ RowOf(ev).at = ev.at
           /\ RowOf(ev).observation = ev.observation /\ RowOf(ev).jobs = ev.jobs
           /\ RowOf(ev).fingerprint = ev.fingerprint
           /\ RowOf(ev).alert.state = ev.alert.state
BY DEF RowOf, MonitoringEvents, Alerts

\* What an alert event leaves of the incident that replay has.
LEMMA ReplayAlertOK ==
    ASSUME NEW a \in Alerts, NEW ev \in MonitoringEvents
    PROVE  /\ ReplayAlert(a, ev) \in Alerts
           /\ ReplayAlert(a, ev).state = ev.alert.state /\ ReplayAlert(a, ev).last = ev.at
<1>1. ev.alert \in Alerts /\ ev.at \in Nat
  BY DEF MonitoringEvents
<1>2. \A m, n \in Nat : Larger(m, n) \in Nat
  BY DEF Larger
<1>3. Larger(1, ev.alert.occurrences) \in Nat
      /\ Larger(a.occurrences, ev.alert.occurrences) \in Nat
      /\ Larger(a.suppressed, ev.alert.suppressed) \in Nat
  BY <1>1, <1>2 DEF Alerts
<1> QED BY <1>1, <1>3 DEF ReplayAlert, Alerts

LEMMA RememberOK ==
    ASSUME NEW m \in Memories, NEW ev \in MonitoringEvents
    PROVE  Remember(m, ev) \in Memories
<1>1. CASE ev.type = "observation"
  <2> DEFINE o == CHOOSE o \in ev.observation : TRUE
  <2>1. o \in Inputs
    BY <1>1 DEF MonitoringEvents
  <2> HIDE DEF o
  <2>2. Remember(m, ev) = [m EXCEPT !.heard = Append(m.heard, o)]
    BY <1>1 DEF Remember, Memories, o
  <2>3. m.heard \in Seq(Inputs) /\ m.alerts \in [Fingerprints -> Alerts] /\ m.jobs \in Nat
    BY DEF Memories
  <2>4. Append(m.heard, o) \in Seq(Inputs)
    BY <2>1, <2>3
  <2> QED BY <2>2, <2>3, <2>4 DEF Memories
<1>2. CASE ev.type = "usage_recorded"
  BY <1>2 DEF Remember, Memories, MonitoringEvents
<1>3. CASE ev.type \notin {"observation", "usage_recorded"}
  <2>1. ev.fingerprint \in Fingerprints /\ m.alerts \in [Fingerprints -> Alerts]
    BY <1>3 DEF MonitoringEvents, Memories
  <2>2. ReplayAlert(m.alerts[ev.fingerprint], ev) \in Alerts
    BY <2>1, ReplayAlertOK
  <2>3. Remember(m, ev) =
           [m EXCEPT !.alerts = [m.alerts EXCEPT
               ![ev.fingerprint] = ReplayAlert(m.alerts[ev.fingerprint], ev)]]
    BY <1>3, <2>1 DEF Remember, Memories
  <2> QED BY <2>1, <2>2, <2>3 DEF Memories
<1> QED BY <1>1, <1>2, <1>3

LEMMA RememberObservation ==
    ASSUME NEW m \in Memories, NEW o \in Inputs
    PROVE  LET r == Remember(m, RowOf(ObservationEvent(o)))
           IN  r.heard = Append(m.heard, o) /\ r.alerts = m.alerts /\ r.jobs = m.jobs
<1> DEFINE ev == RowOf(ObservationEvent(o))
<1>1. ev.type = "observation" /\ ev.observation = {o}
  BY EventsOK, RowOK DEF ObservationEvent
<1> HIDE DEF ev
<1>2. (CHOOSE x \in ev.observation : TRUE) = o
  BY <1>1
<1>3. Remember(m, ev) = [m EXCEPT !.heard = Append(m.heard, CHOOSE x \in ev.observation : TRUE)]
  BY <1>1 DEF Remember, Memories
<1>4. Remember(m, ev) = [m EXCEPT !.heard = Append(m.heard, o)]
  BY <1>2, <1>3
<1> QED BY <1>4 DEF Memories, ev

LEMMA RememberUsage ==
    ASSUME NEW m \in Memories
    PROVE  LET r == Remember(m, RowOf(UsageEvent))
           IN  r.heard = m.heard /\ r.alerts = m.alerts /\ r.jobs = m.jobs + 1
<1> DEFINE ev == RowOf(UsageEvent)
<1>1. ev.type = "usage_recorded" /\ ev.jobs = 1
  BY EventsOK, RowOK DEF UsageEvent
<1> HIDE DEF ev
<1>2. Remember(m, ev) = [m EXCEPT !.jobs = m.jobs + 1]
  BY <1>1 DEF Remember, Memories
<1> QED BY <1>2 DEF Memories, ev

LEMMA RememberAlert ==
    ASSUME NEW m \in Memories, NEW type \in AlertTypes, NEW f \in Fingerprints, NEW a \in Alerts
    PROVE  LET r == Remember(m, RowOf(AlertEvent(type, f, a)))
           IN  /\ r.heard = m.heard /\ r.jobs = m.jobs
               /\ r.alerts[f].state = a.state /\ r.alerts[f].last = a.last
               /\ \A g \in Fingerprints \ {f} : r.alerts[g] = m.alerts[g]
<1> DEFINE ev == RowOf(AlertEvent(type, f, a))
<1>1. AlertEvent(type, f, a) \in MonitoringEvents
  BY EventsOK
<1>2. /\ ev \in MonitoringEvents /\ ev.type = type /\ ev.fingerprint = f
      /\ ev.at = a.last /\ ev.alert.state = a.state
  BY <1>1, RowOK DEF AlertEvent
<1> HIDE DEF ev
<1>3. m.alerts \in [Fingerprints -> Alerts]
  BY DEF Memories
<1>4. Remember(m, ev) =
         [m EXCEPT !.alerts = [m.alerts EXCEPT ![f] = ReplayAlert(m.alerts[f], ev)]]
  BY <1>2, <1>3 DEF Remember, Memories, AlertTypes
<1>5. ReplayAlert(m.alerts[f], ev).state = a.state /\ ReplayAlert(m.alerts[f], ev).last = a.last
  BY <1>2, <1>3, ReplayAlertOK
<1> QED BY <1>3, <1>4, <1>5 DEF Memories, ev

-----------------------------------------------------------------------------
(* Steps *)

\* A step of e that writes nothing to the table, and what holds of e after it.
LEMMA NothingWritten ==
    ASSUME NEW e \in Engines, MonitoringInv, MonitoringShapes', UNCHANGED events,
           inStep' \subseteq inStep \cup {e},
           \A d \in Engines : d # e => /\ MemoryOf(d)' = MemoryOf(d) /\ step'[d] = step[d],
           e \in inStep' => InStepOK(e)'
    PROVE  MonitoringInv'
<1>1. ASSUME NEW d \in inStep', d # e
      PROVE  InStepOK(d)'
  <2>1. d \in Engines /\ InStepOK(d)
    BY <1>1 DEF MonitoringInv, MonitoringShapes
  <2>2. MemoryOf(d)' = MemoryOf(d) /\ step'[d] = step[d] /\ Replay(events)' = Replay(events)
    BY <1>1, <2>1
  <2> QED BY <2>1, <2>2 DEF InStepOK
<1> QED BY <1>1 DEF MonitoringInv

LEMMA ObserveStep ==
    ASSUME MonitoringInv, NEW e \in Engines, NEW o \in Inputs, Observe(e, o)
    PROVE  MonitoringInv'
<1> DEFINE s == [doing |-> "observe", sequence |-> 0, event |-> ObservationEvent(o), left |-> {}]
<1>1. s \in MonitoringCalls
  BY EventsOK DEF MonitoringCalls, ObservationEvent
<1>2. /\ step' = [step EXCEPT ![e] = s]
      /\ heard' = [heard EXCEPT ![e] = Append(heard[e], o)]
      /\ UNCHANGED <<events, alerts, jobs, inStep, mishaps>>
      /\ step[e].doing = "rest" /\ calls < MaxCalls /\ calls' = calls + 1
  BY DEF Observe, Begin
<1> HIDE DEF s
<1>3. MonitoringShapes'
  BY <1>1, <1>2, MonitoringAssumption DEF MonitoringInv, MonitoringShapes
<1>4. ASSUME e \in inStep'
      PROVE  InStepOK(e)'
  <2> DEFINE M == Replay(events)
             r == Remember(M, RowOf(ObservationEvent(o)))
  <2>1. M \in Memories /\ Agree(MemoryOf(e), M)
    BY <1>2, <1>4 DEF MonitoringInv, MonitoringShapes, InStepOK
  <2>2. r.heard = Append(M.heard, o) /\ r.alerts = M.alerts /\ r.jobs = M.jobs
    BY <2>1, RememberObservation
  <2>3. /\ MemoryOf(e).heard = heard[e] /\ MemoryOf(e).alerts = alerts[e]
        /\ MemoryOf(e).jobs = jobs[e]
        /\ MemoryOf(e)'.heard = heard'[e] /\ MemoryOf(e)'.alerts = alerts'[e]
        /\ MemoryOf(e)'.jobs = jobs'[e]
    BY DEF MemoryOf
  <2>4. heard'[e] = Append(heard[e], o) /\ step'[e] = s
    BY <1>2 DEF MonitoringInv, MonitoringShapes
  <2>5. Agree(MemoryOf(e)', r)
    BY <2>1, <2>2, <2>3, <2>4, <1>2 DEF Agree
  <2>6. /\ step'[e].doing # "rest" /\ step'[e].event = ObservationEvent(o)
        /\ Replay(events)' = M
    BY <2>4, <1>2 DEF s
  <2> QED BY <2>5, <2>6 DEF InStepOK
<1>5. \A d \in Engines : d # e => MemoryOf(d)' = MemoryOf(d) /\ step'[d] = step[d]
  BY <1>2 DEF MonitoringInv, MonitoringShapes, MemoryOf
<1> QED BY <1>2, <1>3, <1>4, <1>5, NothingWritten

LEMMA RecordUsageStep ==
    ASSUME MonitoringInv, NEW e \in Engines, RecordUsage(e)
    PROVE  MonitoringInv'
<1> DEFINE s == [doing |-> "usage", sequence |-> 0, event |-> UsageEvent, left |-> {}]
<1>1. s \in MonitoringCalls
  BY EventsOK DEF MonitoringCalls
<1>2. /\ step' = [step EXCEPT ![e] = s]
      /\ jobs' = [jobs EXCEPT ![e] = jobs[e] + 1]
      /\ UNCHANGED <<events, heard, alerts, inStep, mishaps>>
      /\ step[e].doing = "rest" /\ calls < MaxCalls /\ calls' = calls + 1
  BY DEF RecordUsage, Begin
<1> HIDE DEF s
<1>3. MonitoringShapes'
  BY <1>1, <1>2, MonitoringAssumption DEF MonitoringInv, MonitoringShapes
<1>4. ASSUME e \in inStep'
      PROVE  InStepOK(e)'
  <2> DEFINE M == Replay(events)
             r == Remember(M, RowOf(UsageEvent))
  <2>1. M \in Memories /\ Agree(MemoryOf(e), M)
    BY <1>2, <1>4 DEF MonitoringInv, MonitoringShapes, InStepOK
  <2>2. r.heard = M.heard /\ r.alerts = M.alerts /\ r.jobs = M.jobs + 1
    BY <2>1, RememberUsage
  <2>3. /\ MemoryOf(e).heard = heard[e] /\ MemoryOf(e).alerts = alerts[e]
        /\ MemoryOf(e).jobs = jobs[e]
        /\ MemoryOf(e)'.heard = heard'[e] /\ MemoryOf(e)'.alerts = alerts'[e]
        /\ MemoryOf(e)'.jobs = jobs'[e]
    BY DEF MemoryOf
  <2>4. jobs'[e] = jobs[e] + 1 /\ step'[e] = s
    BY <1>2 DEF MonitoringInv, MonitoringShapes
  <2>5. Agree(MemoryOf(e)', r)
    BY <2>1, <2>2, <2>3, <2>4, <1>2 DEF Agree
  <2>6. /\ step'[e].doing # "rest" /\ step'[e].event = UsageEvent
        /\ Replay(events)' = M
    BY <2>4, <1>2 DEF s
  <2> QED BY <2>5, <2>6 DEF InStepOK
<1>5. \A d \in Engines : d # e => MemoryOf(d)' = MemoryOf(d) /\ step'[d] = step[d]
  BY <1>2 DEF MonitoringInv, MonitoringShapes, MemoryOf
<1> QED BY <1>2, <1>3, <1>4, <1>5, NothingWritten

LEMMA ReadSequenceStep ==
    ASSUME MonitoringInv, NEW e \in Engines, ReadSequence(e)
    PROVE  MonitoringInv'
<1> DEFINE s == [step[e] EXCEPT !.sequence = NextSequence]
<1>1. NextSequence \in Nat /\ step[e] \in MonitoringCalls
  BY DEF MonitoringInv, MonitoringShapes, NextSequence
<1>2. s \in MonitoringCalls /\ s.doing = step[e].doing /\ s.event = step[e].event
  BY <1>1 DEF MonitoringCalls
<1>3. /\ step' = [step EXCEPT ![e] = s]
      /\ UNCHANGED <<events, heard, alerts, jobs, inStep, calls, mishaps>>
  BY DEF ReadSequence
<1> HIDE DEF s
<1>4. MonitoringShapes'
  BY <1>2, <1>3 DEF MonitoringInv, MonitoringShapes
<1>5. \A d \in Engines : MemoryOf(d)' = MemoryOf(d) /\ (d # e => step'[d] = step[d])
  BY <1>3 DEF MonitoringInv, MonitoringShapes, MemoryOf
<1>6. ASSUME e \in inStep'
      PROVE  InStepOK(e)'
  <2>1. InStepOK(e) /\ step'[e] = s /\ MemoryOf(e)' = MemoryOf(e) /\ Replay(events)' = Replay(events)
    BY <1>3, <1>5, <1>6 DEF MonitoringInv, MonitoringShapes
  <2> QED BY <2>1, <1>2 DEF InStepOK
<1> QED BY <1>3, <1>4, <1>5, <1>6, NothingWritten

\* A call that raises ends, and its engine is no longer in step.
LEMMA RaiseStep ==
    ASSUME MonitoringInv, NEW e \in Engines, AppendRefused(e) \/ AppendFails(e)
    PROVE  MonitoringInv'
<1>1. /\ step' = [step EXCEPT ![e] = AtRest] /\ inStep' = inStep \ {e}
      /\ UNCHANGED <<events, heard, alerts, jobs, calls>>
      /\ mishaps' = mishaps \/ (mishaps < MaxMonitoringFaults /\ mishaps' = mishaps + 1)
  BY DEF AppendRefused, AppendFails
<1>2. AtRest \in MonitoringCalls
  BY EventsOK DEF AtRest, MonitoringCalls
<1>3. MonitoringShapes'
  BY <1>1, <1>2, MonitoringAssumption DEF MonitoringInv, MonitoringShapes
<1>4. \A d \in Engines : MemoryOf(d)' = MemoryOf(d) /\ (d # e => step'[d] = step[d])
  BY <1>1 DEF MonitoringInv, MonitoringShapes, MemoryOf
<1> QED BY <1>1, <1>3, <1>4, NothingWritten

\* A rebuilt engine knows what replay does.
LEMMA RestartStep ==
    ASSUME MonitoringInv, NEW e \in Engines, Restart(e)
    PROVE  MonitoringInv'
<1> DEFINE M == Replay(events)
<1>1. M \in Memories
  BY DEF MonitoringInv, MonitoringShapes
<1>2. /\ heard' = [heard EXCEPT ![e] = M.heard] /\ alerts' = [alerts EXCEPT ![e] = M.alerts]
      /\ jobs' = [jobs EXCEPT ![e] = M.jobs] /\ step' = [step EXCEPT ![e] = AtRest]
      /\ inStep' = inStep \cup {e} /\ UNCHANGED <<events, calls>>
      /\ mishaps < MaxMonitoringFaults /\ mishaps' = mishaps + 1
  BY DEF Restart
<1>3. Replay(events)' = M
  BY <1>2
<1> HIDE DEF M
<1>4. AtRest \in MonitoringCalls /\ AtRest.doing = "rest"
  BY EventsOK DEF AtRest, MonitoringCalls
<1>5. MonitoringShapes'
  <2>1. M.heard \in Seq(Inputs) /\ M.alerts \in [Fingerprints -> Alerts] /\ M.jobs \in Nat
    BY <1>1 DEF Memories
  <2> QED BY <1>1, <1>2, <1>3, <1>4, <2>1, MonitoringAssumption
          DEF MonitoringInv, MonitoringShapes
<1>6. InStepOK(e)'
  <2>1. heard'[e] = M.heard /\ alerts'[e] = M.alerts /\ jobs'[e] = M.jobs /\ step'[e] = AtRest
    BY <1>2 DEF MonitoringInv, MonitoringShapes
  <2>2. Agree(MemoryOf(e)', M)
    BY <2>1 DEF Agree, MemoryOf
  <2> QED BY <2>1, <2>2, <1>3, <1>4 DEF InStepOK
<1>7. \A d \in Engines : d # e => MemoryOf(d)' = MemoryOf(d) /\ step'[d] = step[d]
  BY <1>2 DEF MonitoringInv, MonitoringShapes, MemoryOf
<1> QED BY <1>2, <1>5, <1>6, <1>7, NothingWritten

\* e has written an event: it knows what it knew, or is ahead by the next event.
EventWritten(e) ==
    /\ alerts' \in [Engines -> [Fingerprints -> Alerts]]
    /\ step' \in [Engines -> MonitoringCalls]
    /\ \A m \in Memories : Agree(MemoryOf(e), m) =>
          Agree(MemoryOf(e)', IF step'[e].doing = "rest" THEN m
                              ELSE Remember(m, RowOf(step'[e].event)))

LEMMA NothingMore ==
    ASSUME MonitoringShapes, NEW e \in Engines, UNCHANGED <<heard, alerts, jobs>>,
           step' = [step EXCEPT ![e] = AtRest]
    PROVE  EventWritten(e)
<1>1. AtRest \in MonitoringCalls /\ AtRest.doing = "rest"
  BY EventsOK DEF AtRest, MonitoringCalls
<1>2. step' \in [Engines -> MonitoringCalls] /\ step'[e] = AtRest
  BY <1>1 DEF MonitoringShapes
<1>3. MemoryOf(e)' = MemoryOf(e)
  BY DEF MemoryOf
<1> QED BY <1>1, <1>2, <1>3 DEF EventWritten, MonitoringShapes

LEMMA AlertNext ==
    ASSUME MonitoringShapes, NEW e \in Engines, UNCHANGED <<heard, jobs>>,
           NEW type \in AlertTypes, NEW f \in Fingerprints, NEW a \in Alerts,
           alerts' = [alerts EXCEPT ![e][f] = a],
           NEW s \in MonitoringCalls, s.doing # "rest", s.event = AlertEvent(type, f, a),
           step' = [step EXCEPT ![e] = s]
    PROVE  EventWritten(e)
<1>1. /\ alerts' \in [Engines -> [Fingerprints -> Alerts]]
      /\ alerts'[e] = [alerts[e] EXCEPT ![f] = a] /\ alerts[e] \in [Fingerprints -> Alerts]
      /\ step' \in [Engines -> MonitoringCalls] /\ step'[e] = s
  BY DEF MonitoringShapes
<1>2. ASSUME NEW m \in Memories, Agree(MemoryOf(e), m)
      PROVE  Agree(MemoryOf(e)', Remember(m, RowOf(AlertEvent(type, f, a))))
  <2> DEFINE r == Remember(m, RowOf(AlertEvent(type, f, a)))
  <2>1. /\ r.heard = m.heard /\ r.jobs = m.jobs
        /\ r.alerts[f].state = a.state /\ r.alerts[f].last = a.last
        /\ \A g \in Fingerprints \ {f} : r.alerts[g] = m.alerts[g]
    BY RememberAlert
  <2> HIDE DEF r
  <2>2. /\ MemoryOf(e).heard = heard[e] /\ MemoryOf(e).alerts = alerts[e]
        /\ MemoryOf(e).jobs = jobs[e]
        /\ MemoryOf(e)'.heard = heard[e] /\ MemoryOf(e)'.alerts = alerts'[e]
        /\ MemoryOf(e)'.jobs = jobs[e]
    BY DEF MemoryOf
  <2>3. alerts'[e][f] = a /\ \A g \in Fingerprints \ {f} : alerts'[e][g] = alerts[e][g]
    BY <1>1
  <2>4. Agree(MemoryOf(e)', r)
    BY <1>2, <2>1, <2>2, <2>3 DEF Agree
  <2> QED BY <2>4 DEF r
<1> QED BY <1>1, <1>2 DEF EventWritten

LEMMA ResolveNextOK ==
    ASSUME MonitoringShapes, NEW e \in Engines, UNCHANGED <<heard, jobs>>,
           NEW at \in Nat, NEW left \in SUBSET Fingerprints, ResolveNext(e, at, left)
    PROVE  EventWritten(e)
<1>1. CASE left = {}
  BY <1>1, NothingMore DEF ResolveNext
<1>2. CASE left # {}
  <2>1. PICK f \in left :
           /\ alerts' = [alerts EXCEPT ![e][f] = Resolved(alerts[e][f], at)]
           /\ step' = [step EXCEPT ![e] =
                 [doing |-> "resolve", sequence |-> 0,
                  event |-> AlertEvent("alert_resolved", f, Resolved(alerts[e][f], at)),
                  left |-> left \ {f}]]
    BY <1>2 DEF ResolveNext
  <2> DEFINE a == Resolved(alerts[e][f], at)
             s == [doing |-> "resolve", sequence |-> 0,
                   event |-> AlertEvent("alert_resolved", f, a), left |-> left \ {f}]
  <2>2. a \in Alerts
    BY AlertsOK DEF MonitoringShapes
  <2> HIDE DEF a
  <2>3. "alert_resolved" \in AlertTypes /\ AlertEvent("alert_resolved", f, a) \in MonitoringEvents
    BY <2>2, EventsOK DEF AlertTypes
  <2>4. s \in MonitoringCalls /\ s.doing # "rest" /\ s.event = AlertEvent("alert_resolved", f, a)
    BY <2>3 DEF MonitoringCalls
  <2>5. alerts' = [alerts EXCEPT ![e][f] = a] /\ step' = [step EXCEPT ![e] = s]
    BY <2>1 DEF a
  <2> HIDE DEF s
  <2> QED BY <2>2, <2>3, <2>4, <2>5, AlertNext
<1> QED BY <1>1, <1>2

LEMMA AfterObservationOK ==
    ASSUME MonitoringShapes, NEW e \in Engines, UNCHANGED <<heard, jobs>>,
           NEW o \in Inputs, AfterObservation(e, o)
    PROVE  EventWritten(e)
<1>1. CASE o.status = "healthy"
  <2>1. {f \in OpenOf(alerts[e]) : f[1] = o.kind} \in SUBSET Fingerprints
    BY DEF OpenOf
  <2>2. ResolveNext(e, o.at, {f \in OpenOf(alerts[e]) : f[1] = o.kind})
    BY <1>1 DEF AfterObservation
  <2> QED BY <2>1, <2>2, InputOK, ResolveNextOK
<1>2. CASE o.status # "healthy"
  <2> DEFINE f == Fingerprint(o)
             was == alerts[e][f]
             new == was.state # "open"
             b == IF new THEN Opened(o) ELSE Repeated(was, o)
             type == IF new THEN "alert_opened"
                     ELSE IF WithinWindow(was, o) THEN "alert_suppressed" ELSE "alert_repeated"
             s == [doing |-> "alert", sequence |-> 0, event |-> AlertEvent(type, f, b),
                   left |-> {}]
  <2>1. alerts' = [alerts EXCEPT ![e][f] = b] /\ step' = [step EXCEPT ![e] = s]
    BY <1>2 DEF AfterObservation, Begin
  <2>2. f \in Fingerprints
    BY InputOK
  <2>3. b \in Alerts
    BY <2>2, AlertsOK DEF MonitoringShapes
  <2>4. type \in AlertTypes
    BY DEF AlertTypes
  <2> HIDE DEF f, b, type
  <2>5. s \in MonitoringCalls /\ s.doing # "rest" /\ s.event = AlertEvent(type, f, b)
    BY <2>2, <2>3, <2>4, EventsOK DEF MonitoringCalls
  <2> HIDE DEF s
  <2> QED BY <2>1, <2>2, <2>3, <2>4, <2>5, AlertNext
<1> QED BY <1>1, <1>2

LEMMA AppendEventStep ==
    ASSUME MonitoringInv, NEW e \in Engines, AppendEvent(e)
    PROVE  MonitoringInv'
<1> DEFINE s == step[e]
           ev == RowOf(s.event)
           M == Replay(events)
           M1 == Remember(M, ev)
<1>1. /\ s \in MonitoringCalls /\ s.event \in MonitoringEvents /\ s.left \in SUBSET Fingerprints
      /\ s.event.at \in Nat /\ M \in Memories /\ events \in Seq(MonitoringEvents)
      /\ ReplayDefined(events)
  BY DEF MonitoringInv, MonitoringShapes, MonitoringCalls, MonitoringEvents
<1>2. /\ s.doing # "rest" /\ events' = Append(events, ev) /\ inStep' = inStep \cap {e}
      /\ UNCHANGED <<heard, jobs, calls, mishaps>>
  BY DEF AppendEvent
<1>3. ev \in MonitoringEvents /\ M1 \in Memories
  BY <1>1, RowOK, RememberOK
<1>4. EventWritten(e)
  <2>1. CASE s.doing = "observe" /\ \E o \in s.event.observation : AfterObservation(e, o)
    <3>1. s.event.observation \subseteq Inputs
      BY <1>1 DEF MonitoringEvents
    <3> QED BY <2>1, <3>1, <1>2, AfterObservationOK DEF MonitoringInv
  <2>2. CASE s.doing \in {"alert", "resolve"} /\ ResolveNext(e, s.event.at, s.left)
    BY <2>2, <1>1, <1>2, ResolveNextOK DEF MonitoringInv
  <2>3. CASE s.doing = "usage" /\ UNCHANGED alerts /\ step' = [step EXCEPT ![e] = AtRest]
    BY <2>3, <1>2, NothingMore DEF MonitoringInv
  <2> QED BY <2>1, <2>2, <2>3 DEF AppendEvent
<1>5. ReplayDefined(events') /\ Replay(events') = M1
  BY <1>1, <1>2, <1>3, ReplayAppend
<1>6. MonitoringShapes'
  <2>1. events' \in Seq(MonitoringEvents)
    BY <1>1, <1>2, <1>3
  <2>2. Replay(events)' \in Memories
    BY <1>3, <1>5
  <2> QED BY <2>1, <2>2, <1>2, <1>4 DEF MonitoringInv, MonitoringShapes, EventWritten
<1>7. ASSUME e \in inStep'
      PROVE  InStepOK(e)'
  <2>1. Agree(MemoryOf(e), M1)
    BY <1>2, <1>7 DEF MonitoringInv, InStepOK
  <2> HIDE DEF M1
  <2>2. Agree(MemoryOf(e)', IF step'[e].doing = "rest" THEN M1
                            ELSE Remember(M1, RowOf(step'[e].event)))
    BY <2>1, <1>3, <1>4 DEF EventWritten
  <2> QED BY <2>2, <1>5 DEF InStepOK
<1> QED BY <1>2, <1>5, <1>6, <1>7 DEF MonitoringInv

\* Every step of an engine preserves the invariant (MonitoringEngine and its store).
THEOREM MonitoringInvariant == MonitoringSpec => []MonitoringInv
<1>1. MonitoringInit => MonitoringInv
  <2> SUFFICES ASSUME MonitoringInit
               PROVE  MonitoringInv
    OBVIOUS
  <2>1. events = <<>> /\ ReplayDefined(events) /\ Replay(events) = NoMemory
    BY ReplayNone DEF MonitoringInit
  <2>2. AtRest \in MonitoringCalls /\ AtRest.doing = "rest"
    BY EventsOK DEF AtRest, MonitoringCalls
  <2>3. NoMemory \in Memories
    BY AlertsOK DEF NoMemory, Memories
  <2>4. MonitoringShapes
    BY <2>1, <2>2, <2>3, AlertsOK, MonitoringAssumption DEF MonitoringInit, MonitoringShapes
  <2>5. \A e \in Engines : MemoryOf(e) = NoMemory /\ step[e] = AtRest
    BY DEF MonitoringInit, MemoryOf, NoMemory
  <2>6. \A e \in Engines : InStepOK(e)
    BY <2>1, <2>2, <2>5 DEF InStepOK, Agree
  <2> QED BY <2>1, <2>4, <2>6 DEF MonitoringInv, MonitoringShapes
<1>2. MonitoringInv /\ [MonitoringNext]_monitoringVars => MonitoringInv'
  <2> SUFFICES ASSUME MonitoringInv, [MonitoringNext]_monitoringVars
               PROVE  MonitoringInv'
    OBVIOUS
  <2>1. CASE UNCHANGED monitoringVars
    BY <2>1 DEF MonitoringInv, MonitoringShapes, InStepOK, MemoryOf, monitoringVars
  <2>2. CASE MonitoringNext
    BY <2>2, ObserveStep, RecordUsageStep, ReadSequenceStep, AppendEventStep, RaiseStep,
       RestartStep DEF MonitoringNext
  <2> QED BY <2>1, <2>2
<1> QED BY <1>1, <1>2, PTL DEF MonitoringSpec

\* Every variable of the engines and of their table keeps its type.
THEOREM MonitoringTypeCorrect == MonitoringSpec => []MonitoringTypeOK
<1>1. MonitoringInv => MonitoringTypeOK
  <2> SUFFICES ASSUME MonitoringInv
               PROVE  MonitoringTypeOK
    OBVIOUS
  <2>1. \A i \in DOMAIN events : events[i].type \in EventTypes
    BY DEF MonitoringInv, MonitoringShapes, MonitoringEvents
  <2>2. ASSUME NEW e \in Engines
        PROVE  /\ \A i \in DOMAIN heard[e] : heard[e][i] \in Inputs
               /\ \A f \in Fingerprints : alerts[e][f].state \in {"none", "open", "resolved"}
               /\ step[e].doing \in {"rest", "observe", "alert", "resolve", "usage"}
               /\ jobs[e] \in Nat
    BY DEF MonitoringInv, MonitoringShapes, MonitoringCalls, Alerts
  <2> QED BY <2>1, <2>2 DEF MonitoringInv, MonitoringShapes, MonitoringTypeOK
<1> QED BY <1>1, MonitoringInvariant, PTL

\* An engine that wrote all it did, and alone, would lose nothing that its decisions
\* and its reports depend on if it were rebuilt from the table (_replay).
THEOREM RestartsKeepIncidents == MonitoringSpec => []RestartKeepsIncidents
<1>1. MonitoringInv => RestartKeepsIncidents
  <2> SUFFICES ASSUME MonitoringInv, NEW e \in inStep, step[e].doing = "rest"
               PROVE  LET rebuilt == Replay(events)
                          memory == [heard |-> heard[e], alerts |-> alerts[e], jobs |-> jobs[e]]
                      IN  /\ rebuilt.heard = memory.heard
                          /\ \A f \in Fingerprints :
                              /\ rebuilt.alerts[f].state = memory.alerts[f].state
                              /\ rebuilt.alerts[f].last = memory.alerts[f].last
                          /\ \A o \in Inputs :
                              MonthlyReport(rebuilt, events, o.at)
                                  = MonthlyReport(memory, events, o.at)
    BY DEF RestartKeepsIncidents
  <2> DEFINE M == Replay(events)
             N == MemoryOf(e)
  <2>1. Agree(N, M)
    BY DEF MonitoringInv, InStepOK
  <2>2. N = [heard |-> heard[e], alerts |-> alerts[e], jobs |-> jobs[e]]
    BY DEF MemoryOf
  <2> HIDE DEF M, N
  <2>3. /\ M.heard = N.heard /\ M.jobs = N.jobs /\ OpenOf(M.alerts) = OpenOf(N.alerts)
    BY <2>1 DEF Agree, OpenOf
  <2>4. \A o \in Inputs : MonthlyReport(M, events, o.at) = MonthlyReport(N, events, o.at)
    BY <2>3 DEF MonthlyReport
  <2> QED BY <2>1, <2>2, <2>3, <2>4 DEF Agree, M
<1> QED BY <1>1, MonitoringInvariant, PTL

=============================================================================
