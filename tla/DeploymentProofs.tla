-------------------------- MODULE DeploymentProofs --------------------------
(***************************************************************************)
(* Proofs about Deployment, for every set of controllers, intents, keys    *)
(* and credentials.  The inductive invariant IInv says three things: every *)
(* record, stored or being saved, carries a trail that accounts for its    *)
(* status and the facts its status promises (RecordOK); the step a call is *)
(* at agrees with the record it holds, which is at most one entry ahead of *)
(* the stored one (CallOK); and a controller that has deployed an intent   *)
(* finds it past approval for good (DeploysOK).                            *)
(***************************************************************************)
EXTENDS Deployment, SequenceTheorems, TLAPS

\* The trail of a record: legal moves that chain and end at its status.
TrailOK(rec) ==
    /\ \A k \in 1..Len(rec.evidence) :
          /\ <<rec.evidence[k].from, rec.evidence[k].to>> \in Lifecycle!Edges
          /\ rec.evidence[k].from =
                IF k = 1 THEN "approval_pending" ELSE rec.evidence[k-1].to
    /\ rec.status = IF rec.evidence = <<>> THEN "approval_pending"
                    ELSE rec.evidence[Len(rec.evidence)].to

\* What the statuses on the way to success promise.
Earned(i, rec) ==
    /\ rec.status \in {"approved", "deploying", "verifying", "succeeded"} => rec.approved
    /\ rec.status \in {"deploying", "verifying", "succeeded"} => Authoritative(i)
    /\ rec.status \in {"verifying", "succeeded"} => rec.dep = "match"
    /\ rec.status = "succeeded" => rec.verified = "passed"

RecordOK(i, rec) == TrailOK(rec) /\ Earned(i, rec)

RowsOK ==
    \A i \in Intents : IF row[i].status = "none" THEN row[i].evidence = <<>>
                       ELSE RecordOK(i, row[i])

\* The step a call has reached, once its pending save is done.
At(k) == IF k.pc = "save" THEN k.then ELSE k.pc

StatusAt(k) ==
    /\ At(k) = "gate" => k.rec.status = "approval_pending" /\ k.rec.evidence = <<>>
    /\ At(k) \in {"deploy", "identify"} => k.rec.status = "deploying"
    /\ At(k) = "identify" => k.rec.dep # "none"
    /\ At(k) \in {"verify", "judge"} => k.rec.status = "verifying"
    /\ At(k) = "judge" => k.verdict # "none"
    /\ At(k) = "rollback" => k.rec.status = "rolling_back"

CallOK(k) ==
    k.pc # "idle" =>
      /\ k.intent \in Intents
      /\ RecordOK(k.intent, k.rec)
      /\ StatusAt(k)
      /\ row[k.intent].status = "none" => k.pc = "save" /\ k.then = "gate"
      /\ k.pc = "save" => Len(k.rec.evidence) <= Len(row[k.intent].evidence) + 1
      /\ k.pc # "save" => Len(k.rec.evidence) <= Len(row[k.intent].evidence)

CallsOK == \A c \in Controllers : CallOK(call[c])

PastApproval(i) == row[i].status \notin {"none", "approval_pending", "approved"}

DeploysOK ==
    \A c \in Controllers, i \in Intents :
        /\ deploys[c][i] <= 1
        /\ deploys[c][i] > 0 => PastApproval(i)
        /\ call[c].pc # "idle" /\ call[c].intent = i /\ At(call[c]) = "deploy"
             => deploys[c][i] = 0
        /\ call[c].pc = "deploy" /\ call[c].intent = i => PastApproval(i)

IInv == TypeOK /\ RowsOK /\ CallsOK /\ DeploysOK /\ KeyIsUnique

-----------------------------------------------------------------------------
(* Records *)

\* Edges only relate statuses.
LEMMA EdgesTyped ==
    ASSUME NEW s, NEW t, <<s, t>> \in Lifecycle!Edges
    PROVE  s \in InFlight \cup {"approval_pending", "approved"} /\ t \in Statuses
BY DEF Lifecycle!Edges, Statuses, Terminal, InFlight

\* _transition keeps a trail that accounts for the status, and changes nothing else.
LEMMA TransitionOK ==
    ASSUME NEW rec \in Record, TrailOK(rec), NEW s, NEW r \in Reasons,
           <<rec.status, s>> \in Lifecycle!Edges
    PROVE  LET new == Transition(rec, s, r)
           IN  /\ new \in Record
               /\ TrailOK(new)
               /\ new.status = s
               /\ Len(new.evidence) = Len(rec.evidence) + 1
               /\ new.backup = rec.backup /\ new.approved = rec.approved
               /\ new.dep = rec.dep /\ new.verified = rec.verified
<1> DEFINE e == [from |-> rec.status, to |-> s, reason |-> r]
           ev == rec.evidence
           new == Transition(rec, s, r)
<1>1. s \in Statuses /\ rec.status \in Statuses
  BY EdgesTyped DEF Statuses
<1>2. e \in Entry
  BY <1>1 DEF Entry
<1>3. ev \in Seq(Entry)
  BY DEF Record
<1>4. Append(ev, e) \in Seq(Entry) /\ Len(Append(ev, e)) = Len(ev) + 1
  BY <1>2, <1>3
<1>5. /\ new \in Record
      /\ new.status = s /\ new.evidence = Append(ev, e)
      /\ new.backup = rec.backup /\ new.approved = rec.approved
      /\ new.dep = rec.dep /\ new.verified = rec.verified
  BY <1>1, <1>4 DEF Transition, Record
<1>6. TrailOK(new)
  <2>1. ASSUME NEW k \in 1..Len(new.evidence)
        PROVE  /\ <<new.evidence[k].from, new.evidence[k].to>> \in Lifecycle!Edges
               /\ new.evidence[k].from =
                     IF k = 1 THEN "approval_pending" ELSE new.evidence[k-1].to
    <3>0. k \in 1..Len(ev) \/ k = Len(ev) + 1
      BY <1>3, <1>4, <1>5, LenProperties
    <3>1. CASE k = Len(ev) + 1
      BY <1>2, <1>3, <1>5, <3>1 DEF TrailOK
    <3>2. CASE k \in 1..Len(ev)
      BY <1>2, <1>3, <1>5, <3>2 DEF TrailOK
    <3> QED
      BY <3>0, <3>1, <3>2
  <2>2. new.status = new.evidence[Len(new.evidence)].to /\ new.evidence # <<>>
    BY <1>2, <1>3, <1>4, <1>5
  <2> QED
    BY <2>1, <2>2 DEF TrailOK
<1> QED
  BY <1>4, <1>5, <1>6

\* new is old, or old after one legal and audited move.
Stays(old, new) == new.status = old.status /\ new.evidence = old.evidence
Advances(old, new) ==
    /\ <<old.status, new.status>> \in Lifecycle!Edges
    /\ \E r \in Reasons :
          new.evidence = Append(old.evidence,
                                [from |-> old.status, to |-> new.status, reason |-> r])

\* A record accepted over a stored one, and at most one entry ahead of it, is
\* where the stored one is or one legal move further.
LEMMA AcceptedMoves ==
    ASSUME NEW old \in Record, NEW new \in Record, TrailOK(old), TrailOK(new),
           Extends(new.evidence, old.evidence),
           Len(new.evidence) <= Len(old.evidence) + 1
    PROVE  Stays(old, new) \/ Advances(old, new)
<1> DEFINE n == new.evidence
           o == old.evidence
<1>1. n \in Seq(Entry) /\ o \in Seq(Entry)
  BY DEF Record
<1>2. CASE Len(n) = Len(o)
  <2>1. n = o
    BY <1>1, <1>2, SeqEqual DEF Extends
  <2>2. /\ new.status = IF n = <<>> THEN "approval_pending" ELSE n[Len(n)].to
        /\ old.status = IF o = <<>> THEN "approval_pending" ELSE o[Len(o)].to
    BY DEF TrailOK
  <2> QED
    BY <2>1, <2>2 DEF Stays
<1>3. CASE Len(n) = Len(o) + 1
  <2> DEFINE k == Len(n)
  <2>1. k \in 1..Len(n) /\ n[k] \in Entry
    BY <1>1, <1>3
  <2>2. n # <<>> /\ new.status = n[k].to
    BY <1>1, <1>3 DEF TrailOK
  <2>3. n[k].from = old.status
    <3>1. n[k].from = IF k = 1 THEN "approval_pending" ELSE n[k-1].to
      BY <2>1 DEF TrailOK
    <3>2. old.status = IF o = <<>> THEN "approval_pending" ELSE o[Len(o)].to
      BY DEF TrailOK
    <3>3. CASE o = <<>>
      BY <1>1, <1>3, <3>1, <3>2, <3>3
    <3>4. CASE o # <<>>
      <4>1. Len(o) \in 1..Len(o) /\ k = Len(o) + 1 /\ k # 1 /\ k - 1 = Len(o)
        BY <1>1, <1>3, <3>4, EmptySeq
      <4>2. n[k-1] = o[Len(o)]
        BY <4>1 DEF Extends
      <4> QED
        BY <3>1, <3>2, <3>4, <4>1, <4>2
    <3> QED
      BY <3>3, <3>4
  <2>4. <<n[k].from, n[k].to>> \in Lifecycle!Edges
    BY <2>1 DEF TrailOK
  <2>5. n[k] = [from |-> old.status, to |-> new.status, reason |-> n[k].reason]
    BY <2>1, <2>2, <2>3 DEF Entry
  <2>6. n = Append(o, n[k])
    <3>1. Append(o, n[k]) \in Seq(Entry) /\ Len(Append(o, n[k])) = Len(n)
      BY <1>1, <1>3, <2>1
    <3>2. \A j \in 1..Len(n) : n[j] = Append(o, n[k])[j]
      BY <1>1, <1>3, <2>1 DEF Extends
    <3> QED
      BY <1>1, <3>1, <3>2, SeqEqual
  <2>7. n[k].reason \in Reasons
    BY <2>1 DEF Entry
  <2> QED
    BY <2>2, <2>3, <2>4, <2>5, <2>6, <2>7 DEF Advances
<1>4. Len(n) \in Nat /\ Len(o) \in Nat /\ Len(o) <= Len(n) /\ Len(n) <= Len(o) + 1
  BY <1>1, LenProperties DEF Extends
<1> QED
  BY <1>2, <1>3, <1>4

-----------------------------------------------------------------------------
(* Steps that move one call and leave everything durable alone *)

\* What the new state k of controller c's call must satisfy.
GoodCall(c, k) ==
    /\ k \in Call
    /\ CallOK(k)
    /\ k.pc # "idle" /\ At(k) = "deploy" => deploys[c][k.intent] = 0
    /\ k.pc = "deploy" => PastApproval(k.intent)

\* Controller c counts at most one deployment, of an intent past approval that
\* call k will not deploy.
CountsDeploy(c, k) ==
    /\ deploys' \in [Controllers -> [Intents -> Nat]]
    /\ \A d \in Controllers, i \in Intents :
          \/ deploys'[d][i] = deploys[d][i]
          \/ /\ d = c /\ i = k.intent /\ At(k) # "deploy"
             /\ deploys'[d][i] = 1 /\ PastApproval(i)

LEMMA CallMovesCounting ==
    ASSUME IInv, NEW c \in Controllers, NEW k, GoodCall(c, k), CountsDeploy(c, k),
           call' = [call EXCEPT ![c] = k],
           UNCHANGED <<durable, cache>>
    PROVE  IInv'
<1>1. /\ row' = row /\ preprod' = preprod /\ stop' = stop /\ revoked' = revoked
      /\ cache' = cache
  BY DEF durable
<1>2. /\ call' \in [Controllers -> Call]
      /\ call'[c] = k
      /\ \A d \in Controllers \ {c} : call'[d] = call[d]
  BY DEF IInv, TypeOK, GoodCall
<1>3. TypeOK'
  BY <1>1, <1>2 DEF IInv, TypeOK, CountsDeploy
<1>4. RowsOK'
  BY <1>1 DEF IInv, RowsOK, RecordOK, Earned, TrailOK, Authoritative
<1>5. ASSUME NEW d \in Controllers PROVE CallOK(call[d])'
  <2>1. CASE d = c
    BY <1>1, <1>2, <2>1 DEF GoodCall, CallOK, RecordOK, Earned, Authoritative
  <2>2. CASE d # c
    BY <1>1, <1>2, <2>2 DEF IInv, CallsOK, CallOK, RecordOK, Earned, Authoritative
  <2> QED
    BY <2>1, <2>2
<1>6. CallsOK'
  BY <1>5 DEF CallsOK
<1>7. ASSUME NEW d \in Controllers, NEW i \in Intents
      PROVE  /\ deploys'[d][i] <= 1
             /\ deploys'[d][i] > 0 => PastApproval(i)'
             /\ call'[d].pc # "idle" /\ call'[d].intent = i /\ At(call'[d]) = "deploy"
                  => deploys'[d][i] = 0
             /\ call'[d].pc = "deploy" /\ call'[d].intent = i => PastApproval(i)'
  <2>1. PastApproval(i)' = PastApproval(i)
    BY <1>1 DEF PastApproval
  <2>2. \/ deploys'[d][i] = deploys[d][i]
        \/ /\ d = c /\ i = k.intent /\ At(k) # "deploy"
           /\ deploys'[d][i] = 1 /\ PastApproval(i)
    BY DEF CountsDeploy
  <2>3. CASE d = c
    BY <1>2, <2>1, <2>2, <2>3 DEF GoodCall, IInv, DeploysOK
  <2>4. CASE d # c
    BY <1>2, <2>1, <2>2, <2>4 DEF IInv, DeploysOK
  <2> QED
    BY <2>3, <2>4
<1>8. DeploysOK'
  BY <1>1, <1>7 DEF DeploysOK, At
<1>9. KeyIsUnique'
  BY <1>1 DEF IInv, KeyIsUnique
<1> QED
  BY <1>3, <1>4, <1>6, <1>8, <1>9 DEF IInv

LEMMA CallMoves ==
    ASSUME IInv, NEW c \in Controllers, NEW k, GoodCall(c, k),
           call' = [call EXCEPT ![c] = k],
           UNCHANGED <<durable, cache, deploys>>
    PROVE  IInv'
<1>1. CountsDeploy(c, k)
  BY DEF CountsDeploy, IInv, TypeOK
<1> QED
  BY <1>1, CallMovesCounting

\* The status a record must have when it is saved before step next.
Fits(rec, next) ==
    /\ next = "identify" => rec.status = "deploying" /\ rec.dep # "none"
    /\ next \in {"verify", "judge"} => rec.status = "verifying"
    /\ next = "rollback" => rec.status = "rolling_back"

\* An intermediate step of a call in progress: the record moves on and is to be
\* saved before step next, which is neither the gates nor the deployment.
LEMMA MovedCall ==
    ASSUME IInv, NEW c \in Controllers, call[c].pc \notin {"idle", "save"},
           NEW rec \in Record, NEW next \in Steps \ {"gate", "deploy"},
           RecordOK(call[c].intent, rec), Fits(rec, next),
           Len(rec.evidence) <= Len(call[c].rec.evidence) + 1,
           NEW k \in Call, next = "judge" => k.verdict # "none",
           k.pc = "save", k.rec = rec, k.then = next, k.intent = call[c].intent
    PROVE  GoodCall(c, k) /\ At(k) = next
<1>1. call[c] \in Call /\ CallOK(call[c])
  BY DEF IInv, TypeOK, CallsOK
<1>2. /\ call[c].intent \in Intents /\ row[call[c].intent].status # "none"
      /\ Len(call[c].rec.evidence) <= Len(row[call[c].intent].evidence)
  BY <1>1 DEF CallOK
<1>3. /\ Len(rec.evidence) \in Nat /\ Len(call[c].rec.evidence) \in Nat
      /\ Len(row[call[c].intent].evidence) \in Nat
  <2>1. row[call[c].intent] \in Record /\ call[c].rec \in Record
    BY <1>1, <1>2 DEF IInv, TypeOK, Call
  <2>2. /\ rec.evidence \in Seq(Entry) /\ call[c].rec.evidence \in Seq(Entry)
        /\ row[call[c].intent].evidence \in Seq(Entry)
    BY <2>1 DEF Record
  <2> QED
    BY <2>2, LenProperties
<1>4. At(k) = next /\ next # "gate" /\ next # "deploy"
  BY DEF At
<1>5. StatusAt(k)
  BY <1>4 DEF StatusAt, Fits
<1>6. Len(k.rec.evidence) <= Len(row[k.intent].evidence) + 1
  BY <1>2, <1>3
<1>7. CallOK(k)
  BY <1>2, <1>5, <1>6 DEF CallOK
<1> QED
  BY <1>4, <1>7 DEF GoodCall

LEMMA SaveThenMoves ==
    ASSUME IInv, NEW c \in Controllers, call[c].pc \notin {"idle", "save"},
           NEW rec \in Record, NEW next \in Steps \ {"gate", "deploy", "judge"},
           RecordOK(call[c].intent, rec), Fits(rec, next),
           Len(rec.evidence) <= Len(call[c].rec.evidence) + 1,
           SaveThen(c, rec, next)
    PROVE  \E k : GoodCall(c, k) /\ At(k) = next /\ k.intent = call[c].intent
                   /\ call' = [call EXCEPT ![c] = k]
<1> DEFINE k == [call[c] EXCEPT !.pc = "save", !.rec = rec, !.then = next]
<1>1. call[c] \in Call
  BY DEF IInv, TypeOK
<1>2. /\ k \in Call
      /\ k.pc = "save" /\ k.rec = rec /\ k.then = next /\ k.intent = call[c].intent
  BY <1>1 DEF Call
<1>3. call' = [call EXCEPT ![c] = k]
  BY DEF SaveThen, IInv, TypeOK
<1> HIDE DEF k
<1>4. GoodCall(c, k) /\ At(k) = next
  BY <1>2, MovedCall
<1> QED
  BY <1>2, <1>3, <1>4

\* A move to a status that promises nothing keeps a record in order.
LEMMA PlainTransition ==
    ASSUME NEW i \in Intents, NEW rec \in Record, TrailOK(rec), NEW r \in Reasons,
           NEW s \in Statuses \ {"approved", "deploying", "verifying", "succeeded"},
           <<rec.status, s>> \in Lifecycle!Edges
    PROVE  /\ Transition(rec, s, r) \in Record
           /\ RecordOK(i, Transition(rec, s, r))
           /\ Transition(rec, s, r).status = s
           /\ Len(Transition(rec, s, r).evidence) = Len(rec.evidence) + 1
<1>1. /\ Transition(rec, s, r) \in Record
      /\ TrailOK(Transition(rec, s, r))
      /\ Transition(rec, s, r).status = s
      /\ Len(Transition(rec, s, r).evidence) = Len(rec.evidence) + 1
  BY TransitionOK
<1> QED
  BY <1>1 DEF RecordOK, Earned

\* The first save of a call on a registered intent.
LEMMA FirstSave ==
    ASSUME IInv, NEW c \in Controllers, NEW i \in Intents, row[i].status # "none",
           NEW rec \in Record, RecordOK(i, rec),
           Len(rec.evidence) <= Len(row[i].evidence) + 1,
           NEW next \in {"idle", "deploy"},
           next = "deploy" => rec.status = "deploying" /\ deploys[c][i] = 0,
           NEW k \in Call,
           k.pc = "save", k.then = next, k.intent = i, k.rec = rec
    PROVE  GoodCall(c, k)
<1>1. At(k) = next
  BY DEF At
<1>2. StatusAt(k)
  BY <1>1 DEF StatusAt
<1>3. CallOK(k)
  BY <1>2 DEF CallOK
<1> QED
  BY <1>1, <1>3 DEF GoodCall

\* The state Opened leaves a call in.
LEMMA OpenedCall ==
    ASSUME NEW i \in Intents, NEW rec \in Record, NEW next \in Steps
    PROVE  /\ Opened(i, rec, next) \in Call
           /\ Opened(i, rec, next).pc = "save" /\ Opened(i, rec, next).then = next
           /\ Opened(i, rec, next).intent = i /\ Opened(i, rec, next).rec = rec
BY DEF Opened, Idle, Call, Steps

-----------------------------------------------------------------------------
(* The invariant holds initially and every action keeps it *)

LEMMA NoRecordTyped ==
    NoRecord \in Record /\ NoRecord.status = "none" /\ NoRecord.evidence = <<>>
<1>1. <<>> \in Seq(Entry)
  BY EmptySeq
<1> QED
  BY <1>1 DEF NoRecord, Record

LEMMA InitIInv == Init => IInv
<1> SUFFICES ASSUME Init PROVE IInv
  OBVIOUS
<1> USE DEF Init
<1>1. NoRecord \in Record /\ NoRecord.status = "none" /\ NoRecord.evidence = <<>>
  BY NoRecordTyped
<1>2. Idle \in Call /\ Idle.pc = "idle"
  BY <1>1 DEF Idle, Call, Steps
<1>3. TypeOK
  BY <1>1, <1>2 DEF TypeOK
<1>4. RowsOK
  BY <1>1 DEF RowsOK
<1>5. CallsOK
  BY <1>2 DEF CallsOK, CallOK
<1>6. DeploysOK
  BY <1>2 DEF DeploysOK, PastApproval
<1>7. KeyIsUnique
  BY <1>1 DEF KeyIsUnique
<1> QED
  BY <1>3, <1>4, <1>5, <1>6, <1>7 DEF IInv

LEMMA SubmitIInv ==
    ASSUME IInv, NEW c \in Controllers, NEW i \in Intents, NEW b \in BOOLEAN,
           Submit(c, i, b)
    PROVE  IInv'
<1> DEFINE rec == [NoRecord EXCEPT !.status = "approval_pending", !.backup = b]
           k == Opened(i, rec, "gate")
<1>1. /\ rec \in Record
      /\ rec.status = "approval_pending" /\ rec.evidence = <<>>
  BY NoRecordTyped DEF Record, Statuses
<1>2. RecordOK(i, rec)
  BY <1>1 DEF RecordOK, TrailOK, Earned
<1>4. call' = [call EXCEPT ![c] = k] /\ UNCHANGED <<durable, cache, deploys>>
  BY DEF Submit
<1> HIDE DEF rec
<1>3. /\ k \in Call
      /\ k.pc = "save" /\ k.then = "gate" /\ k.intent = i /\ k.rec = rec
  <2>1. "gate" \in Steps
    BY DEF Steps
  <2> QED
    BY <1>1, <2>1, OpenedCall
<1> HIDE DEF k
<1>5. At(k) = "gate"
  BY <1>3 DEF At
<1>6. Len(row[i].evidence) \in Nat
  BY LenProperties DEF IInv, TypeOK, Record
<1>7. CallOK(k)
  BY <1>1, <1>2, <1>3, <1>5, <1>6 DEF CallOK, StatusAt
<1>8. GoodCall(c, k)
  BY <1>3, <1>5, <1>7 DEF GoodCall
<1> QED
  BY <1>4, <1>8, CallMoves

LEMMA ApproveIInv ==
    ASSUME IInv, NEW c \in Controllers, NEW i \in Intents,
           NEW d \in {"approved", "rejected", "other_intent"}, Approve(c, i, d)
    PROVE  IInv'
<1> DEFINE rec == Decided(row[i], d)
           k == Opened(i, rec, "idle")
<1>1. row[i].status = "approval_pending" /\ row[i] \in Record /\ RecordOK(i, row[i])
  BY DEF Approve, IInv, TypeOK, RowsOK
<1>2. /\ rec \in Record /\ RecordOK(i, rec)
      /\ Len(rec.evidence) <= Len(row[i].evidence) + 1
  <2>0. Len(row[i].evidence) \in Nat
    BY <1>1, LenProperties DEF Record
  <2>1. CASE d = "approved"
    <3> DEFINE old == [row[i] EXCEPT !.approved = TRUE]
    <3>1. /\ old \in Record /\ old.approved = TRUE
          /\ old.status = "approval_pending" /\ old.evidence = row[i].evidence
      BY <1>1 DEF Record
    <3>2. TrailOK(old)
      BY <1>1, <3>1 DEF RecordOK, TrailOK
    <3>3. <<old.status, "approved">> \in Lifecycle!Edges
      BY <3>1 DEF Lifecycle!Edges
    <3> HIDE DEF old
    <3>4. rec = Transition(old, "approved", "approval_accepted")
      BY <2>1 DEF Decided, old
    <3>5. "approval_accepted" \in Reasons
      BY DEF Reasons
    <3>6. /\ rec \in Record /\ TrailOK(rec) /\ rec.status = "approved" /\ rec.approved
          /\ Len(rec.evidence) = Len(row[i].evidence) + 1
      BY <3>1, <3>2, <3>3, <3>4, <3>5, TransitionOK
    <3> QED
      BY <2>0, <3>6 DEF RecordOK, Earned
  <2>2. CASE d # "approved"
    <3>1. PICK r \in Reasons : rec = Transition(row[i], "denied", r)
      BY <2>2 DEF Decided, Reasons
    <3>2. <<row[i].status, "denied">> \in Lifecycle!Edges
      BY <1>1 DEF Lifecycle!Edges
    <3>3. "denied" \in Statuses \ {"approved", "deploying", "verifying", "succeeded"}
      BY DEF Statuses, Terminal
    <3>4. TrailOK(row[i])
      BY <1>1 DEF RecordOK
    <3> QED
      BY <1>1, <2>0, <3>1, <3>2, <3>3, <3>4, PlainTransition
  <2> QED
    BY <2>1, <2>2
<1>3. call' = [call EXCEPT ![c] = k] /\ UNCHANGED <<durable, cache, deploys>>
  BY DEF Approve
<1> HIDE DEF rec
<1>4. GoodCall(c, k)
  <2>1. "idle" \in Steps
    BY DEF Steps
  <2>2. k \in Call /\ k.pc = "save" /\ k.then = "idle" /\ k.intent = i /\ k.rec = rec
    BY <1>2, <2>1, OpenedCall
  <2> HIDE DEF k
  <2> QED
    BY <1>1, <1>2, <2>2, FirstSave
<1> HIDE DEF k
<1> QED
  BY <1>3, <1>4, CallMoves

\* execute begins with a save of rec.
LEMMA BeginIInv ==
    ASSUME IInv, NEW c \in Controllers, NEW i \in Intents, row[i].status # "none",
           NEW rec \in Record, RecordOK(i, rec),
           Len(rec.evidence) <= Len(row[i].evidence) + 1,
           NEW next \in {"idle", "deploy"},
           next = "deploy" => rec.status = "deploying" /\ deploys[c][i] = 0,
           Begin(c, i, rec, next)
    PROVE  IInv'
<1> DEFINE o == Opened(i, rec, next)
           k == [o EXCEPT !.barred = stop \/ CredOf[i] \in revoked]
<1>1. call' = [call EXCEPT ![c] = k] /\ UNCHANGED <<durable, cache, deploys>>
  BY DEF Begin
<1>2. next \in Steps
  BY DEF Steps
<1>3. o \in Call /\ o.pc = "save" /\ o.then = next /\ o.intent = i /\ o.rec = rec
  BY <1>2, OpenedCall
<1> HIDE DEF o
<1>4. (stop \/ CredOf[i] \in revoked) \in BOOLEAN
  BY DEF IInv, TypeOK
<1>5. k \in Call /\ k.pc = "save" /\ k.then = next /\ k.intent = i /\ k.rec = rec
  BY <1>3, <1>4 DEF Call
<1> HIDE DEF k
<1>6. GoodCall(c, k)
  BY <1>5, FirstSave
<1> QED
  BY <1>1, <1>6, CallMoves

\* execute gives up on a record: a move to a status that promises nothing.
LEMMA GiveUpIInv ==
    ASSUME IInv, NEW c \in Controllers, NEW i \in Intents,
           NEW s \in {"denied", "emergency_stopped", "failed"}, NEW r \in Reasons,
           <<row[i].status, s>> \in Lifecycle!Edges,
           Begin(c, i, Transition(row[i], s, r), "idle")
    PROVE  IInv'
<1>1. row[i].status # "none"
  BY DEF Lifecycle!Edges
<1>2. row[i] \in Record /\ TrailOK(row[i])
  BY <1>1 DEF IInv, TypeOK, RowsOK, RecordOK
<1>3. s \in Statuses \ {"approved", "deploying", "verifying", "succeeded"}
  BY DEF Statuses, Terminal
<1>4. /\ Transition(row[i], s, r) \in Record
      /\ RecordOK(i, Transition(row[i], s, r))
      /\ Len(Transition(row[i], s, r).evidence) = Len(row[i].evidence) + 1
  BY <1>2, <1>3, PlainTransition
<1>5. Len(row[i].evidence) \in Nat
  BY <1>2, LenProperties DEF Record
<1> QED
  BY <1>1, <1>4, <1>5, BeginIInv

LEMMA ExecuteRefusalsIInv ==
    ASSUME IInv, NEW c \in Controllers, NEW i \in Intents,
           ExecuteInFlight(c, i) \/ ExecuteUnapproved(c, i) \/ ExecuteRefused(c, i)
    PROVE  IInv'
<1>1. CASE ExecuteInFlight(c, i)
  <2>1. <<row[i].status, "failed">> \in Lifecycle!Edges
    BY <1>1 DEF ExecuteInFlight, InFlight, Lifecycle!Edges
  <2>2. "restart_recovery_required" \in Reasons
    BY DEF Reasons
  <2> QED
    BY <1>1, <2>1, <2>2, GiveUpIInv DEF ExecuteInFlight
<1>2. CASE ExecuteUnapproved(c, i)
  <2>1. <<row[i].status, "denied">> \in Lifecycle!Edges
    BY <1>2 DEF ExecuteUnapproved, Lifecycle!Edges
  <2>2. "approval_required" \in Reasons
    BY DEF Reasons
  <2> QED
    BY <1>2, <2>1, <2>2, GiveUpIInv DEF ExecuteUnapproved
<1>3. CASE ExecuteRefused(c, i)
  <2>1. /\ <<row[i].status, "denied">> \in Lifecycle!Edges
        /\ <<row[i].status, "emergency_stopped">> \in Lifecycle!Edges
    BY <1>3 DEF ExecuteRefused, Lifecycle!Edges
  <2>2. /\ "emergency_stop_active" \in Reasons /\ "credential_revoked" \in Reasons
        /\ "verified_preproduction_environment_required" \in Reasons
    BY DEF Reasons
  <2>3. PICK s \in {"denied", "emergency_stopped"}, r \in Reasons :
            Begin(c, i, Transition(row[i], s, r), "idle")
    BY <1>3, <2>2 DEF ExecuteRefused
  <2> QED
    BY <2>1, <2>3, GiveUpIInv
<1> QED
  BY <1>1, <1>2, <1>3

LEMMA ExecuteStartIInv ==
    ASSUME IInv, NEW c \in Controllers, NEW i \in Intents, ExecuteStart(c, i)
    PROVE  IInv'
<1> DEFINE rec == Transition(row[i], "deploying", "deployment_started")
<1>1. row[i].status = "approved" /\ Authoritative(i) /\ Begin(c, i, rec, "deploy")
  BY DEF ExecuteStart
<1>2. row[i] \in Record /\ TrailOK(row[i]) /\ row[i].approved
  BY <1>1 DEF IInv, TypeOK, RowsOK, RecordOK, Earned
<1>3. <<row[i].status, "deploying">> \in Lifecycle!Edges
  BY <1>1 DEF Lifecycle!Edges
<1>4. "deployment_started" \in Reasons
  BY DEF Reasons
<1>5. /\ rec \in Record /\ TrailOK(rec) /\ rec.status = "deploying" /\ rec.approved
      /\ Len(rec.evidence) = Len(row[i].evidence) + 1
  BY <1>2, <1>3, <1>4, TransitionOK
<1> HIDE DEF rec
<1>6. RecordOK(i, rec)
  BY <1>1, <1>5 DEF RecordOK, Earned
<1>7. Len(row[i].evidence) \in Nat
  BY <1>2, LenProperties DEF Record
<1>8. deploys[c][i] = 0
  BY <1>1 DEF IInv, TypeOK, DeploysOK, PastApproval
<1> QED
  BY <1>1, <1>5, <1>6, <1>7, <1>8, BeginIInv

-----------------------------------------------------------------------------
(* The later steps of a call *)

\* What is known of a call that is past its first save.
LEMMA InProgress ==
    ASSUME IInv, NEW c \in Controllers, call[c].pc \notin {"idle", "save"}
    PROVE  /\ call[c] \in Call
           /\ call[c].intent \in Intents /\ call[c].rec \in Record
           /\ RecordOK(call[c].intent, call[c].rec) /\ TrailOK(call[c].rec)
           /\ StatusAt(call[c]) /\ At(call[c]) = call[c].pc
           /\ Len(call[c].rec.evidence) \in Nat
<1>1. call[c] \in Call /\ CallOK(call[c])
  BY DEF IInv, TypeOK, CallsOK
<1>2. /\ call[c].intent \in Intents /\ call[c].rec \in Record
      /\ RecordOK(call[c].intent, call[c].rec) /\ StatusAt(call[c])
  BY <1>1 DEF CallOK, Call
<1>3. Len(call[c].rec.evidence) \in Nat
  BY <1>2, LenProperties DEF Record
<1> QED
  BY <1>1, <1>2, <1>3 DEF RecordOK, At

\* A step that saves a plain transition of the record, and is then done or
\* rolls back.
LEMMA PlainStep ==
    ASSUME IInv, NEW c \in Controllers, call[c].pc \notin {"idle", "save"},
           NEW rec \in Record, TrailOK(rec),
           Len(rec.evidence) = Len(call[c].rec.evidence),
           NEW r \in Reasons,
           NEW s \in Statuses \ {"approved", "deploying", "verifying", "succeeded"},
           <<rec.status, s>> \in Lifecycle!Edges,
           NEW next \in {"idle", "rollback"},
           next = "rollback" => s = "rolling_back",
           SaveThen(c, Transition(rec, s, r), next)
    PROVE  \E k : GoodCall(c, k) /\ At(k) # "deploy" /\ k.intent = call[c].intent
                   /\ call' = [call EXCEPT ![c] = k]
<1>1. /\ call[c] \in Call /\ call[c].intent \in Intents
      /\ Len(call[c].rec.evidence) \in Nat
  BY InProgress
<1>2. \A i \in Intents : RecordOK(i, Transition(rec, s, r))
  BY PlainTransition
<1>3. PICK new : /\ new = Transition(rec, s, r) /\ new \in Record
                 /\ new.status = s /\ Len(new.evidence) = Len(rec.evidence) + 1
                 /\ RecordOK(call[c].intent, new) /\ SaveThen(c, new, next)
  BY <1>1, <1>2, TransitionOK
<1>4. next \in Steps \ {"gate", "deploy", "judge"}
  BY DEF Steps
<1>5. Len(new.evidence) <= Len(call[c].rec.evidence) + 1
  BY <1>1, <1>3
<1>6. Fits(new, next)
  BY <1>3 DEF Fits
<1>7. \E k : GoodCall(c, k) /\ At(k) = next /\ k.intent = call[c].intent
             /\ call' = [call EXCEPT ![c] = k]
  BY <1>3, <1>4, <1>5, <1>6, SaveThenMoves
<1> QED
  BY <1>7

LEMMA GateIInv ==
    ASSUME IInv, NEW c \in Controllers, Gate(c)
    PROVE  IInv'
<1> DEFINE rec == call[c].rec
           o == GateOutcome(c, call[c].intent, rec.backup)
<1>1. /\ call[c].pc = "gate" /\ SaveThen(c, Transition(rec, o[1], o[2]), "idle")
      /\ UNCHANGED <<durable, cache, deploys>>
  BY DEF Gate, Finish
<1>2. /\ rec \in Record /\ TrailOK(rec) /\ rec.status = "approval_pending"
  BY <1>1, InProgress DEF StatusAt
<1>3. /\ o[1] \in {"emergency_stopped", "denied", "approval_pending"}
      /\ o[2] \in Reasons
  BY DEF GateOutcome, Reasons
<1> HIDE DEF o
<1>4. /\ o[1] \in Statuses \ {"approved", "deploying", "verifying", "succeeded"}
      /\ <<rec.status, o[1]>> \in Lifecycle!Edges
  BY <1>2, <1>3 DEF Statuses, Terminal, Lifecycle!Edges
<1>5. PICK k : GoodCall(c, k) /\ call' = [call EXCEPT ![c] = k]
  BY <1>1, <1>2, <1>3, <1>4, PlainStep
<1> QED
  BY <1>1, <1>5, CallMoves

LEMMA RollBackMoves ==
    ASSUME IInv, NEW c \in Controllers,
           call[c].pc \in {"identify", "verify", "judge"},
           NEW r \in RollbackReasons, RollBack(c, r)
    PROVE  \E k : GoodCall(c, k) /\ call' = [call EXCEPT ![c] = k]
<1> DEFINE rec == call[c].rec
<1>1. /\ rec \in Record /\ TrailOK(rec) /\ rec.status \in {"deploying", "verifying"}
  BY InProgress DEF StatusAt
<1>2. <<rec.status, "rolling_back">> \in Lifecycle!Edges
  BY <1>1 DEF Lifecycle!Edges
<1>3. r \in Reasons
      /\ "rolling_back" \in Statuses \ {"approved", "deploying", "verifying", "succeeded"}
  BY DEF Reasons, Statuses, InFlight
<1>4. SaveThen(c, Transition(rec, "rolling_back", r), "rollback")
  BY DEF RollBack
<1> QED
  BY <1>1, <1>2, <1>3, <1>4, PlainStep

LEMMA ProviderDeployIInv ==
    ASSUME IInv, NEW c \in Controllers, ProviderDeploy(c)
    PROVE  IInv'
<1> DEFINE rec == call[c].rec
           i == call[c].intent
<1>1. /\ call[c].pc = "deploy" /\ UNCHANGED <<durable, cache>>
      /\ deploys' = [deploys EXCEPT ![c][i] = @ + 1]
  BY DEF ProviderDeploy
<1>2. /\ call[c] \in Call /\ i \in Intents /\ rec \in Record /\ TrailOK(rec)
      /\ RecordOK(i, rec) /\ rec.status = "deploying" /\ Len(rec.evidence) \in Nat
      /\ At(call[c]) = "deploy"
  BY <1>1, InProgress DEF StatusAt
<1>3. \E k : GoodCall(c, k) /\ At(k) # "deploy" /\ k.intent = i
             /\ call' = [call EXCEPT ![c] = k]
  <2>1. CASE Finish(c, Transition(rec, "failed", "provider_deploy_failed"))
    <3>1. SaveThen(c, Transition(rec, "failed", "provider_deploy_failed"), "idle")
      BY <2>1 DEF Finish
    <3>2. /\ "failed" \in Statuses \ {"approved", "deploying", "verifying", "succeeded"}
          /\ "provider_deploy_failed" \in Reasons
      BY DEF Statuses, Terminal, Reasons
    <3>3. <<rec.status, "failed">> \in Lifecycle!Edges
      BY <1>2 DEF Lifecycle!Edges
    <3> QED
      BY <1>1, <1>2, <3>1, <3>2, <3>3, PlainStep
  <2>2. CASE \E d \in {"match", "mismatch"} : SaveThen(c, [rec EXCEPT !.dep = d], "identify")
    <3>1. PICK d \in {"match", "mismatch"} : SaveThen(c, [rec EXCEPT !.dep = d], "identify")
      BY <2>2
    <3> DEFINE new == [rec EXCEPT !.dep = d]
    <3>2. /\ new \in Record /\ new.evidence = rec.evidence /\ new.status = rec.status
          /\ new.approved = rec.approved /\ new.dep = d
      BY <1>2 DEF Record
    <3>3. SaveThen(c, new, "identify")
      BY <3>1
    <3> HIDE DEF new
    <3>4. RecordOK(i, new) /\ Fits(new, "identify")
      BY <1>2, <3>2 DEF RecordOK, TrailOK, Earned, Fits
    <3>5. "identify" \in Steps \ {"gate", "deploy", "judge"}
      BY DEF Steps
    <3> QED
      BY <1>1, <1>2, <3>2, <3>3, <3>4, <3>5, SaveThenMoves
  <2> QED
    BY <2>1, <2>2 DEF ProviderDeploy
<1>4. PICK k : GoodCall(c, k) /\ At(k) # "deploy" /\ k.intent = i
               /\ call' = [call EXCEPT ![c] = k]
  BY <1>3
<1>5. CountsDeploy(c, k)
  <2>1. deploys \in [Controllers -> [Intents -> Nat]]
    BY DEF IInv, TypeOK
  <2>2. deploys[c][i] = 0 /\ PastApproval(i)
    BY <1>1, <1>2 DEF IInv, DeploysOK
  <2> QED
    BY <1>1, <1>2, <1>4, <2>1, <2>2 DEF CountsDeploy
<1> QED
  BY <1>1, <1>4, <1>5, CallMovesCounting

LEMMA IdentifyIInv ==
    ASSUME IInv, NEW c \in Controllers, Identify(c)
    PROVE  IInv'
<1> DEFINE rec == call[c].rec
           new == Transition(rec, "verifying", "deployment_identity_verified")
<1>1. call[c].pc = "identify" /\ UNCHANGED <<durable, cache, deploys>>
  BY DEF Identify
<1>2. CASE rec.dep = "mismatch"
  <2>1. RollBack(c, "provider_identity_mismatch")
    BY <1>2 DEF Identify
  <2> QED
    BY <1>1, <2>1, RollBackMoves, CallMoves DEF RollbackReasons
<1>3. CASE rec.dep = "match"
  <2>1. SaveThen(c, new, "verify")
    BY <1>3 DEF Identify
  <2>2. /\ rec \in Record /\ TrailOK(rec) /\ rec.status = "deploying"
        /\ call[c].intent \in Intents
        /\ RecordOK(call[c].intent, rec) /\ Len(rec.evidence) \in Nat
    BY <1>1, InProgress DEF StatusAt
  <2>3. <<rec.status, "verifying">> \in Lifecycle!Edges
        /\ "deployment_identity_verified" \in Reasons
    BY <2>2 DEF Lifecycle!Edges, Reasons
  <2>4. /\ new \in Record /\ TrailOK(new) /\ new.status = "verifying"
        /\ Len(new.evidence) = Len(rec.evidence) + 1
        /\ new.approved = rec.approved /\ new.dep = rec.dep
    BY <2>2, <2>3, TransitionOK
  <2> HIDE DEF new
  <2>5. RecordOK(call[c].intent, new) /\ Fits(new, "verify")
    BY <1>3, <2>2, <2>4 DEF RecordOK, Earned, Fits
  <2>6. "verify" \in Steps \ {"gate", "deploy", "judge"}
    BY DEF Steps
  <2>7. \E k : GoodCall(c, k) /\ call' = [call EXCEPT ![c] = k]
    BY <1>1, <2>1, <2>2, <2>4, <2>5, <2>6, SaveThenMoves
  <2> QED
    BY <1>1, <2>7, CallMoves
<1>4. rec.dep \in {"match", "mismatch"}
  BY <1>1, InProgress DEF StatusAt, Record
<1> QED
  BY <1>2, <1>3, <1>4

LEMMA ProviderVerifyIInv ==
    ASSUME IInv, NEW c \in Controllers, ProviderVerify(c)
    PROVE  IInv'
<1>1. call[c].pc = "verify" /\ UNCHANGED <<durable, cache, deploys>>
  BY DEF ProviderVerify
<1>2. CASE RollBack(c, "verification_provider_failed")
  <2>1. "verification_provider_failed" \in RollbackReasons
    BY DEF RollbackReasons, VerifyFailures
  <2> QED
    BY <1>1, <1>2, <2>1, RollBackMoves, CallMoves
<1>3. CASE \E v \in {"passed", "verification_identity_mismatch",
                     "post_deploy_verification_failed"} :
             call' = [call EXCEPT ![c].pc = "save", ![c].then = "judge", ![c].verdict = v]
  <2>1. PICK v \in {"passed"} \cup VerifyFailures :
             call' = [call EXCEPT ![c].pc = "save", ![c].then = "judge", ![c].verdict = v]
    BY <1>3 DEF VerifyFailures
  <2> DEFINE k == [call[c] EXCEPT !.pc = "save", !.then = "judge", !.verdict = v]
  <2>2. /\ call[c] \in Call /\ call[c].rec \in Record /\ call[c].intent \in Intents
        /\ RecordOK(call[c].intent, call[c].rec) /\ call[c].rec.status = "verifying"
        /\ Len(call[c].rec.evidence) \in Nat
    BY <1>1, InProgress DEF StatusAt
  <2>3. "judge" \in Steps \ {"gate", "deploy"} /\ Fits(call[c].rec, "judge")
    BY <2>2 DEF Steps, Fits
  <2>4. /\ k \in Call /\ k.pc = "save" /\ k.then = "judge"
        /\ k.rec = call[c].rec /\ k.intent = call[c].intent /\ k.verdict = v
    BY <2>2, <2>3 DEF Call
  <2>5. call' = [call EXCEPT ![c] = k]
    BY <2>1 DEF IInv, TypeOK
  <2> HIDE DEF k
  <2>6. v # "none"
    BY DEF VerifyFailures
  <2>7. GoodCall(c, k)
    BY <1>1, <2>2, <2>3, <2>4, <2>6, MovedCall
  <2> QED
    BY <1>1, <2>5, <2>7, CallMoves
<1> QED
  BY <1>2, <1>3 DEF ProviderVerify

LEMMA JudgeIInv ==
    ASSUME IInv, NEW c \in Controllers, Judge(c)
    PROVE  IInv'
<1> DEFINE rec == call[c].rec
           old == [rec EXCEPT !.verified = "passed"]
           new == Transition(old, "succeeded", "post_deploy_verification_passed")
<1>1. call[c].pc = "judge" /\ UNCHANGED <<durable, cache, deploys>>
  BY DEF Judge
<1>2. /\ call[c] \in Call /\ rec \in Record /\ TrailOK(rec) /\ rec.status = "verifying"
      /\ call[c].intent \in Intents
      /\ RecordOK(call[c].intent, rec) /\ Len(rec.evidence) \in Nat
  BY <1>1, InProgress DEF StatusAt
<1>3. CASE call[c].verdict = "passed"
  <2>1. SaveThen(c, new, "idle")
    BY <1>3 DEF Judge, Finish
  <2>2. /\ old \in Record /\ old.evidence = rec.evidence /\ old.status = rec.status
        /\ old.approved = rec.approved /\ old.dep = rec.dep /\ old.verified = "passed"
    BY <1>2 DEF Record
  <2> HIDE DEF old
  <2>3. TrailOK(old)
    BY <1>2, <2>2 DEF TrailOK
  <2>4. /\ <<old.status, "succeeded">> \in Lifecycle!Edges
        /\ "post_deploy_verification_passed" \in Reasons
    BY <1>2, <2>2 DEF Lifecycle!Edges, Reasons
  <2>5. /\ new \in Record /\ TrailOK(new) /\ new.status = "succeeded"
        /\ Len(new.evidence) = Len(old.evidence) + 1
        /\ new.approved = old.approved /\ new.dep = old.dep /\ new.verified = old.verified
    BY <2>2, <2>3, <2>4, TransitionOK
  <2> HIDE DEF new
  <2>6. RecordOK(call[c].intent, new) /\ Fits(new, "idle")
    BY <1>2, <2>2, <2>5 DEF RecordOK, Earned, Fits
  <2>7. "idle" \in Steps \ {"gate", "deploy", "judge"}
    BY DEF Steps
  <2>8. Len(new.evidence) <= Len(rec.evidence) + 1
    BY <1>2, <2>2, <2>5
  <2>9. \E k : GoodCall(c, k) /\ call' = [call EXCEPT ![c] = k]
    BY <1>1, <2>1, <2>5, <2>6, <2>7, <2>8, SaveThenMoves
  <2> QED
    BY <1>1, <2>9, CallMoves
<1>4. CASE call[c].verdict # "passed" /\ call[c].verdict # "none"
  <2>1. RollBack(c, call[c].verdict)
    BY <1>4 DEF Judge
  <2>2. call[c].verdict \in RollbackReasons
    BY <1>2, <1>4 DEF Call, RollbackReasons
  <2> QED
    BY <1>1, <2>1, <2>2, RollBackMoves, CallMoves
<1>5. call[c].verdict # "none"
  BY <1>1, InProgress DEF StatusAt
<1> QED
  BY <1>3, <1>4, <1>5

LEMMA ProviderRollbackIInv ==
    ASSUME IInv, NEW c \in Controllers, ProviderRollback(c)
    PROVE  IInv'
<1> DEFINE rec == call[c].rec
           cause == rec.evidence[Len(rec.evidence)].reason
           failed == [rec EXCEPT !.rolledBack = "no"]
           done == [rec EXCEPT !.rolledBack = "yes", !.verified = "failed"]
<1>1. call[c].pc = "rollback" /\ UNCHANGED <<durable, cache, deploys>>
  BY DEF ProviderRollback
<1>2. /\ rec \in Record /\ TrailOK(rec) /\ rec.status = "rolling_back"
      /\ Len(rec.evidence) \in Nat
  BY <1>1, InProgress DEF StatusAt
<1>3. cause \in Reasons
  <2>1. rec.evidence # <<>> /\ rec.evidence \in Seq(Entry)
    BY <1>2 DEF TrailOK, Record
  <2>2. rec.evidence[Len(rec.evidence)] \in Entry
    BY <1>2, <2>1, EmptySeq
  <2> QED
    BY <2>2 DEF Entry
<1>4. /\ failed \in Record /\ failed.evidence = rec.evidence /\ failed.status = rec.status
      /\ done \in Record /\ done.evidence = rec.evidence /\ done.status = rec.status
  BY <1>2 DEF Record
<1>5. PICK r \in Reasons, old \in {failed, done}, s \in {"rollback_failed", "rolled_back"} :
          SaveThen(c, Transition(old, s, r), "idle")
  <2>1. /\ "rollback_failed" \in Reasons
        /\ "rollback_identity_or_execution_failed" \in Reasons
    BY DEF Reasons
  <2> QED
    BY <1>3, <2>1 DEF ProviderRollback, Finish
<1> HIDE DEF failed, done
<1>6. /\ old \in Record /\ TrailOK(old) /\ Len(old.evidence) = Len(rec.evidence)
      /\ <<old.status, s>> \in Lifecycle!Edges
  <2>1. old \in Record /\ old.evidence = rec.evidence /\ old.status = rec.status
    BY <1>4
  <2>2. TrailOK(old)
    BY <1>2, <2>1 DEF TrailOK
  <2>3. <<old.status, s>> \in Lifecycle!Edges
    BY <1>2, <2>1 DEF Lifecycle!Edges
  <2> QED
    BY <2>1, <2>2, <2>3
<1>7. s \in Statuses \ {"approved", "deploying", "verifying", "succeeded"}
  BY DEF Statuses, Terminal
<1>8. \E k : GoodCall(c, k) /\ call' = [call EXCEPT ![c] = k]
  BY <1>1, <1>5, <1>6, <1>7, PlainStep
<1> QED
  BY <1>1, <1>8, CallMoves

-----------------------------------------------------------------------------
(* The store transaction *)

\* What saving rec does to the record of i, when the store accepts it.
RowMoves(i, rec) ==
    \/ /\ row[i].status = "none" /\ ~KeyTaken(i)
       /\ rec.status = "approval_pending" /\ rec.evidence = <<>>
    \/ row[i].status # "none" /\ (Stays(row[i], rec) \/ Advances(row[i], rec))

\* What is known of a pending save.
LEMMA Pending ==
    ASSUME IInv, NEW c \in Controllers, call[c].pc = "save"
    PROVE  /\ call[c] \in Call /\ CallOK(call[c])
           /\ call[c].intent \in Intents /\ call[c].rec \in Record
           /\ row[call[c].intent] \in Record
           /\ RecordOK(call[c].intent, call[c].rec) /\ TrailOK(call[c].rec)
           /\ StatusAt(call[c]) /\ At(call[c]) = call[c].then
           /\ row[call[c].intent].status = "none" => call[c].then = "gate"
           /\ Len(call[c].rec.evidence) <= Len(row[call[c].intent].evidence) + 1
<1>1. call[c] \in Call /\ CallOK(call[c])
  BY DEF IInv, TypeOK, CallsOK
<1>2. call[c].intent \in Intents /\ RecordOK(call[c].intent, call[c].rec) /\ StatusAt(call[c])
  BY <1>1 DEF CallOK
<1>3. call[c].rec \in Record /\ row[call[c].intent] \in Record
  BY <1>1, <1>2 DEF Call, IInv, TypeOK
<1>4. /\ row[call[c].intent].status = "none" => call[c].then = "gate"
      /\ Len(call[c].rec.evidence) <= Len(row[call[c].intent].evidence) + 1
  BY <1>1 DEF CallOK
<1> QED
  BY <1>1, <1>2, <1>3, <1>4 DEF RecordOK, At

LEMMA AcceptedRow ==
    ASSUME IInv, NEW c \in Controllers, call[c].pc = "save",
           Accepts(call[c].intent, call[c].rec)
    PROVE  RowMoves(call[c].intent, call[c].rec)
<1> DEFINE i == call[c].intent
           rec == call[c].rec
<1>1. CASE row[i].status = "none"
  <2>1. rec.status = "approval_pending" /\ rec.evidence = <<>>
    BY <1>1, Pending DEF StatusAt
  <2> QED
    BY <1>1, <2>1 DEF Accepts, RowMoves
<1>2. CASE row[i].status # "none"
  <2>1. TrailOK(row[i])
    BY <1>2, Pending DEF IInv, RowsOK, RecordOK
  <2>2. Extends(rec.evidence, row[i].evidence)
    BY DEF Accepts
  <2>3. Stays(row[i], rec) \/ Advances(row[i], rec)
    BY <2>1, <2>2, Pending, AcceptedMoves
  <2> QED
    BY <1>2, <2>3 DEF RowMoves
<1> QED
  BY <1>1, <1>2

\* A record that accounts for its status is registered.
LEMMA TrailStatus ==
    ASSUME NEW rec \in Record, TrailOK(rec)
    PROVE  rec.status # "none"
<1>1. CASE rec.evidence = <<>>
  BY <1>1 DEF TrailOK
<1>2. CASE rec.evidence # <<>>
  <2>1. rec.evidence \in Seq(Entry)
    BY DEF Record
  <2>2. rec.evidence[Len(rec.evidence)] \in Entry
    BY <1>2, <2>1, EmptySeq
  <2> QED
    BY <1>2, <2>2 DEF TrailOK, Entry, Statuses, Terminal, InFlight
<1> QED
  BY <1>1, <1>2

\* No accepted save takes a record back before its approval.
LEMMA PastApprovalStable ==
    ASSUME NEW i \in Intents, NEW rec, RowMoves(i, rec), PastApproval(i)
    PROVE  rec.status \notin {"none", "approval_pending", "approved"}
<1>1. CASE Stays(row[i], rec)
  BY <1>1 DEF Stays, PastApproval
<1>2. CASE Advances(row[i], rec)
  BY <1>2 DEF Advances, PastApproval, Lifecycle!Edges
<1> QED
  BY <1>1, <1>2 DEF RowMoves, PastApproval

LEMMA SaveAcceptedIInv ==
    ASSUME IInv, NEW c \in Controllers, call[c].pc = "save",
           Accepts(call[c].intent, call[c].rec),
           row' = [row EXCEPT ![call[c].intent] = call[c].rec],
           call' = IF call[c].then = "idle" THEN [call EXCEPT ![c] = Idle]
                   ELSE [call EXCEPT ![c].pc = call[c].then],
           UNCHANGED <<settings, deploys>>
    PROVE  IInv'
<1> DEFINE i == call[c].intent
           rec == call[c].rec
<1>1. preprod' = preprod /\ stop' = stop /\ revoked' = revoked /\ cache' = cache
      /\ deploys' = deploys
  BY DEF settings
<1>2. /\ call[c] \in Call /\ i \in Intents /\ rec \in Record /\ row[i] \in Record
      /\ RecordOK(i, rec) /\ TrailOK(rec) /\ StatusAt(call[c])
      /\ At(call[c]) = call[c].then /\ RowMoves(i, rec)
  BY Pending, AcceptedRow
<1>3. row' \in [Intents -> Record] /\ row'[i] = rec
      /\ \A j \in Intents \ {i} : row'[j] = row[j]
  BY <1>2 DEF IInv, TypeOK
<1>4. rec.status # "none"
  BY <1>2, TrailStatus
<1>5. /\ Len(rec.evidence) \in Nat /\ Len(row[i].evidence) \in Nat
      /\ Len(row[i].evidence) <= Len(rec.evidence)
  BY <1>2, LenProperties DEF Record, Accepts, Extends
<1>6. Idle \in Call /\ Idle.pc = "idle"
  BY NoRecordTyped DEF Idle, Call, Steps
<1>7. \A d \in Controllers \ {c} : call'[d] = call[d]
  BY DEF IInv, TypeOK
<1> DEFINE k == [call[c] EXCEPT !.pc = call[c].then]
<1>9. /\ k \in Call /\ k.pc = call[c].then /\ k.intent = i /\ k.rec = rec
      /\ k.verdict = call[c].verdict /\ k.pc # "save"
  BY <1>2 DEF Call, Steps
<1>10. call[c].then # "idle" => call' = [call EXCEPT ![c] = k]
  BY DEF IInv, TypeOK
<1> HIDE DEF k
<1>11. call' \in [Controllers -> Call]
       /\ call'[c] = IF call[c].then = "idle" THEN Idle ELSE k
  BY <1>6, <1>9, <1>10 DEF IInv, TypeOK
<1>12. TypeOK'
  BY <1>1, <1>3, <1>11 DEF IInv, TypeOK
<1>13. RowsOK'
  <2> SUFFICES ASSUME NEW j \in Intents
               PROVE  IF row'[j].status = "none" THEN row'[j].evidence = <<>>
                      ELSE RecordOK(j, row[j])'
    BY DEF RowsOK
  <2>1. CASE j = i
    BY <1>1, <1>2, <1>3, <1>4, <2>1 DEF RecordOK, Earned, Authoritative
  <2>2. CASE j # i
    BY <1>1, <1>3, <2>2 DEF IInv, RowsOK, RecordOK, Earned, Authoritative
  <2> QED
    BY <2>1, <2>2
<1>14. ASSUME NEW d \in Controllers PROVE CallOK(call[d])'
  <2>1. CASE d = c /\ call[c].then = "idle"
    BY <1>6, <1>11, <2>1 DEF CallOK
  <2>2. CASE d = c /\ call[c].then # "idle"
    <3>1. call'[d] = k /\ k.intent = i /\ k.rec = rec /\ row'[i] = rec
      BY <1>3, <1>9, <1>11, <2>2
    <3>2. StatusAt(k)
      BY <1>2, <1>9 DEF StatusAt, At
    <3>3. RecordOK(i, k.rec) /\ preprod' = preprod
      BY <1>1, <1>2, <3>1
    <3>4. /\ row'[k.intent].status # "none" /\ k.pc # "save"
          /\ Len(k.rec.evidence) <= Len(row'[k.intent].evidence)
      BY <1>4, <1>5, <1>9, <3>1
    <3> QED
      BY <1>2, <3>1, <3>2, <3>3, <3>4 DEF CallOK, RecordOK, Earned, Authoritative
  <2>3. CASE d # c
    <3>1. call'[d] = call[d] /\ CallOK(call[d])
      BY <1>7, <2>3 DEF IInv, CallsOK
    <3>2. ASSUME call[d].pc # "idle"
          PROVE  /\ row'[call[d].intent].status = "none" =>
                        row[call[d].intent].status = "none"
                 /\ Len(row[call[d].intent].evidence) <= Len(row'[call[d].intent].evidence)
                 /\ Len(row[call[d].intent].evidence) \in Nat
                 /\ Len(row'[call[d].intent].evidence) \in Nat
                 /\ Len(call[d].rec.evidence) \in Nat
      <4>1. call[d].intent \in Intents /\ call[d] \in Call
        BY <3>1, <3>2 DEF CallOK, IInv, TypeOK
      <4>2. /\ row[call[d].intent] \in Record /\ row'[call[d].intent] \in Record
            /\ call[d].rec \in Record
        BY <1>3, <4>1 DEF IInv, TypeOK, Call
      <4>3. /\ Len(row[call[d].intent].evidence) \in Nat
            /\ Len(row'[call[d].intent].evidence) \in Nat
            /\ Len(call[d].rec.evidence) \in Nat
        BY <4>2, LenProperties DEF Record
      <4> QED
        BY <1>3, <1>4, <1>5, <4>1, <4>3
    <3>3. call[d].pc # "idle" => RecordOK(call[d].intent, call[d].rec)
      BY <3>1 DEF CallOK
    <3>4. ASSUME call[d].pc # "idle"
          PROVE  /\ call[d].intent \in Intents
                 /\ StatusAt(call[d])
                 /\ row'[call[d].intent].status = "none"
                       => call[d].pc = "save" /\ call[d].then = "gate"
                 /\ call[d].pc = "save" => Len(call[d].rec.evidence)
                                              <= Len(row'[call[d].intent].evidence) + 1
                 /\ call[d].pc # "save" => Len(call[d].rec.evidence)
                                              <= Len(row'[call[d].intent].evidence)
      <4> DEFINE x == Len(call[d].rec.evidence)
                 y == Len(row[call[d].intent].evidence)
                 z == Len(row'[call[d].intent].evidence)
      <4>1. /\ call[d].intent \in Intents /\ StatusAt(call[d])
            /\ row[call[d].intent].status = "none" => call[d].pc = "save" /\ call[d].then = "gate"
            /\ call[d].pc = "save" => x <= y + 1
            /\ call[d].pc # "save" => x <= y
        BY <3>1, <3>4 DEF CallOK
      <4>2. x \in Nat /\ y \in Nat /\ z \in Nat /\ y <= z
        BY <3>2, <3>4
      <4>3. row'[call[d].intent].status = "none" => row[call[d].intent].status = "none"
        BY <3>2, <3>4
      <4> HIDE DEF x, y, z
      <4>4. /\ call[d].pc = "save" => x <= z + 1
            /\ call[d].pc # "save" => x <= z
        BY <4>1, <4>2
      <4> QED
        BY <4>1, <4>3, <4>4 DEF x, z
    <3> QED
      BY <1>1, <3>1, <3>3, <3>4
         DEF CallOK, RecordOK, Earned, Authoritative
  <2> QED
    BY <2>1, <2>2, <2>3
<1>15. CallsOK'
  BY <1>14 DEF CallsOK
<1>16. ASSUME NEW j \in Intents, PastApproval(j) PROVE PastApproval(j)'
  <2>1. CASE j = i
    BY <1>2, <1>3, <1>16, <2>1, PastApprovalStable DEF PastApproval
  <2>2. CASE j # i
    BY <1>3, <1>16, <2>2 DEF PastApproval
  <2> QED
    BY <2>1, <2>2
<1>17. ASSUME NEW d \in Controllers, NEW j \in Intents
       PROVE  /\ deploys[d][j] <= 1
              /\ deploys[d][j] > 0 => PastApproval(j)'
              /\ call'[d].pc # "idle" /\ call'[d].intent = j /\ At(call'[d]) = "deploy"
                   => deploys[d][j] = 0
              /\ call'[d].pc = "deploy" /\ call'[d].intent = j => PastApproval(j)'
  <2>1. /\ deploys[d][j] <= 1
        /\ deploys[d][j] > 0 => PastApproval(j)'
    BY <1>16 DEF IInv, DeploysOK
  <2>2. CASE d = c /\ call[c].then = "idle"
    BY <1>6, <1>11, <2>1, <2>2
  <2>3. CASE d = c /\ call[c].then # "idle"
    <3>1. call'[d] = k /\ k.pc = call[c].then /\ At(k) = call[c].then
      BY <1>9, <1>11, <2>3 DEF At
    <3>2. call[c].then = "deploy" /\ j = i => PastApproval(j)'
      BY <1>2, <1>3 DEF StatusAt, PastApproval
    <3>3. call[c].then = "deploy" /\ j = i => deploys[d][j] = 0
      BY <1>2, <2>3 DEF IInv, DeploysOK
    <3> QED
      BY <1>9, <2>1, <3>1, <3>2, <3>3
  <2>4. CASE d # c
    BY <1>7, <1>16, <2>1, <2>4 DEF IInv, DeploysOK
  <2> QED
    BY <2>2, <2>3, <2>4
<1>18. DeploysOK'
  BY <1>1, <1>17 DEF DeploysOK, At
<1>19. KeyIsUnique'
  BY <1>2, <1>3 DEF IInv, KeyIsUnique, KeyTaken, RowMoves
<1> QED
  BY <1>12, <1>13, <1>15, <1>18, <1>19 DEF IInv

\* A call that ends, with its save refused or its process dead, keeps the
\* invariant; so does a cache that is replaced.
LEMMA CallEndsIInv ==
    ASSUME IInv, NEW c \in Controllers, call' = [call EXCEPT ![c] = Idle],
           cache' \in [Controllers -> [stop : BOOLEAN, revoked : SUBSET Creds]],
           UNCHANGED <<durable, deploys>>
    PROVE  IInv'
<1>1. /\ row' = row /\ preprod' = preprod /\ stop' = stop /\ revoked' = revoked
      /\ deploys' = deploys
  BY DEF durable
<1>2. Idle \in Call /\ Idle.pc = "idle"
  BY NoRecordTyped DEF Idle, Call, Steps
<1>3. /\ call' \in [Controllers -> Call] /\ call'[c] = Idle
      /\ \A d \in Controllers \ {c} : call'[d] = call[d]
  BY <1>2 DEF IInv, TypeOK
<1>4. TypeOK'
  BY <1>1, <1>3 DEF IInv, TypeOK
<1>5. RowsOK'
  BY <1>1 DEF IInv, RowsOK, RecordOK, Earned, TrailOK, Authoritative
<1>6. CallsOK'
  BY <1>1, <1>2, <1>3 DEF IInv, CallsOK, CallOK, RecordOK, Earned, Authoritative
<1>7. DeploysOK'
  BY <1>1, <1>2, <1>3 DEF IInv, DeploysOK, PastApproval, At
<1>8. KeyIsUnique'
  BY <1>1 DEF IInv, KeyIsUnique
<1> QED
  BY <1>4, <1>5, <1>6, <1>7, <1>8 DEF IInv

LEMMA SaveIInv ==
    ASSUME IInv, NEW c \in Controllers, Save(c)
    PROVE  IInv'
<1>1. call[c].pc = "save" /\ UNCHANGED <<settings, deploys>>
  BY DEF Save
<1>2. CASE Accepts(call[c].intent, call[c].rec)
  BY <1>1, <1>2, SaveAcceptedIInv DEF Save
<1>3. CASE ~Accepts(call[c].intent, call[c].rec)
  <2>1. call' = [call EXCEPT ![c] = Idle] /\ row' = row
    BY <1>3 DEF Save
  <2>2. cache' \in [Controllers -> [stop : BOOLEAN, revoked : SUBSET Creds]]
        /\ UNCHANGED <<durable, deploys>>
    BY <1>1, <2>1 DEF settings, durable, IInv, TypeOK
  <2> QED
    BY <2>1, <2>2, CallEndsIInv
<1> QED
  BY <1>2, <1>3

-----------------------------------------------------------------------------
(* Operators, other services, crashes, and the whole next-state relation *)

\* Rows and calls stay, and pre-production evidence that passed stays passed.
LEMMA OutsideIInv ==
    ASSUME IInv, TypeOK', UNCHANGED <<row, call, deploys>>,
           \A i \in Intents : preprod[i] = "passed" => preprod'[i] = "passed"
    PROVE  IInv'
<1>1. RowsOK'
  BY DEF IInv, RowsOK, RecordOK, Earned, Authoritative
<1>2. CallsOK'
  BY DEF IInv, CallsOK, CallOK, RecordOK, Earned, Authoritative
<1>3. DeploysOK'
  BY DEF IInv, DeploysOK, PastApproval
<1>4. KeyIsUnique'
  BY DEF IInv, KeyIsUnique
<1> QED
  BY <1>1, <1>2, <1>3, <1>4 DEF IInv

LEMMA OperateIInv ==
    ASSUME IInv, NEW c \in Controllers, Operate(c)
    PROVE  IInv'
<1>1. UNCHANGED <<row, preprod, call, deploys>>
  BY DEF Operate, EmergencyStop, RevokeCredential
<1>2. TypeOK'
  <2>1. CASE EmergencyStop(c)
    BY <1>1, <2>1 DEF EmergencyStop, IInv, TypeOK
  <2>2. CASE \E cred \in Creds : RevokeCredential(c, cred)
    <3>1. PICK cred \in Creds : RevokeCredential(c, cred)
      BY <2>2
    <3>2. stop' = stop /\ revoked' \subseteq Creds
      BY <3>1 DEF RevokeCredential, IInv, TypeOK
    <3>3. cache' \in [Controllers -> [stop : BOOLEAN, revoked : SUBSET Creds]]
      BY <3>1 DEF RevokeCredential, IInv, TypeOK
    <3> QED
      BY <1>1, <3>2, <3>3 DEF IInv, TypeOK
  <2> QED
    BY <2>1, <2>2 DEF Operate
<1> QED
  BY <1>1, <1>2, OutsideIInv

LEMMA RecordPreproductionIInv ==
    ASSUME IInv, NEW i \in Intents, NEW o \in {"passed", "failed"}, RecordPreproduction(i, o)
    PROVE  IInv'
<1>1. TypeOK'
  BY DEF RecordPreproduction, IInv, TypeOK
<1>2. \A j \in Intents : preprod[j] = "passed" => preprod'[j] = "passed"
  BY DEF RecordPreproduction, IInv, TypeOK
<1> QED
  BY <1>1, <1>2, OutsideIInv DEF RecordPreproduction

LEMMA RestartIInv ==
    ASSUME IInv, NEW c \in Controllers, Restart(c)
    PROVE  IInv'
<1>1. cache' \in [Controllers -> [stop : BOOLEAN, revoked : SUBSET Creds]]
  BY DEF Restart, IInv, TypeOK
<1> QED
  BY <1>1, CallEndsIInv DEF Restart

LEMMA NextIInv == IInv /\ [Next]_vars => IInv'
<1> SUFFICES ASSUME IInv, [Next]_vars PROVE IInv'
  OBVIOUS
<1>1. ASSUME NEW c \in Controllers, StartCall(c) PROVE IInv'
  <2>1. PICK i \in Intents :
            \/ \E b \in BOOLEAN : Submit(c, i, b)
            \/ \E d \in {"approved", "rejected", "other_intent"} : Approve(c, i, d)
            \/ ExecuteInFlight(c, i) \/ ExecuteUnapproved(c, i)
            \/ ExecuteRefused(c, i) \/ ExecuteStart(c, i)
    BY <1>1 DEF StartCall
  <2>2. CASE \E b \in BOOLEAN : Submit(c, i, b)
    BY <2>2, SubmitIInv
  <2>3. CASE \E d \in {"approved", "rejected", "other_intent"} : Approve(c, i, d)
    BY <2>3, ApproveIInv
  <2>4. CASE ExecuteInFlight(c, i) \/ ExecuteUnapproved(c, i) \/ ExecuteRefused(c, i)
    BY <2>4, ExecuteRefusalsIInv
  <2>5. CASE ExecuteStart(c, i)
    BY <2>5, ExecuteStartIInv
  <2> QED
    BY <2>1, <2>2, <2>3, <2>4, <2>5
<1>2. ASSUME NEW c \in Controllers, Step(c) PROVE IInv'
  BY <1>2, SaveIInv, GateIInv, ProviderDeployIInv, IdentifyIInv, ProviderVerifyIInv,
     JudgeIInv, ProviderRollbackIInv DEF Step
<1>3. ASSUME NEW c \in Controllers, Operate(c) \/ Restart(c) PROVE IInv'
  BY <1>3, OperateIInv, RestartIInv
<1>4. ASSUME NEW i \in Intents, NEW o \in {"passed", "failed"}, RecordPreproduction(i, o)
      PROVE  IInv'
  BY <1>4, RecordPreproductionIInv
<1>5. CASE UNCHANGED vars
  <2>1. UNCHANGED <<row, call, deploys>> /\ preprod' = preprod
        /\ stop' = stop /\ revoked' = revoked /\ cache' = cache
    BY <1>5 DEF vars
  <2>2. TypeOK'
    BY <2>1 DEF IInv, TypeOK
  <2> QED
    BY <2>1, <2>2, OutsideIInv
<1> QED
  BY <1>1, <1>2, <1>3, <1>4, <1>5 DEF Next

\* The inductive invariant holds in every reachable state.
THEOREM InductiveInvariant == Spec => []IInv
<1> QED
  BY InitIInv, NextIInv, PTL DEF Spec

-----------------------------------------------------------------------------
(* The invariants the runs check *)

\* Every variable keeps its type: no sequence of calls, provider answers and
\* crashes writes a status, reason or evidence entry outside its domain.
THEOREM TypeCorrect == Spec => []TypeOK
<1>1. IInv => TypeOK
  BY DEF IInv
<1> QED
  BY <1>1, InductiveInvariant, PTL

\* The audit evidence written by _transition accounts for every durable
\* status, whichever controllers raced and wherever they crashed.
THEOREM AuditIsComplete == Spec => []AuditAccountsForStatus
<1>1. IInv => AuditAccountsForStatus
  BY DEF IInv, RowsOK, RecordOK, TrailOK, AuditAccountsForStatus
<1> QED
  BY <1>1, InductiveInvariant, PTL

\* execute reports success only for an approved intent whose pre-production
\* evidence passed, which the provider identified and which verified.
THEOREM SuccessIsEarned == Spec => []SuccessWasEarned
<1>1. IInv => SuccessWasEarned
  BY DEF IInv, RowsOK, RecordOK, Earned, SuccessWasEarned
<1> QED
  BY <1>1, InductiveInvariant, PTL

\* execute reaches provider.deploy only for an approved and authorised intent
\* whose durable status has left "approved" for good.
THEOREM DeployAuthorised == Spec => []DeployIsAuthorised
<1>1. ASSUME IInv, NEW c \in Controllers, call[c].pc = "deploy"
      PROVE  /\ call[c].rec.approved /\ Authoritative(call[c].intent)
             /\ row[call[c].intent].status \notin {"none", "approval_pending", "approved"}
  <2>1. /\ call[c].intent \in Intents /\ RecordOK(call[c].intent, call[c].rec)
        /\ call[c].rec.status = "deploying"
    BY <1>1, InProgress DEF StatusAt
  <2>2. PastApproval(call[c].intent)
    BY <1>1, <2>1 DEF IInv, DeploysOK
  <2> QED
    BY <2>1, <2>2 DEF RecordOK, Earned, PastApproval
<1>2. IInv => DeployIsAuthorised
  BY <1>1 DEF DeployIsAuthorised
<1> QED
  BY <1>2, InductiveInvariant, PTL

\* One controller never asks the provider twice for the same intent, however
\* often execute is called on it and however often it restarts.
THEOREM DeploysOnce == Spec => []DeployOncePerController
<1>1. IInv => DeployOncePerController
  BY DEF IInv, DeploysOK, DeployOncePerController
<1> QED
  BY <1>1, InductiveInvariant, PTL

\* The idempotency key of a registered intent is its own.
THEOREM KeysUnique == Spec => []KeyIsUnique
<1>1. IInv => KeyIsUnique
  BY DEF IInv
<1> QED
  BY <1>1, InductiveInvariant, PTL

-----------------------------------------------------------------------------
(* What a step may do to the durable records *)

\* Only an accepted save changes a record, and one record at a time.
LEMMA RowStep ==
    ASSUME IInv, [Next]_vars
    PROVE  \/ row' = row
           \/ \E i \in Intents, rec \in Record :
                 RowMoves(i, rec) /\ row' = [row EXCEPT ![i] = rec]
<1>1. ASSUME NEW c \in Controllers, Save(c), row' # row
      PROVE  \E i \in Intents, rec \in Record :
                 RowMoves(i, rec) /\ row' = [row EXCEPT ![i] = rec]
  <2>1. /\ call[c].pc = "save" /\ Accepts(call[c].intent, call[c].rec)
        /\ row' = [row EXCEPT ![call[c].intent] = call[c].rec]
    BY <1>1 DEF Save
  <2>2. RowMoves(call[c].intent, call[c].rec)
    BY <2>1, AcceptedRow
  <2>3. call[c].intent \in Intents /\ call[c].rec \in Record
    BY <2>1, Pending
  <2> QED
    BY <2>1, <2>2, <2>3
<1>2. ASSUME NEW c \in Controllers, StartCall(c) PROVE row' = row
  BY <1>2 DEF StartCall, Submit, Approve, ExecuteInFlight, ExecuteUnapproved,
              ExecuteRefused, ExecuteStart, Begin, durable
<1>3. ASSUME NEW c \in Controllers,
             Gate(c) \/ ProviderDeploy(c) \/ Identify(c) \/ ProviderVerify(c)
               \/ Judge(c) \/ ProviderRollback(c)
      PROVE  row' = row
  BY <1>3
     DEF Gate, ProviderDeploy, Identify, ProviderVerify, Judge, ProviderRollback, durable
<1>4. ASSUME NEW c \in Controllers, Operate(c) \/ Restart(c) PROVE row' = row
  BY <1>4 DEF Operate, EmergencyStop, RevokeCredential, Restart, durable
<1>5. ASSUME NEW i \in Intents, NEW o \in {"passed", "failed"}, RecordPreproduction(i, o)
      PROVE  row' = row
  BY <1>5 DEF RecordPreproduction
<1>6. CASE UNCHANGED vars
  BY <1>6 DEF vars
<1> QED
  BY <1>1, <1>2, <1>3, <1>4, <1>5, <1>6 DEF Next, Step

\* A terminal record keeps its status and its evidence whatever executor or
\* approver saves over it.
THEOREM TerminalRecordsAreFinal == Spec => TerminalIsFinal
<1>1. ASSUME IInv, [Next]_vars, NEW i \in Intents, row[i].status \in Terminal
      PROVE  row'[i].status = row[i].status /\ row'[i].evidence = row[i].evidence
  <2>1. CASE row' = row
    BY <2>1
  <2>2. ASSUME NEW j \in Intents, NEW rec \in Record, RowMoves(j, rec),
               row' = [row EXCEPT ![j] = rec]
        PROVE  row'[i].status = row[i].status /\ row'[i].evidence = row[i].evidence
    <3>1. row'[i] = IF i = j THEN rec ELSE row[i]
      BY <1>1, <2>2 DEF IInv, TypeOK
    <3>2. CASE i # j
      BY <3>1, <3>2
    <3>3. CASE i = j
      <4>1. row[i].status # "none" /\ ~Advances(row[i], rec)
        BY <1>1 DEF Terminal, Advances, Lifecycle!Edges
      <4> QED
        BY <2>2, <3>1, <3>3, <4>1 DEF RowMoves, Stays
    <3> QED
      BY <3>2, <3>3
  <2> QED
    BY <1>1, <2>1, <2>2, RowStep
<1>2. IInv /\ [Next]_vars => [\A i \in Intents : row[i].status \in Terminal =>
          row'[i].status = row[i].status /\ row'[i].evidence = row[i].evidence]_vars
  BY <1>1
<1> QED
  BY <1>2, InductiveInvariant, PTL DEF Spec, TerminalIsFinal

\* The controllers implement the abstract lifecycle of an intent.
THEOREM LifecycleImplemented == Spec => ImplementsLifecycle
<1> DEFINE st == [i \in Intents |-> row[i].status]
           tr == [i \in Intents |-> row[i].evidence]
<1>1. Init => Lifecycle!LifecycleInit
  BY NoRecordTyped DEF Init, Lifecycle!LifecycleInit
<1>2. ASSUME IInv, [Next]_vars
      PROVE  [Lifecycle!LifecycleNext]_(Lifecycle!lifecycleVars)
  <2>1. CASE row' = row
    BY <2>1 DEF Lifecycle!lifecycleVars
  <2>2. ASSUME NEW i \in Intents, NEW rec \in Record, RowMoves(i, rec),
               row' = [row EXCEPT ![i] = rec]
        PROVE  [Lifecycle!LifecycleNext]_(Lifecycle!lifecycleVars)
    <3>1. /\ st' = [st EXCEPT ![i] = rec.status]
          /\ tr' = [tr EXCEPT ![i] = rec.evidence]
          /\ st[i] = row[i].status /\ tr[i] = row[i].evidence
      BY <1>2, <2>2 DEF IInv, TypeOK
    <3>2. CASE row[i].status = "none"
      <4>1. /\ rec.status = "approval_pending" /\ rec.evidence = <<>>
            /\ row[i].evidence = <<>>
        BY <1>2, <2>2, <3>2 DEF RowMoves, IInv, RowsOK
      <4>2. st' = [st EXCEPT ![i] = "approval_pending"] /\ tr' = tr
        BY <3>1, <4>1
      <4>3. Lifecycle!Register(i)
        BY <3>1, <3>2, <4>2 DEF Lifecycle!Register
      <4> QED
        BY <4>3 DEF Lifecycle!LifecycleNext
    <3>3. CASE row[i].status # "none" /\ Stays(row[i], rec)
      <4>1. st' = st /\ tr' = tr
        BY <3>1, <3>3 DEF Stays
      <4> QED
        BY <4>1 DEF Lifecycle!lifecycleVars
    <3>4. CASE row[i].status # "none" /\ Advances(row[i], rec)
      <4>1. <<st[i], rec.status>> \in Lifecycle!Edges
        BY <3>1, <3>4 DEF Advances
      <4>2. PICK r \in Reasons : rec.evidence =
                Append(tr[i], [from |-> st[i], to |-> rec.status, reason |-> r])
        BY <3>1, <3>4 DEF Advances
      <4>3. rec.status \in Terminal \cup InFlight \cup {"approval_pending", "approved"}
        BY <4>1, EdgesTyped DEF Statuses
      <4>4. tr' = [tr EXCEPT ![i] =
                      Append(@, [from |-> st[i], to |-> rec.status, reason |-> r])]
        BY <3>1, <4>2
      <4>5. Lifecycle!Advance(i)
        <5> SUFFICES \E s \in Terminal \cup InFlight \cup {"approval_pending", "approved"} :
                        /\ <<st[i], s>> \in Lifecycle!Edges
                        /\ st' = [st EXCEPT ![i] = s]
                        /\ \E q \in Reasons : tr' = [tr EXCEPT ![i] =
                               Append(@, [from |-> st[i], to |-> s, reason |-> q])]
          BY DEF Lifecycle!Advance, Lifecycle!Terminal, Lifecycle!InFlight, Terminal,
                 InFlight
        <5> HIDE DEF st, tr
        <5> QED
          BY <3>1, <4>1, <4>3, <4>4
      <4> QED
        BY <4>5 DEF Lifecycle!LifecycleNext
    <3> QED
      BY <2>2, <3>2, <3>3, <3>4 DEF RowMoves
  <2> QED
    BY <1>2, <2>1, <2>2, RowStep
<1> QED
  BY <1>1, <1>2, InductiveInvariant, PTL
     DEF Spec, ImplementsLifecycle, Lifecycle!LifecycleSpec

-----------------------------------------------------------------------------
(* The backup gate *)

GateHolds(i, rec) ==
    rec.evidence # <<>> /\ rec.evidence[1].reason = "intent_submitted" =>
        rec.backup /\ Authoritative(i)

\* The gates' own entry, stored or about to be, is as true as when it was made.
GatesHold ==
    /\ \A i \in Intents : GateHolds(i, row[i])
    /\ \A c \in Controllers : GateHolds(call[c].intent, call[c].rec)

\* What comes after the gates leaves their entry the first and adds no other like it.
GoesOn(old, new) ==
    /\ new.backup = old.backup
    /\ \/ new.evidence = old.evidence
       \/ \E e : /\ e.reason # "intent_submitted"
                 /\ new.evidence = Append(old.evidence, e)

LEMMA GoesOnHolds ==
    ASSUME NEW i, NEW old \in Record, NEW new, GoesOn(old, new), GateHolds(i, old)
    PROVE  GateHolds(i, new)
<1>1. CASE new.evidence = old.evidence
  BY <1>1 DEF GoesOn, GateHolds
<1>2. ASSUME NEW e, e.reason # "intent_submitted", new.evidence = Append(old.evidence, e)
      PROVE  GateHolds(i, new)
  <2>1. old.evidence \in Seq(Entry)
    BY DEF Record
  <2>2. CASE old.evidence = <<>>
    <3>1. new.evidence[1] = e
      BY <1>2, <2>2
    <3> QED BY <1>2, <3>1 DEF GateHolds
  <2>3. CASE old.evidence # <<>>
    <3>1. new.evidence[1] = old.evidence[1]
      BY <1>2, <2>1, <2>3
    <3> QED BY <2>3, <3>1 DEF GoesOn, GateHolds
  <2> QED BY <2>2, <2>3
<1> QED BY <1>1, <1>2 DEF GoesOn

LEMMA TransitionGoesOn ==
    ASSUME NEW old \in Record, NEW rec \in Record, rec.backup = old.backup,
           rec.evidence = old.evidence, NEW s, NEW r, r # "intent_submitted"
    PROVE  GoesOn(old, rec) /\ GoesOn(old, Transition(rec, s, r))
<1> DEFINE new == Transition(rec, s, r)
           e == [from |-> rec.status, to |-> s, reason |-> r]
<1>1. new.backup = rec.backup /\ new.evidence = Append(rec.evidence, e)
  BY DEF Transition, Record
<1>2. e.reason # "intent_submitted"
  OBVIOUS
<1> HIDE DEF new, e
<1> QED BY <1>1, <1>2 DEF GoesOn, new

\* One call moves.
LEMMA CallTurns ==
    ASSUME TypeOK, GatesHold, NEW c \in Controllers, NEW k, GateHolds(k.intent, k.rec),
           call' = [call EXCEPT ![c] = k], UNCHANGED <<row, preprod>>
    PROVE  GatesHold'
<1>1. \A i, rec : GateHolds(i, rec)' = GateHolds(i, rec)
  BY DEF GateHolds, Authoritative
<1>2. \A d \in Controllers : call'[d] = IF d = c THEN k ELSE call[d]
  BY DEF TypeOK
<1>3. \A d \in Controllers : GateHolds(call[d].intent, call[d].rec)'
  BY <1>1, <1>2 DEF GatesHold, GateHolds, Authoritative
<1>4. \A i \in Intents : GateHolds(i, row[i])'
  BY <1>1 DEF GatesHold, GateHolds, Authoritative
<1> QED BY <1>3, <1>4 DEF GatesHold

LEMMA SaveThenTurns ==
    ASSUME TypeOK, GatesHold, NEW c \in Controllers, NEW rec, NEW next,
           GateHolds(call[c].intent, rec), SaveThen(c, rec, next), UNCHANGED <<row, preprod>>
    PROVE  GatesHold'
<1> DEFINE k == [call[c] EXCEPT !.pc = "save", !.rec = rec, !.then = next]
<1>1. k.rec = rec /\ k.intent = call[c].intent /\ call' = [call EXCEPT ![c] = k]
  BY DEF SaveThen, TypeOK, Call
<1> HIDE DEF k
<1> QED BY <1>1, CallTurns

LEMMA ApproveGated ==
    ASSUME TypeOK, GatesHold, NEW c \in Controllers, NEW i \in Intents,
           NEW d \in {"approved", "rejected", "other_intent"}, Approve(c, i, d)
    PROVE  GatesHold'
<1> DEFINE rec == Decided(row[i], d)
           k == Opened(i, rec, "idle")
<1>1. row[i] \in Record /\ GateHolds(i, row[i])
  BY DEF TypeOK, GatesHold
<1>2. PICK yes : yes = [row[i] EXCEPT !.approved = TRUE]
  OBVIOUS
<1>3. yes \in Record /\ yes.backup = row[i].backup /\ yes.evidence = row[i].evidence
  BY <1>1, <1>2 DEF Record
<1>4. \/ rec = Transition(row[i], "denied", "approval_identity_mismatch")
      \/ rec = Transition(row[i], "denied", "approval_rejected")
      \/ rec = Transition(yes, "approved", "approval_accepted")
  BY <1>2 DEF Decided
<1>5. GoesOn(row[i], rec)
  BY <1>1, <1>3, <1>4, TransitionGoesOn
<1>6. GateHolds(i, rec)
  BY <1>1, <1>5, GoesOnHolds
<1>7. k.intent = i /\ k.rec = rec
  BY DEF Opened, Idle
<1>8. call' = [call EXCEPT ![c] = k] /\ UNCHANGED <<row, preprod>>
  BY DEF Approve, durable
<1> HIDE DEF k, rec
<1> QED BY <1>6, <1>7, <1>8, CallTurns

LEMMA BeginGated ==
    ASSUME TypeOK, GatesHold, NEW c \in Controllers, NEW i \in Intents, NEW s, NEW r,
           r # "intent_submitted", NEW next, Begin(c, i, Transition(row[i], s, r), next)
    PROVE  GatesHold'
<1> DEFINE rec == Transition(row[i], s, r)
           k == [Opened(i, rec, next) EXCEPT !.barred = stop \/ CredOf[i] \in revoked]
<1>1. row[i] \in Record /\ GateHolds(i, row[i])
  BY DEF TypeOK, GatesHold
<1>2. GateHolds(i, rec)
  BY <1>1, TransitionGoesOn, GoesOnHolds
<1>3. k.intent = i /\ k.rec = rec
  BY DEF Opened, Idle
<1>4. call' = [call EXCEPT ![c] = k] /\ UNCHANGED <<row, preprod>>
  BY DEF Begin, durable
<1> HIDE DEF k, rec
<1> QED BY <1>2, <1>3, <1>4, CallTurns

\* The gates make their entry of a record that has none.
LEMMA GateGated ==
    ASSUME TypeOK, GatesHold, NEW c \in Controllers, Gate(c), call[c].rec.evidence = <<>>
    PROVE  GatesHold'
<1> DEFINE old == call[c].rec
           outcome == GateOutcome(c, call[c].intent, old.backup)
           rec == Transition(old, outcome[1], outcome[2])
<1>1. old \in Record
  BY DEF TypeOK, Call
<1>2. outcome[2] = "intent_submitted" => old.backup /\ Authoritative(call[c].intent)
  BY DEF GateOutcome
<1> HIDE DEF outcome
<1>3. rec.backup = old.backup /\ rec.evidence[1].reason = outcome[2]
  <2>1. rec.evidence = <<[from |-> old.status, to |-> outcome[1], reason |-> outcome[2]]>>
    BY <1>1 DEF Transition, Record
  <2>2. rec.backup = old.backup
    BY <1>1 DEF Transition, Record
  <2> QED BY <2>1, <2>2
<1>4. SaveThen(c, rec, "idle") /\ UNCHANGED <<row, preprod>>
  BY DEF Gate, Finish, durable, outcome
<1> HIDE DEF rec
<1>5. GateHolds(call[c].intent, rec)
  BY <1>2, <1>3 DEF GateHolds
<1> QED BY <1>4, <1>5, SaveThenTurns

\* What follows a deployment changes neither the backup nor the gates' entry.
LEMMA ExecutionGated ==
    ASSUME TypeOK, GatesHold, NEW c \in Controllers, call[c].rec.evidence # <<>>,
           ProviderDeploy(c) \/ Identify(c) \/ ProviderVerify(c) \/ Judge(c) \/ ProviderRollback(c)
    PROVE  GatesHold'
<1> DEFINE old == call[c].rec
<1>1. old \in Record /\ GateHolds(call[c].intent, old) /\ call[c] \in Call
  BY DEF TypeOK, Call, GatesHold
<1>2. UNCHANGED <<row, preprod>>
  BY DEF ProviderDeploy, Identify, ProviderVerify, Judge, ProviderRollback, durable
<1>3. ASSUME NEW rec \in Record, rec.backup = old.backup, rec.evidence = old.evidence,
             NEW s, NEW r, r # "intent_submitted", NEW next,
             SaveThen(c, rec, next) \/ SaveThen(c, Transition(rec, s, r), next)
      PROVE  GatesHold'
  <2>1. GateHolds(call[c].intent, rec) /\ GateHolds(call[c].intent, Transition(rec, s, r))
    BY <1>1, <1>3, TransitionGoesOn, GoesOnHolds
  <2> QED BY <1>2, <1>3, <2>1, SaveThenTurns
<1>4. CASE ProviderDeploy(c)
  <2>1. CASE Finish(c, Transition(old, "failed", "provider_deploy_failed"))
    BY <1>1, <1>3, <2>1 DEF Finish
  <2>2. ASSUME NEW d \in {"match", "mismatch"}, SaveThen(c, [old EXCEPT !.dep = d], "identify")
        PROVE  GatesHold'
    <3>1. PICK rec : rec = [old EXCEPT !.dep = d]
      OBVIOUS
    <3>2. rec \in Record /\ rec.backup = old.backup /\ rec.evidence = old.evidence
      BY <1>1, <3>1 DEF Record
    <3> QED BY <1>3, <2>2, <3>1, <3>2
  <2> QED BY <1>4, <2>1, <2>2 DEF ProviderDeploy
<1>5. CASE Identify(c)
  BY <1>1, <1>3, <1>5 DEF Identify, RollBack
<1>6. CASE ProviderVerify(c)
  <2>1. CASE RollBack(c, "verification_provider_failed")
    BY <1>1, <1>3, <2>1 DEF RollBack
  <2>2. ASSUME NEW v, call' = [call EXCEPT ![c].pc = "save", ![c].then = "judge", ![c].verdict = v]
        PROVE  GatesHold'
    <3>1. PICK k : k = [call[c] EXCEPT !.pc = "save", !.then = "judge", !.verdict = v]
      OBVIOUS
    <3>2. k.intent = call[c].intent /\ k.rec = old /\ call' = [call EXCEPT ![c] = k]
      BY <1>1, <2>2, <3>1 DEF Call, TypeOK
    <3> QED BY <1>1, <1>2, <3>2, CallTurns
  <2> QED BY <1>6, <2>1, <2>2 DEF ProviderVerify
<1>7. CASE Judge(c)
  <2>1. CASE call[c].verdict = "passed"
    <3>1. PICK rec : rec = [old EXCEPT !.verified = "passed"]
      OBVIOUS
    <3>2. rec \in Record /\ rec.backup = old.backup /\ rec.evidence = old.evidence
      BY <1>1, <3>1 DEF Record
    <3> QED BY <1>3, <1>7, <2>1, <3>1, <3>2 DEF Judge, Finish
  <2>2. CASE call[c].verdict # "passed"
    <3>1. call[c].verdict # "intent_submitted"
      BY <1>1 DEF Call, VerifyFailures
    <3> QED BY <1>1, <1>3, <1>7, <2>2, <3>1 DEF Judge, RollBack
  <2> QED BY <2>1, <2>2
<1>8. CASE ProviderRollback(c)
  <2>1. PICK failed : failed = [old EXCEPT !.rolledBack = "no"]
    OBVIOUS
  <2>2. failed \in Record /\ failed.backup = old.backup /\ failed.evidence = old.evidence
    BY <1>1, <2>1 DEF Record
  <2>3. PICK done : done = [old EXCEPT !.rolledBack = "yes", !.verified = "failed"]
    OBVIOUS
  <2>4. done \in Record /\ done.backup = old.backup /\ done.evidence = old.evidence
    BY <1>1, <2>3 DEF Record
  <2>5. CASE SaveThen(c, Transition(failed, "rollback_failed", "rollback_failed"), "idle")
          \/ SaveThen(c, Transition(failed, "rollback_failed",
                                    "rollback_identity_or_execution_failed"), "idle")
    BY <1>3, <2>2, <2>5
  <2>6. ASSUME SaveThen(c, Transition(done, "rolled_back", old.evidence[Len(old.evidence)].reason),
                        "idle")
        PROVE  GatesHold'
    <3>1. PICK rec : rec = Transition(done, "rolled_back", old.evidence[Len(old.evidence)].reason)
      OBVIOUS
    <3>2. rec.backup = old.backup /\ rec.evidence[1] = old.evidence[1]
      BY <2>4, <3>1 DEF Transition, Record
    <3>3. GateHolds(call[c].intent, rec)
      BY <1>1, <3>2 DEF GateHolds
    <3> QED BY <1>2, <2>6, <3>1, <3>3, SaveThenTurns
  <2> QED BY <1>8, <2>1, <2>3, <2>5, <2>6 DEF ProviderRollback, Finish
<1> QED BY <1>4, <1>5, <1>6, <1>7, <1>8

LEMMA GatesStep ==
    ASSUME IInv, GatesHold, [Next]_vars
    PROVE  GatesHold'
<1> USE DEF IInv
<1>2. Idle.rec.evidence = <<>>
  BY NoRecordTyped DEF Idle
<1>3. ASSUME UNCHANGED <<row, preprod, call>>
      PROVE  GatesHold'
  BY <1>3 DEF GatesHold, GateHolds, Authoritative
<1>4. ASSUME NEW c \in Controllers, NEW i \in Intents, NEW b \in BOOLEAN, Submit(c, i, b)
      PROVE  GatesHold'
  <2>1. PICK rec : rec = [NoRecord EXCEPT !.status = "approval_pending", !.backup = b]
    OBVIOUS
  <2>2. rec.evidence = <<>>
    BY <2>1 DEF NoRecord
  <2>3. PICK k : k = Opened(i, rec, "gate")
    OBVIOUS
  <2>4. k.rec = rec
    BY <2>3 DEF Opened, Idle
  <2>5. GateHolds(k.intent, k.rec)
    BY <2>2, <2>4 DEF GateHolds
  <2>6. call' = [call EXCEPT ![c] = k] /\ UNCHANGED <<row, preprod>>
    BY <1>4, <2>1, <2>3 DEF Submit, durable
  <2> QED BY <2>5, <2>6, CallTurns
<1>5. ASSUME NEW c \in Controllers, NEW i \in Intents,
             \/ ExecuteInFlight(c, i) \/ ExecuteUnapproved(c, i)
             \/ ExecuteRefused(c, i) \/ ExecuteStart(c, i)
      PROVE  GatesHold'
  BY <1>5, BeginGated DEF ExecuteInFlight, ExecuteUnapproved, ExecuteRefused, ExecuteStart
<1>6. ASSUME NEW c \in Controllers, Save(c)
      PROVE  GatesHold'
  <2>1. GateHolds(call[c].intent, call[c].rec) /\ call[c] \in Call
    BY DEF GatesHold, TypeOK
  <2>2. PICK k : /\ call' = [call EXCEPT ![c] = k]
                 /\ k = Idle \/ (k.intent = call[c].intent /\ k.rec = call[c].rec)
    <3>1. PICK m : m = [call[c] EXCEPT !.pc = call[c].then]
      OBVIOUS
    <3>2. m.intent = call[c].intent /\ m.rec = call[c].rec
      BY <2>1, <3>1 DEF Call
    <3>3. call' = [call EXCEPT ![c] = Idle] \/ call' = [call EXCEPT ![c] = m]
      BY <1>6, <3>1 DEF Save
    <3> QED BY <3>2, <3>3
  <2>3. GateHolds(k.intent, k.rec)
    BY <1>2, <2>1, <2>2 DEF GateHolds
  <2>4. row' = row \/ row' = [row EXCEPT ![call[c].intent] = call[c].rec]
    BY <1>6 DEF Save
  <2>5. preprod' = preprod
    BY <1>6 DEF Save, settings
  <2>6. \A i \in Intents : GateHolds(i, row'[i])
    BY <2>1, <2>4 DEF GatesHold, TypeOK
  <2>7. \A d \in Controllers : GateHolds(call'[d].intent, call'[d].rec)
    BY <2>2, <2>3 DEF GatesHold, TypeOK
  <2> QED BY <2>5, <2>6, <2>7 DEF GatesHold, GateHolds, Authoritative
<1>7. ASSUME NEW c \in Controllers, Gate(c)
      PROVE  GatesHold'
  <2>1. call[c].rec.evidence = <<>>
    BY <1>7 DEF Gate, CallsOK, CallOK, StatusAt, At
  <2> QED BY <1>7, <2>1, GateGated
<1>8. ASSUME NEW c \in Controllers,
             ProviderDeploy(c) \/ Identify(c) \/ ProviderVerify(c) \/ Judge(c) \/ ProviderRollback(c)
      PROVE  GatesHold'
  <2>1. call[c].rec.evidence # <<>>
    BY <1>8
       DEF ProviderDeploy, Identify, ProviderVerify, Judge, ProviderRollback, CallsOK,
           CallOK, StatusAt, At, RecordOK, TrailOK
  <2> QED BY <1>8, <2>1, ExecutionGated
<1>9. ASSUME NEW c \in Controllers, Restart(c)
      PROVE  GatesHold'
  <2>1. call' = [call EXCEPT ![c] = Idle] /\ UNCHANGED <<row, preprod>>
    BY <1>9 DEF Restart, durable
  <2>2. GateHolds(Idle.intent, Idle.rec)
    BY <1>2 DEF GateHolds
  <2> QED BY <2>1, <2>2, CallTurns
<1>10. ASSUME NEW i \in Intents, NEW o, RecordPreproduction(i, o)
       PROVE  GatesHold'
  <2>1. UNCHANGED <<row, call>>
    BY <1>10 DEF RecordPreproduction
  <2>2. \A j : Authoritative(j) => Authoritative(j)'
    BY <1>10 DEF RecordPreproduction, Authoritative, TypeOK
  <2> QED BY <2>1, <2>2 DEF GatesHold, GateHolds
<1>11. ASSUME NEW c \in Controllers, Operate(c)
       PROVE  GatesHold'
  BY <1>3, <1>11 DEF Operate, EmergencyStop, RevokeCredential
<1> QED BY <1>3, <1>4, <1>5, <1>6, <1>7, <1>8, <1>9, <1>10, <1>11, ApproveGated
        DEF Next, StartCall, Step, vars

\* A record whose submit ran to its end has a verified backup and authoritative
\* pre-production evidence, whoever wrote it last (the gates of submit).
THEOREM GatedRecordsHaveBackup == Spec => []GatedRecordHasBackup
<1>1. Init => GatesHold
  <2>1. NoRecord.evidence = <<>> /\ Idle.rec = NoRecord
    BY NoRecordTyped DEF Idle
  <2> QED BY <2>1 DEF Init, GatesHold, GateHolds
<1>2. IInv /\ GatesHold /\ [Next]_vars => GatesHold'
  BY GatesStep
<1>3. GatesHold => GatedRecordHasBackup
  BY DEF GatesHold, GateHolds, GatedRecordHasBackup
<1> QED BY <1>1, <1>2, <1>3, InductiveInvariant, PTL DEF Spec

-----------------------------------------------------------------------------
(* The emergency stop, when one controller is all there is *)

\* What the controller believes is what is durable, and a call on its way to the
\* provider was not barred when it began.
StopKnown ==
    \A c \in Controllers :
       /\ cache[c].stop = stop /\ cache[c].revoked = revoked
       /\ At(call[c]) = "deploy" => ~call[c].barred

LEMMA StopKnownStep ==
    ASSUME NEW only, Controllers = {only}, TypeOK, StopKnown, [Next]_vars
    PROVE  StopKnown'
<1> DEFINE k == call[only]
           Heard == cache[only].stop = stop /\ cache[only].revoked = revoked
           Free(m) == At(m) = "deploy" => ~m.barred
<1>1. k \in Call /\ Heard /\ Free(k) /\ only \in Controllers
  BY DEF TypeOK, StopKnown
<1>2. ASSUME Heard', Free(k')
      PROVE  StopKnown'
  BY <1>2 DEF StopKnown
<1>3. ASSUME UNCHANGED <<cache, stop, revoked>>, NEW m, call' = [call EXCEPT ![only] = m], Free(m)
      PROVE  StopKnown'
  <2>1. call'[only] = m
    BY <1>1, <1>3 DEF TypeOK
  <2> QED BY <1>1, <1>3, <2>1 DEF StopKnown
<1>4. Idle.pc = "idle"
  BY DEF Idle
<1>5. ASSUME NEW i, NEW rec, NEW next, next # "deploy", call' = [call EXCEPT ![only] = Opened(i, rec, next)],
             UNCHANGED <<cache, stop, revoked>>
      PROVE  StopKnown'
  <2>1. At(Opened(i, rec, next)) = next
    BY DEF At, Opened, Idle
  <2> QED BY <1>3, <1>5, <2>1
<1>6. ASSUME NEW i, Begin(only, i, Transition(row[i], "deploying", "deployment_started"), "deploy"),
             ~cache[only].stop, CredOf[i] \notin cache[only].revoked
      PROVE  StopKnown'
  <2>1. PICK m : m = [Opened(i, Transition(row[i], "deploying", "deployment_started"), "deploy") EXCEPT
                         !.barred = stop \/ CredOf[i] \in revoked]
    OBVIOUS
  <2>2. ~m.barred
    BY <1>1, <1>6, <2>1 DEF Opened, Idle
  <2> QED BY <1>3, <1>6, <2>1, <2>2 DEF Begin, durable
<1>7. ASSUME NEW i, NEW rec, Begin(only, i, rec, "idle")
      PROVE  StopKnown'
  <2>1. PICK m : m = [Opened(i, rec, "idle") EXCEPT !.barred = stop \/ CredOf[i] \in revoked]
    OBVIOUS
  <2>2. At(m) = "idle"
    BY <2>1 DEF At, Opened, Idle
  <2> QED BY <1>3, <1>7, <2>1, <2>2 DEF Begin, durable
<1>8. ASSUME NEW rec, NEW next, next # "deploy", SaveThen(only, rec, next),
             UNCHANGED <<cache, stop, revoked>>
      PROVE  StopKnown'
  <2>1. PICK m : m = [k EXCEPT !.pc = "save", !.rec = rec, !.then = next]
    OBVIOUS
  <2>2. At(m) = next
    BY <1>1, <2>1 DEF At, Call
  <2>3. call' = [call EXCEPT ![only] = m]
    BY <1>8, <2>1 DEF SaveThen
  <2> QED BY <1>3, <1>8, <2>2, <2>3
<1>9. CASE Save(only)
  <2>1. PICK m : m = [k EXCEPT !.pc = k.then]
    OBVIOUS
  <2>2. m.pc = k.then /\ m.barred = k.barred /\ k.then # "save" /\ At(k) = k.then
    BY <1>1, <1>9, <2>1 DEF Call, Steps, Save, At
  <2>3. Free(m) /\ Free(Idle)
    BY <1>1, <1>4, <2>2 DEF At
  <2>4. call' = [call EXCEPT ![only] = Idle] \/ call' = [call EXCEPT ![only] = m]
    BY <1>9, <2>1 DEF Save
  <2> QED BY <1>3, <1>9, <2>3, <2>4 DEF Save, settings
<1>10. CASE \/ Gate(only) \/ ProviderDeploy(only) \/ Identify(only) \/ Judge(only) \/ ProviderRollback(only)
  BY <1>8, <1>10
     DEF Gate, ProviderDeploy, Identify, Judge, ProviderRollback, Finish, RollBack, durable
<1>11. CASE ProviderVerify(only)
  <2>1. CASE RollBack(only, "verification_provider_failed")
    BY <1>8, <1>11, <2>1 DEF ProviderVerify, RollBack, durable
  <2>2. ASSUME NEW v, call' = [call EXCEPT ![only].pc = "save", ![only].then = "judge", ![only].verdict = v]
        PROVE  StopKnown'
    <3>1. PICK m : m = [k EXCEPT !.pc = "save", !.then = "judge", !.verdict = v]
      OBVIOUS
    <3>2. At(m) = "judge"
      BY <1>1, <3>1 DEF At, Call
    <3>3. call' = [call EXCEPT ![only] = m]
      BY <2>2, <3>1
    <3> QED BY <1>3, <1>11, <3>2, <3>3 DEF ProviderVerify, durable
  <2> QED BY <1>11, <2>1, <2>2 DEF ProviderVerify
<1>12. CASE StartCall(only)
  <2>1. ASSUME NEW i \in Intents, NEW b \in BOOLEAN, Submit(only, i, b)
        PROVE  StopKnown'
    BY <1>5, <2>1 DEF Submit, durable
  <2>2. ASSUME NEW i \in Intents, NEW d, Approve(only, i, d)
        PROVE  StopKnown'
    BY <1>5, <2>2 DEF Approve, durable
  <2>3. ASSUME NEW i \in Intents,
               ExecuteInFlight(only, i) \/ ExecuteUnapproved(only, i) \/ ExecuteRefused(only, i)
        PROVE  StopKnown'
    BY <1>7, <2>3 DEF ExecuteInFlight, ExecuteUnapproved, ExecuteRefused
  <2>4. ASSUME NEW i \in Intents, ExecuteStart(only, i)
        PROVE  StopKnown'
    BY <1>6, <2>4 DEF ExecuteStart
  <2> QED BY <1>12, <2>1, <2>2, <2>3, <2>4 DEF StartCall
<1>13. CASE Operate(only)
  <2>1. UNCHANGED call
    BY <1>13 DEF Operate, EmergencyStop, RevokeCredential
  <2>2. Heard'
    <3>1. CASE EmergencyStop(only)
      BY <1>1, <3>1 DEF EmergencyStop, TypeOK
    <3>2. ASSUME NEW cred \in Creds, RevokeCredential(only, cred)
          PROVE  Heard'
      BY <1>1, <3>2 DEF RevokeCredential, TypeOK
    <3> QED BY <1>13, <3>1, <3>2 DEF Operate
  <2> QED BY <1>1, <1>2, <2>1, <2>2 DEF At
<1>14. CASE Restart(only)
  <2>1. call'[only] = Idle /\ Heard'
    BY <1>1, <1>14 DEF Restart, durable, TypeOK
  <2>2. Free(Idle)
    BY <1>4 DEF At
  <2> QED BY <1>2, <2>1, <2>2 DEF At
<1>15. CASE UNCHANGED <<cache, stop, revoked, call>>
  BY <1>15 DEF StopKnown, At
<1>16. ASSUME NEW i \in Intents, NEW o, RecordPreproduction(i, o)
       PROVE  StopKnown'
  BY <1>15, <1>16 DEF RecordPreproduction
<1> QED BY <1>9, <1>10, <1>11, <1>12, <1>13, <1>14, <1>15, <1>16 DEF Next, Step, vars

\* Where one controller is all there is, a stop or a revocation that was durable
\* when execute began keeps it from provider.deploy (load_operations).
THEOREM StopBarsOneController ==
    ASSUME NEW only, Controllers = {only}
    PROVE  Spec => []StopBarsDeploy
<1>1. Init => StopKnown
  <2>1. Idle.pc = "idle"
    BY DEF Idle
  <2>2. At(Idle) = "idle"
    BY <2>1 DEF At
  <2>3. ASSUME Init, NEW c \in Controllers
        PROVE  /\ cache[c].stop = stop /\ cache[c].revoked = revoked
               /\ At(call[c]) = "deploy" => ~call[c].barred
    <3>1. cache[c].stop = stop /\ cache[c].revoked = revoked
      BY <2>3 DEF Init
    <3>2. call[c] = Idle
      BY <2>3 DEF Init
    <3> QED BY <2>2, <3>1, <3>2
  <2> QED BY <2>3 DEF StopKnown
<1>2. TypeOK /\ StopKnown /\ [Next]_vars => StopKnown'
  BY StopKnownStep
<1>3. TypeOK /\ StopKnown => StopBarsDeploy
  BY DEF TypeOK, StopKnown, StopBarsDeploy, At
<1> QED BY <1>1, <1>2, <1>3, TypeCorrect, PTL DEF Spec
=============================================================================
