--------------------------- MODULE ServicesProofs ---------------------------
(***************************************************************************)
(* Theorems about DirectWorker and LinuxSsh, for any processes, run ids,   *)
(* commits, operation ids and bounds, and about the composition of all     *)
(* services that MCServices explores.                                      *)
(*                                                                         *)
(* The worker's invariant says what a process knows while it has the lock  *)
(* (LockOK, RunOK), and that of one run id at most one process is to       *)
(* publish a pass, after the lock as well (PassOK, PassedAlone).  That of  *)
(* the collection says that an operation which was sent has its claim, so  *)
(* no later attempt sends it, and what a collection sent so far is its own *)
(* (SentOK, ClaimsOK, ProgressOK).                                         *)
(***************************************************************************)
EXTENDS MCServices, CredentialVaultProofs, DatabaseOperationsProofs, ReleaseProofs,
        MonitoringProofs, FiniteSetTheorems, SequenceTheorems, TLAPS

-----------------------------------------------------------------------------
(* The direct worker: its inductive invariant *)

LockedSteps == {"seal", "ask", "store", "request_unlock", "load", "claim", "work",
                "apply_unlock"}
WorkerSteps == LockedSteps \cup {"none", "request_lock", "request_clean", "apply_lock",
                                 "apply_clean", "patch", "receipt"}

Completions == [answer : Nat, model : {1, 2}]
RequestDirs == [task : SUBSET Commits, completion : SUBSET Completions]
Invocations == [at : WorkerSteps, run : RunIds, head : Commits, model : {1, 2},
                made : BOOLEAN, answer : Nat, verdict : {"none", "PASS", "FAILED", "raise"}]

WorkerShapes ==
    /\ checkout \in [head : Commits, clean : BOOLEAN] /\ modelFile \in {1, 2}
    /\ requested \in [RunIds -> SUBSET RequestDirs]
    /\ consumed \subseteq RunIds /\ workerLock \subseteq WorkerProcesses
    /\ results \in [RunIds -> [patch : SUBSET Nat,
                               receipt : {"none", "PASS", "FAILED", "torn"}]]
    /\ invocation \in [WorkerProcesses -> Invocations]
    /\ tested \in [RunIds -> Seq(Nat)]
    /\ answered \in Nat /\ invoked \in Nat /\ accidents \in 0..MaxAccidents

\* Answers are numbered as they come, and a request is one directory.
AnswersOK ==
    /\ \A r \in RunIds :
        /\ \A d, e \in requested[r] : d = e
        /\ \A d \in requested[r] : \A c \in d.completion : c.answer <= answered
        /\ \A a \in results[r].patch : a <= answered
    /\ \A p \in WorkerProcesses : invocation[p].answer <= answered

\* The lock has one holder, and no other process is between taking and freeing it.
LockOK == \A p \in WorkerProcesses : invocation[p].at \in LockedSteps => workerLock = {p}

\* An id that is being requested is not consumed; one that is run has just been
\* consumed, had its request, and was never run before.
RunOK(p) ==
    /\ invocation[p].at \in {"seal", "ask", "store", "load", "claim"} => RunOf(p) \notin consumed
    /\ InvocationAt(p, "load") /\ ~invocation[p].made => requested[RunOf(p)] = {}
    /\ invocation[p].at \in {"claim", "work"} => invocation[p].made
    /\ InvocationAt(p, "work") => RunOf(p) \in consumed /\ tested[RunOf(p)] = <<>>
    /\ invocation[p].at \in {"apply_unlock", "apply_clean"} => invocation[p].verdict # "none"
    /\ InvocationAt(p, "patch") => invocation[p].verdict = "PASS"
    /\ InvocationAt(p, "receipt") => invocation[p].verdict \in {"PASS", "FAILED"}

TestedOK ==
    \A r \in RunIds : Len(tested[r]) <= 1 /\ (tested[r] # <<>> => r \in consumed)

\* An application whose answer passed and is not published yet.
Passed(p) ==
    /\ invocation[p].verdict = "PASS"
    /\ invocation[p].at \in {"apply_unlock", "apply_clean", "patch", "receipt"}

\* Nobody has published its run; the request is gone before the patch is
\* written, and the patch is there before the receipt.
PassOK(p) ==
    Passed(p) =>
        /\ invocation[p].made
        /\ tested[RunOf(p)] = <<invocation[p].answer>>
        /\ results[RunOf(p)].receipt # "PASS"
        /\ invocation[p].at \in {"patch", "receipt"} => requested[RunOf(p)] = {}
        /\ InvocationAt(p, "receipt") => results[RunOf(p)].patch = {invocation[p].answer}

PassedAlone ==
    \A p, q \in WorkerProcesses : Passed(p) /\ Passed(q) /\ RunOf(p) = RunOf(q) => p = q

WorkerInv ==
    /\ WorkerShapes /\ AnswersOK
    /\ LockOK /\ TestedOK /\ PassedAlone
    /\ \A p \in WorkerProcesses : RunOK(p) /\ PassOK(p)
    /\ PassesAreWhole

-----------------------------------------------------------------------------
(* The direct worker: a step of one process *)

\* A step of p: what the others do stays, and the lock is taken from nobody.
WorkerStep(p) ==
    /\ invocation' \in [WorkerProcesses -> Invocations]
    /\ \A q \in WorkerProcesses : q # p => invocation'[q] = invocation[q]
    /\ invocation'[p].answer <= answered'
    /\ workerLock' \subseteq WorkerProcesses
    /\ workerLock' = workerLock \/ workerLock \subseteq {p}
    /\ invocation'[p].at \in LockedSteps => workerLock' = {p}
    /\ Passed(p)' => Passed(p) /\ RunOf(p)' = RunOf(p)
    /\ RunOK(p)' /\ PassOK(p)'
    /\ checkout' = checkout /\ modelFile' = modelFile
    /\ answered' \in Nat /\ answered <= answered'
    /\ invoked' \in Nat /\ accidents' \in 0..MaxAccidents

\* Its effect on the request of its run: nothing, or the request goes, or it is
\* written under the lock while the run is not consumed.
RequestStep(p) ==
    /\ UNCHANGED <<consumed, results, tested>>
    /\ \/ UNCHANGED requested
       \/ \E d \in SUBSET RequestDirs :
            /\ requested' = [requested EXCEPT ![RunOf(p)] = d]
            /\ \A e, f \in d : e = f
            /\ \A e \in d : \A c \in e.completion : c.answer <= answered'
            /\ d # {} => RunOf(p) \notin consumed /\ workerLock' = {p}

\* The lock keeps its one holder.
LEMMA LockKept ==
    ASSUME NEW p \in WorkerProcesses, WorkerInv, WorkerStep(p)
    PROVE  LockOK'
BY DEF WorkerInv, LockOK, WorkerStep

\* No second process comes to hold an answer that passed for the same run.
LEMMA AloneKept ==
    ASSUME NEW p \in WorkerProcesses, WorkerInv, WorkerStep(p)
    PROVE  PassedAlone'
BY DEF WorkerInv, PassedAlone, WorkerStep, Passed, RunOf

\* A step that changes no more than the request of its run keeps the invariant.
LEMMA RequestStepKeeps ==
    ASSUME NEW p \in WorkerProcesses, WorkerInv, WorkerStep(p), RequestStep(p)
    PROVE  WorkerInv'
<1>1. LockOK' /\ PassedAlone'
  BY LockKept, AloneKept
<1>2. /\ requested' \in [RunIds -> SUBSET RequestDirs]
      /\ \A r \in RunIds : \A d, e \in requested'[r] : d = e
      /\ \A r \in RunIds : \A d \in requested'[r] : \A c \in d.completion : c.answer <= answered'
  <2>1. CASE UNCHANGED requested
    <3>1. \A r \in RunIds : \A d \in requested[r] : \A c \in d.completion :
             c.answer \in Nat /\ c.answer <= answered
      BY DEF WorkerInv, WorkerShapes, AnswersOK, RequestDirs, Completions
    <3>2. answered \in Nat /\ answered' \in Nat /\ answered <= answered'
      BY DEF WorkerInv, WorkerShapes, WorkerStep
    <3>3. \A r \in RunIds : \A d \in requested[r] : \A c \in d.completion :
             c.answer <= answered'
      BY <3>1, <3>2
    <3>4. QED BY <2>1, <3>3 DEF WorkerInv, WorkerShapes, AnswersOK
  <2>2. CASE ~UNCHANGED requested
    <3>1. PICK d \in SUBSET RequestDirs :
            /\ requested' = [requested EXCEPT ![RunOf(p)] = d]
            /\ \A e, f \in d : e = f
            /\ \A e \in d : \A c \in e.completion : c.answer <= answered'
      BY <2>2 DEF RequestStep
    <3>2. \A r \in RunIds : \A e \in requested[r] : \A c \in e.completion :
             c.answer \in Nat /\ c.answer <= answered
      BY DEF WorkerInv, WorkerShapes, AnswersOK, RequestDirs, Completions
    <3>3. answered \in Nat /\ answered' \in Nat /\ answered <= answered'
      BY DEF WorkerInv, WorkerShapes, WorkerStep
    <3>4. \A r \in RunIds : \A e \in requested[r] : \A c \in e.completion :
             c.answer <= answered'
      BY <3>2, <3>3
    <3>5. /\ requested \in [RunIds -> SUBSET RequestDirs]
          /\ \A r \in RunIds : \A e, f \in requested[r] : e = f
      BY DEF WorkerInv, WorkerShapes, AnswersOK
    <3>6. \A r \in RunIds : requested'[r] = requested[r] \/ requested'[r] = d
      BY <3>1, <3>5
    <3>7. requested' \in [RunIds -> SUBSET RequestDirs]
      BY <3>1, <3>5
    <3>8. QED BY <3>1, <3>4, <3>5, <3>6, <3>7
  <2>3. QED BY <2>1, <2>2
<1>3. \A r \in RunIds : requested'[r] = requested[r] \/ requested'[r] = {}
                        \/ (r \notin consumed /\ r = RunOf(p) /\ workerLock' = {p})
  <2>1. requested \in [RunIds -> SUBSET RequestDirs]
    BY DEF WorkerInv, WorkerShapes
  <2>2. QED BY <2>1 DEF RequestStep
<1>4. WorkerShapes'
  BY <1>2 DEF WorkerInv, WorkerShapes, WorkerStep, RequestStep
<1>5. AnswersOK'
  <2>1. \A r \in RunIds : \A a \in results[r].patch : a \in Nat /\ a <= answered
    BY DEF WorkerInv, WorkerShapes, AnswersOK
  <2>2. \A q \in WorkerProcesses : invocation[q].answer \in Nat /\ invocation[q].answer <= answered
    BY DEF WorkerInv, WorkerShapes, AnswersOK, Invocations
  <2>3. answered \in Nat /\ answered' \in Nat /\ answered <= answered'
    BY DEF WorkerInv, WorkerShapes, WorkerStep
  <2>4. \A r \in RunIds : \A a \in results'[r].patch : a <= answered'
    BY <2>1, <2>3 DEF RequestStep
  <2>5. \A q \in WorkerProcesses : invocation'[q].answer <= answered'
    BY <2>2, <2>3 DEF WorkerStep
  <2>6. QED BY <1>2, <2>4, <2>5 DEF AnswersOK
<1>6. \A q \in WorkerProcesses : RunOK(q)' /\ PassOK(q)'
  <2> SUFFICES ASSUME NEW q \in WorkerProcesses PROVE RunOK(q)' /\ PassOK(q)'
    OBVIOUS
  <2>1. CASE q = p
    BY <2>1 DEF WorkerStep
  <2>2. CASE q # p
    <3>1. /\ invocation'[q] = invocation[q] /\ RunOf(q) \in RunIds
          /\ UNCHANGED <<consumed, results, tested>>
      BY <2>2 DEF WorkerStep, RequestStep, WorkerInv, WorkerShapes, Invocations, RunOf
    <3>2. RunOK(q) /\ PassOK(q)
      BY DEF WorkerInv
    <3>3. invocation[q].at \in LockedSteps => workerLock' = {q}
      BY <1>1, <3>1 DEF LockOK
    <3>4. RunOK(q)'
      BY <1>3, <3>1, <3>2, <3>3, <2>2 DEF RunOK, InvocationAt, RunOf, LockedSteps
    <3>5. Passed(q) => RunOf(q) \in consumed
      BY <3>1, <3>2 DEF PassOK, WorkerInv, TestedOK
    <3>6. PassOK(q)'
      BY <1>3, <3>1, <3>2, <3>5 DEF PassOK, Passed, InvocationAt, RunOf
    <3>7. QED BY <3>4, <3>6
  <2>3. QED BY <2>1, <2>2
<1>7. TestedOK' /\ PassesAreWhole'
  BY <1>3 DEF WorkerInv, TestedOK, PassesAreWhole, RequestStep
<1>8. QED BY <1>1, <1>4, <1>5, <1>6, <1>7 DEF WorkerInv

-----------------------------------------------------------------------------
(* The direct worker: what a step does to the progress of its process *)

\* Only p moved.
Moved(p) ==
    /\ invocation' \in [WorkerProcesses -> Invocations]
    /\ \A q \in WorkerProcesses : q # p => invocation'[q] = invocation[q]

\* Replacing the progress of p moves p alone.
LEMMA InvocationBecomes ==
    ASSUME NEW p \in WorkerProcesses, WorkerInv, NEW i \in Invocations,
           invocation' = [invocation EXCEPT ![p] = i]
    PROVE  Moved(p) /\ invocation'[p] = i
BY DEF Moved, WorkerInv, WorkerShapes

\* What a process is before it starts and after it ends.
LEMMA NoInvocationOK ==
    /\ NoInvocation \in Invocations
    /\ NoInvocation.at = "none" /\ NoInvocation.answer = 0
    /\ NoInvocation.made = FALSE /\ NoInvocation.verdict = "none"
BY WorkerAssumption DEF NoInvocation, Invocations, WorkerSteps

\* Leave ends the process.
LEMMA LeaveOK ==
    ASSUME NEW p \in WorkerProcesses, WorkerInv, Leave(p)
    PROVE  Moved(p) /\ invocation'[p].at = "none" /\ invocation'[p].answer = 0
BY NoInvocationOK, InvocationBecomes DEF Leave

\* Proceed changes the step and nothing else.
LEMMA ProceedOK ==
    ASSUME NEW p \in WorkerProcesses, WorkerInv, NEW at \in WorkerSteps, Proceed(p, at)
    PROVE  /\ Moved(p) /\ invocation'[p].at = at
           /\ invocation'[p].run = invocation[p].run /\ invocation'[p].made = invocation[p].made
           /\ invocation'[p].answer = invocation[p].answer
           /\ invocation'[p].verdict = invocation[p].verdict
<1> DEFINE i == [invocation[p] EXCEPT !.at = at]
<1>1. invocation[p] \in Invocations
  BY DEF WorkerInv, WorkerShapes
<1>2. /\ i \in Invocations /\ i.at = at
      /\ i.run = invocation[p].run /\ i.made = invocation[p].made
      /\ i.answer = invocation[p].answer /\ i.verdict = invocation[p].verdict
  BY <1>1 DEF Invocations
<1>3. invocation' = [invocation EXCEPT ![p] = i]
  BY DEF Proceed
<1> HIDE DEF i
<1>4. QED BY <1>2, <1>3, InvocationBecomes

\* FailTo changes the step and the verdict.
LEMMA FailOK ==
    ASSUME NEW p \in WorkerProcesses, WorkerInv, NEW at \in WorkerSteps, FailTo(p, at)
    PROVE  /\ Moved(p) /\ invocation'[p].at = at
           /\ invocation'[p].run = invocation[p].run /\ invocation'[p].made = invocation[p].made
           /\ invocation'[p].answer = invocation[p].answer
           /\ invocation'[p].verdict = "FAILED"
<1> DEFINE i == [invocation[p] EXCEPT !.at = at, !.verdict = "FAILED"]
<1>1. invocation[p] \in Invocations
  BY DEF WorkerInv, WorkerShapes
<1>2. /\ i \in Invocations /\ i.at = at
      /\ i.run = invocation[p].run /\ i.made = invocation[p].made
      /\ i.answer = invocation[p].answer /\ i.verdict = "FAILED"
  BY <1>1 DEF Invocations
<1>3. invocation' = [invocation EXCEPT ![p] = i]
  BY DEF FailTo
<1> HIDE DEF i
<1>4. QED BY <1>2, <1>3, InvocationBecomes

\* Removing the request of a run is a request step.
LEMMA RequestGone ==
    ASSUME NEW p \in WorkerProcesses, UNCHANGED <<consumed, results, tested>>,
           requested' = [requested EXCEPT ![RunOf(p)] = {}]
    PROVE  RequestStep(p)
<1>1. \E f \in SUBSET RequestDirs :
         /\ requested' = [requested EXCEPT ![RunOf(p)] = f]
         /\ \A e, g \in f : e = g
         /\ \A e \in f : \A c \in e.completion : c.answer <= answered'
         /\ f # {} => RunOf(p) \notin consumed /\ workerLock' = {p}
  <2> WITNESS {} \in SUBSET RequestDirs
  <2> QED OBVIOUS
<1>2. QED BY <1>1 DEF RequestStep

\* A sequence of one is not empty.
LEMMA OneIsSome ==
    ASSUME NEW a
    PROVE  <<a>> # <<>> /\ Len(<<a>>) = 1 /\ <<a>>[1] = a
OBVIOUS

\* A request begins with an id that is not consumed.
LEMMA BeginRequestKeeps ==
    ASSUME NEW p \in WorkerProcesses, NEW r \in RunIds, WorkerInv, BeginRequest(p, r)
    PROVE  WorkerInv'
<1> DEFINE i == [NoInvocation EXCEPT !.at = "request_lock", !.run = r,
                                 !.head = GitStatus.head, !.model = LoadModel]
<1>1. /\ i \in Invocations
      /\ i.at = "request_lock"
      /\ i.answer = 0
  BY NoInvocationOK
     DEF WorkerInv, WorkerShapes, BeginRequest, GitStatus, LoadModel, Invocations,
         WorkerSteps, LockedSteps
<1>2. invocation' = [invocation EXCEPT ![p] = i]
  BY DEF BeginRequest
<1> HIDE DEF i
<1>3. /\ Moved(p)
      /\ invocation'[p].at = "request_lock"
      /\ invocation'[p].answer = 0
  BY <1>1, <1>2, InvocationBecomes
<1>4. WorkerStep(p)
  BY <1>3, WorkerAssumption
     DEF Moved, WorkerStep, WorkerInv, WorkerShapes, BeginRequest, InvocationAt, RunOf,
         Mishap, Passed, RunOK, PassOK, AnswersOK, LockOK, LockedSteps, Invocations
<1>5. RequestStep(p)
  BY DEF RequestStep, BeginRequest
<1>6. QED BY <1>4, <1>5, RequestStepKeeps

\* The lock is held: nothing changes.
LEMMA RequestBusyKeeps ==
    ASSUME NEW p \in WorkerProcesses, WorkerInv, RequestBusy(p)
    PROVE  WorkerInv'
<1>1. Moved(p) /\ invocation'[p].at = "none" /\ invocation'[p].answer = 0
  BY LeaveOK DEF RequestBusy
<1>4. WorkerStep(p)
  BY <1>1, WorkerAssumption
     DEF Moved, WorkerStep, WorkerInv, WorkerShapes, RequestBusy, InvocationAt, RunOf,
         Mishap, Passed, RunOK, PassOK, AnswersOK, LockOK, LockedSteps, Invocations
<1>5. RequestStep(p)
  BY DEF RequestStep, RequestBusy
<1>6. QED BY <1>4, <1>5, RequestStepKeeps

\* A packet is refused.
LEMMA PacketRefusedKeeps ==
    ASSUME NEW p \in WorkerProcesses, WorkerInv, PacketRefused(p)
    PROVE  WorkerInv'
<1>1. /\ Moved(p) /\ invocation'[p].at = "request_unlock"
      /\ invocation'[p].run = invocation[p].run /\ invocation'[p].made = invocation[p].made
      /\ invocation'[p].answer = invocation[p].answer /\ invocation'[p].verdict = "FAILED"
  BY FailOK DEF PacketRefused, WorkerSteps, LockedSteps
<1>4. WorkerStep(p)
  BY <1>1, WorkerAssumption
     DEF Moved, WorkerStep, WorkerInv, WorkerShapes, PacketRefused, InvocationAt, RunOf,
         Mishap, Passed, RunOK, PassOK, AnswersOK, LockOK, LockedSteps, Invocations
<1>5. RequestStep(p)
  BY DEF RequestStep, PacketRefused
<1>6. QED BY <1>4, <1>5, RequestStepKeeps

\* An answer is numbered.
LEMMA ModelAnswersKeeps ==
    ASSUME NEW p \in WorkerProcesses, WorkerInv, ModelAnswers(p)
    PROVE  WorkerInv'
<1> DEFINE n == answered + 1
           i == [invocation[p] EXCEPT !.at = "store", !.answer = n]
<1>0. invocation[p] \in Invocations /\ n \in Nat /\ n = answered + 1
  BY DEF WorkerInv, WorkerShapes
<1> HIDE DEF n
<1>1. /\ i \in Invocations
      /\ i.at = "store"
      /\ i.run = invocation[p].run
      /\ i.answer = answered + 1
  BY <1>0 DEF Invocations, WorkerSteps, LockedSteps
<1>2. invocation' = [invocation EXCEPT ![p] = i]
  BY <1>0 DEF ModelAnswers
<1> HIDE DEF i
<1>3. /\ Moved(p)
      /\ invocation'[p].at = "store"
      /\ invocation'[p].run = invocation[p].run
      /\ invocation'[p].answer = answered + 1
  BY <1>1, <1>2, InvocationBecomes
<1>4. WorkerStep(p)
  BY <1>3, WorkerAssumption
     DEF Moved, WorkerStep, WorkerInv, WorkerShapes, ModelAnswers, InvocationAt, RunOf,
         Mishap, Passed, RunOK, PassOK, AnswersOK, LockOK, LockedSteps, Invocations
<1>5. RequestStep(p)
  BY DEF RequestStep, ModelAnswers
<1>6. QED BY <1>4, <1>5, RequestStepKeeps

\* There is no acceptable answer.
LEMMA ModelFailsKeeps ==
    ASSUME NEW p \in WorkerProcesses, WorkerInv, ModelFails(p)
    PROVE  WorkerInv'
<1>1. /\ Moved(p) /\ invocation'[p].at = "request_unlock"
      /\ invocation'[p].run = invocation[p].run /\ invocation'[p].made = invocation[p].made
      /\ invocation'[p].answer = invocation[p].answer /\ invocation'[p].verdict = "FAILED"
  BY FailOK DEF ModelFails, WorkerSteps, LockedSteps
<1>4. WorkerStep(p)
  BY <1>1, WorkerAssumption
     DEF Moved, WorkerStep, WorkerInv, WorkerShapes, ModelFails, InvocationAt, RunOf,
         Mishap, Passed, RunOK, PassOK, AnswersOK, LockOK, LockedSteps, Invocations
<1>5. RequestStep(p)
  BY DEF RequestStep, ModelFails
<1>6. QED BY <1>4, <1>5, RequestStepKeeps

\* An application begins.
LEMMA BeginApplyKeeps ==
    ASSUME NEW p \in WorkerProcesses, NEW r \in RunIds, WorkerInv, BeginApply(p, r)
    PROVE  WorkerInv'
<1> DEFINE i == [NoInvocation EXCEPT !.at = "apply_lock", !.run = r,
                                 !.head = GitStatus.head]
<1>1. /\ i \in Invocations
      /\ i.at = "apply_lock"
      /\ i.answer = 0
  BY NoInvocationOK
     DEF WorkerInv, WorkerShapes, BeginApply, GitStatus, LoadModel, Invocations,
         WorkerSteps, LockedSteps
<1>2. invocation' = [invocation EXCEPT ![p] = i]
  BY DEF BeginApply
<1> HIDE DEF i
<1>3. /\ Moved(p)
      /\ invocation'[p].at = "apply_lock"
      /\ invocation'[p].answer = 0
  BY <1>1, <1>2, InvocationBecomes
<1>4. WorkerStep(p)
  BY <1>3, WorkerAssumption
     DEF Moved, WorkerStep, WorkerInv, WorkerShapes, BeginApply, InvocationAt, RunOf,
         Mishap, Passed, RunOK, PassOK, AnswersOK, LockOK, LockedSteps, Invocations
<1>5. RequestStep(p)
  BY DEF RequestStep, BeginApply
<1>6. QED BY <1>4, <1>5, RequestStepKeeps

\* The lock is held: the application has failed.
LEMMA ApplyBusyKeeps ==
    ASSUME NEW p \in WorkerProcesses, WorkerInv, ApplyBusy(p)
    PROVE  WorkerInv'
<1>1. /\ Moved(p) /\ invocation'[p].at = "apply_clean"
      /\ invocation'[p].run = invocation[p].run /\ invocation'[p].made = invocation[p].made
      /\ invocation'[p].answer = invocation[p].answer /\ invocation'[p].verdict = "FAILED"
  BY FailOK DEF ApplyBusy, WorkerSteps, LockedSteps
<1>4. WorkerStep(p)
  BY <1>1, WorkerAssumption
     DEF Moved, WorkerStep, WorkerInv, WorkerShapes, ApplyBusy, InvocationAt, RunOf, Mishap,
         Passed, RunOK, PassOK, AnswersOK, LockOK, LockedSteps, Invocations
<1>5. RequestStep(p)
  BY DEF RequestStep, ApplyBusy
<1>6. QED BY <1>4, <1>5, RequestStepKeeps

\* An application frees the lock; what it tested stays its own.
LEMMA UnlockApplyKeeps ==
    ASSUME NEW p \in WorkerProcesses, WorkerInv, UnlockApply(p)
    PROVE  WorkerInv'
<1>1. /\ Moved(p) /\ invocation'[p].at = "apply_clean"
      /\ invocation'[p].run = invocation[p].run /\ invocation'[p].made = invocation[p].made
      /\ invocation'[p].answer = invocation[p].answer /\ invocation'[p].verdict = invocation[p].verdict
  BY ProceedOK DEF UnlockApply, WorkerSteps, LockedSteps
<1>4. WorkerStep(p)
  BY <1>1, WorkerAssumption
     DEF Moved, WorkerStep, WorkerInv, WorkerShapes, UnlockApply, InvocationAt, RunOf,
         Mishap, Passed, RunOK, PassOK, AnswersOK, LockOK, LockedSteps, Invocations
<1>5. RequestStep(p)
  BY DEF RequestStep, UnlockApply
<1>6. QED BY <1>4, <1>5, RequestStepKeeps

\* A cleanup that fails leaves no answer that passed.
LEMMA CleanupFailsKeeps ==
    ASSUME NEW p \in WorkerProcesses, WorkerInv, CleanupFails(p)
    PROVE  WorkerInv'
<1>1. /\ Moved(p) /\ invocation'[p].at = "receipt"
      /\ invocation'[p].run = invocation[p].run /\ invocation'[p].made = invocation[p].made
      /\ invocation'[p].answer = invocation[p].answer /\ invocation'[p].verdict = "FAILED"
  BY FailOK DEF CleanupFails, WorkerSteps, LockedSteps
<1>4. WorkerStep(p)
  BY <1>1, WorkerAssumption
     DEF Moved, WorkerStep, WorkerInv, WorkerShapes, CleanupFails, InvocationAt, RunOf,
         Mishap, Passed, RunOK, PassOK, AnswersOK, LockOK, LockedSteps, Invocations
<1>5. RequestStep(p)
  BY DEF RequestStep, CleanupFails
<1>6. QED BY <1>4, <1>5, RequestStepKeeps

\* A request that failed removes its directory, after the lock is free.
LEMMA CleanRequestKeeps ==
    ASSUME NEW p \in WorkerProcesses, WorkerInv, CleanRequest(p)
    PROVE  WorkerInv'
<1>1. Moved(p) /\ invocation'[p].at = "none" /\ invocation'[p].answer = 0
  BY LeaveOK DEF CleanRequest
<1>2. WorkerStep(p)
  BY <1>1, WorkerAssumption
     DEF Moved, WorkerStep, WorkerInv, WorkerShapes, CleanRequest, InvocationAt, RunOf,
         Passed, RunOK, PassOK, AnswersOK, LockOK, LockedSteps, Invocations
<1>3. RequestStep(p)
  BY RequestGone DEF CleanRequest
<1>4. QED BY <1>2, <1>3, RequestStepKeeps

\* The directory is made under the lock, of an id that is not consumed.
LEMMA LockRequestKeeps ==
    ASSUME NEW p \in WorkerProcesses, WorkerInv, LockRequest(p)
    PROVE  WorkerInv'
<1>1. CASE Unmoved(p) /\ NewRequest(p)
  <2> DEFINE i == [invocation[p] EXCEPT !.at = "seal", !.made = TRUE]
             d == [task |-> {}, completion |-> {}]
  <2>0. invocation[p] \in Invocations
    BY DEF WorkerInv, WorkerShapes
  <2>1. /\ i \in Invocations /\ i.at = "seal" /\ i.run = invocation[p].run
        /\ i.answer = invocation[p].answer
    BY <2>0 DEF Invocations, WorkerSteps, LockedSteps
  <2>2. invocation' = [invocation EXCEPT ![p] = i]
    BY <1>1 DEF LockRequest
  <2>3. Moved(p) /\ invocation'[p] = i
    BY <2>1, <2>2, InvocationBecomes
  <2> HIDE DEF i
  <2>4. WorkerStep(p)
    BY <1>1, <2>1, <2>3
       DEF Moved, WorkerStep, WorkerInv, WorkerShapes, LockRequest, InvocationAt, RunOf,
           Passed, NewRequest, Consumed, RunOK, PassOK, AnswersOK, LockOK, LockedSteps,
           Invocations
  <2>5. /\ {d} \in SUBSET RequestDirs
        /\ requested' = [requested EXCEPT ![RunOf(p)] = {d}]
        /\ \A e \in {d} : \A c \in e.completion : c.answer <= answered'
        /\ RunOf(p) \notin consumed
    BY <1>1 DEF LockRequest, RequestDirs, NewRequest, Consumed
  <2>6. RequestStep(p)
    <3> HIDE DEF d
    <3>1. QED BY <2>5 DEF RequestStep, LockRequest
  <2>7. QED BY <2>4, <2>6, RequestStepKeeps
<1>2. CASE ~(Unmoved(p) /\ NewRequest(p))
  <2>1. /\ Moved(p) /\ invocation'[p].at = "request_unlock"
        /\ invocation'[p].run = invocation[p].run
        /\ invocation'[p].answer = invocation[p].answer /\ invocation'[p].verdict = "FAILED"
    BY <1>2, FailOK DEF LockRequest, WorkerSteps, LockedSteps
  <2>2. WorkerStep(p)
    BY <1>2, <2>1
       DEF Moved, WorkerStep, WorkerInv, WorkerShapes, LockRequest, InvocationAt, RunOf,
           Passed, RunOK, PassOK, AnswersOK, LockOK, LockedSteps, Invocations
  <2>3. RequestStep(p)
    BY <1>2 DEF RequestStep, LockRequest
  <2>4. QED BY <2>2, <2>3, RequestStepKeeps
<1>3. QED BY <1>1, <1>2

\* The packet is written.
LEMMA SealPacketKeeps ==
    ASSUME NEW p \in WorkerProcesses, WorkerInv, SealPacket(p)
    PROVE  WorkerInv'
<1>1. /\ Moved(p) /\ invocation'[p].at = "ask"
      /\ invocation'[p].run = invocation[p].run
      /\ invocation'[p].answer = invocation[p].answer
  BY ProceedOK DEF SealPacket, WorkerSteps, LockedSteps
<1>2. WorkerStep(p)
  BY <1>1
     DEF Moved, WorkerStep, WorkerInv, WorkerShapes, SealPacket, InvocationAt, RunOf,
         Passed, RunOK, PassOK, AnswersOK, LockOK, LockedSteps, Invocations
<1>3. PICK d \in RequestRoot(p) :
         requested' = [requested EXCEPT ![RunOf(p)] = {[d EXCEPT !.task = {invocation[p].head}]}]
  BY DEF SealPacket
<1> DEFINE e == [d EXCEPT !.task = {invocation[p].head}]
<1>4. invocation[p] \in Invocations /\ d \in RequestDirs /\ RunOf(p) \in RunIds
  BY DEF WorkerInv, WorkerShapes, RequestRoot, RunOf, Invocations
<1>5. e \in RequestDirs /\ e.completion = d.completion
  BY <1>4 DEF RequestDirs, Invocations
<1>6. \A c \in d.completion : c.answer <= answered
  BY <1>4 DEF WorkerInv, AnswersOK, RequestRoot
<1>7. RequestStep(p)
  <2> HIDE DEF e
  <2>1. requested' = [requested EXCEPT ![RunOf(p)] = {e}]
    BY <1>3 DEF e
  <2>2. {e} \in SUBSET RequestDirs /\ \A f \in {e} : \A c \in f.completion : c.answer <= answered'
    BY <1>5, <1>6 DEF SealPacket
  <2>3. RunOf(p) \notin consumed /\ workerLock' = {p}
    BY DEF SealPacket, WorkerInv, RunOK, LockOK, LockedSteps, InvocationAt, RunOf
  <2>4. QED BY <2>1, <2>2, <2>3 DEF RequestStep, SealPacket
<1>8. QED BY <1>2, <1>7, RequestStepKeeps

\* The completion is written.
LEMMA StoreCompletionKeeps ==
    ASSUME NEW p \in WorkerProcesses, WorkerInv, StoreCompletion(p)
    PROVE  WorkerInv'
<1> DEFINE i == [invocation[p] EXCEPT !.at = "request_unlock", !.verdict = "PASS"]
           c == [answer |-> invocation[p].answer, model |-> invocation[p].model]
           d == [task |-> UNION {e.task : e \in requested[RunOf(p)]}, completion |-> {c}]
<1>1. /\ invocation[p] \in Invocations /\ RunOf(p) \in RunIds
      /\ requested \in [RunIds -> SUBSET RequestDirs]
      /\ invocation[p].answer <= answered
  BY DEF WorkerInv, WorkerShapes, AnswersOK, RunOf, Invocations
<1>2. /\ i \in Invocations /\ i.at = "request_unlock" /\ i.answer = invocation[p].answer
      /\ i.verdict = "PASS"
  BY <1>1 DEF Invocations, WorkerSteps, LockedSteps
<1>3. invocation' = [invocation EXCEPT ![p] = i]
  BY DEF StoreCompletion
<1>4. Moved(p) /\ invocation'[p] = i
  BY <1>2, <1>3, InvocationBecomes
<1> HIDE DEF i
<1>5. WorkerStep(p)
  BY <1>2, <1>4
     DEF Moved, WorkerStep, WorkerInv, WorkerShapes, StoreCompletion, InvocationAt, RunOf,
         Passed, RunOK, PassOK, AnswersOK, LockOK, LockedSteps, Invocations
<1>6. requested' = [requested EXCEPT ![RunOf(p)] = {d}]
  BY <1>1 DEF StoreCompletion
<1>7. \A e \in requested[RunOf(p)] : e.task \subseteq Commits
  BY <1>1 DEF RequestDirs
<1>8. d \in RequestDirs
  <2>1. UNION {e.task : e \in requested[RunOf(p)]} \subseteq Commits
    BY <1>7
  <2>2. c \in Completions
    BY <1>1 DEF Completions, Invocations
  <2> HIDE DEF c
  <2>3. QED BY <2>1, <2>2 DEF RequestDirs
<1>9. /\ {d} \in SUBSET RequestDirs
      /\ \A e \in {d} : \A x \in e.completion : x.answer <= answered'
  BY <1>1, <1>8 DEF StoreCompletion
<1>10. RunOf(p) \notin consumed /\ workerLock' = {p}
  BY DEF StoreCompletion, WorkerInv, RunOK, LockOK, LockedSteps, InvocationAt, RunOf
<1>11. RequestStep(p)
  <2> HIDE DEF d, c
  <2>1. QED BY <1>6, <1>9, <1>10 DEF RequestStep, StoreCompletion
<1>12. QED BY <1>5, <1>11, RequestStepKeeps

\* A request frees the lock.
LEMMA UnlockRequestKeeps ==
    ASSUME NEW p \in WorkerProcesses, WorkerInv, UnlockRequest(p)
    PROVE  WorkerInv'
<1>1. /\ Moved(p) /\ invocation'[p].at \in {"request_clean", "none"}
      /\ invocation'[p].answer <= answered
  <2>1. invocation[p].answer <= answered /\ answered \in Nat /\ answered >= 0
    BY DEF WorkerInv, WorkerShapes, AnswersOK
  <2>2. CASE Leave(p)
    BY <2>1, <2>2, LeaveOK
  <2>3. CASE Proceed(p, "request_clean")
    BY <2>1, <2>3, ProceedOK DEF WorkerSteps
  <2>4. QED BY <2>2, <2>3 DEF UnlockRequest
<1>2. WorkerStep(p)
  BY <1>1
     DEF Moved, WorkerStep, WorkerInv, WorkerShapes, UnlockRequest, InvocationAt, RunOf,
         Passed, RunOK, PassOK, AnswersOK, LockOK, LockedSteps, Invocations
<1>3. RequestStep(p)
  BY DEF RequestStep, UnlockRequest
<1>4. QED BY <1>2, <1>3, RequestStepKeeps

\* An application sees whether there is a request.
LEMMA LockApplyKeeps ==
    ASSUME NEW p \in WorkerProcesses, WorkerInv, LockApply(p)
    PROVE  WorkerInv'
<1>1. /\ Moved(p)
      /\ invocation'[p].run = invocation[p].run /\ invocation'[p].answer = invocation[p].answer
      /\ \/ invocation'[p].at = "apply_unlock" /\ invocation'[p].verdict \in {"FAILED", "raise"}
         \/ /\ invocation'[p].at = "load" /\ RunOf(p) \notin consumed
            /\ invocation'[p].made = (RequestRoot(p) # {})
  <2>0. invocation[p] \in Invocations
    BY DEF WorkerInv, WorkerShapes
  <2>1. CASE FailTo(p, "apply_unlock")
    BY <2>1, FailOK DEF WorkerSteps, LockedSteps
  <2>2. CASE invocation' = [invocation EXCEPT ![p].at = "apply_unlock", ![p].verdict = "raise"]
    <3> DEFINE i == [invocation[p] EXCEPT !.at = "apply_unlock", !.verdict = "raise"]
    <3>1. /\ i \in Invocations /\ i.at = "apply_unlock" /\ i.verdict = "raise"
          /\ i.run = invocation[p].run /\ i.answer = invocation[p].answer
      BY <2>0 DEF Invocations, WorkerSteps, LockedSteps
    <3>2. invocation' = [invocation EXCEPT ![p] = i]
      BY <2>2
    <3> HIDE DEF i
    <3>3. QED BY <3>1, <3>2, InvocationBecomes
  <2>3. CASE /\ Unmoved(p) /\ ~Consumed(RunOf(p))
             /\ invocation' = [invocation EXCEPT ![p].at = "load", ![p].model = LoadModel,
                                                 ![p].made = RequestRoot(p) # {}]
    <3> DEFINE i == [invocation[p] EXCEPT !.at = "load", !.model = LoadModel,
                                          !.made = (RequestRoot(p) # {})]
    <3>1. /\ i \in Invocations /\ i.at = "load" /\ i.made = (RequestRoot(p) # {})
          /\ i.run = invocation[p].run /\ i.answer = invocation[p].answer
      BY <2>0 DEF Invocations, WorkerSteps, LockedSteps, LoadModel, WorkerInv, WorkerShapes
    <3>2. invocation' = [invocation EXCEPT ![p] = i]
      BY <2>3
    <3> HIDE DEF i
    <3>3. QED BY <2>3, <3>1, <3>2, InvocationBecomes DEF Consumed
  <2>4. QED BY <2>1, <2>2, <2>3 DEF LockApply
<1>2. WorkerStep(p)
  BY <1>1
     DEF Moved, WorkerStep, WorkerInv, WorkerShapes, LockApply, InvocationAt, RunOf, Passed,
         RequestRoot, RunOK, PassOK, AnswersOK, LockOK, LockedSteps, Invocations
<1>3. RequestStep(p)
  BY DEF RequestStep, LockApply
<1>4. QED BY <1>2, <1>3, RequestStepKeeps

\* Whoever loads an answer had its request.
LEMMA LoadRequestKeeps ==
    ASSUME NEW p \in WorkerProcesses, WorkerInv, LoadRequest(p)
    PROVE  WorkerInv'
<1>0. /\ invocation[p] \in Invocations /\ RunOf(p) \in RunIds
      /\ requested \in [RunIds -> SUBSET RequestDirs]
  BY DEF WorkerInv, WorkerShapes, RunOf, Invocations
<1>1. /\ Moved(p) /\ invocation'[p].run = invocation[p].run
      /\ invocation'[p].answer <= answered
      /\ \/ invocation'[p].at = "apply_unlock" /\ invocation'[p].verdict = "FAILED"
         \/ invocation'[p].at = "claim" /\ invocation'[p].made
  <2>1. CASE Loads(p) = {}
    BY <2>1, FailOK DEF LoadRequest, WorkerSteps, LockedSteps, WorkerInv, AnswersOK
  <2>2. CASE Loads(p) # {}
    <3>1. PICK c \in Loads(p) :
             invocation' = [invocation EXCEPT ![p].at = "claim", ![p].answer = c.answer]
      BY <2>2 DEF LoadRequest
    <3>2. PICK d \in requested[RunOf(p)] : c \in d.completion
      BY DEF Loads, Readable, RequestRoot
    <3>3. c.answer \in Nat /\ c.answer <= answered
      BY <1>0, <3>2 DEF WorkerInv, AnswersOK, RequestDirs, Completions
    <3> DEFINE i == [invocation[p] EXCEPT !.at = "claim", !.answer = c.answer]
    <3>4. /\ i \in Invocations /\ i.at = "claim" /\ i.answer = c.answer
          /\ i.run = invocation[p].run /\ i.made = invocation[p].made
      BY <1>0, <3>3 DEF Invocations, WorkerSteps, LockedSteps
    <3>5. invocation' = [invocation EXCEPT ![p] = i]
      BY <3>1
    <3>6. invocation[p].made
      BY <1>0, <3>2 DEF WorkerInv, RunOK, LoadRequest, Invocations
    <3> HIDE DEF i
    <3>7. QED BY <3>3, <3>4, <3>5, <3>6, InvocationBecomes
  <2>3. QED BY <2>1, <2>2
<1>2. WorkerStep(p)
  BY <1>1
     DEF Moved, WorkerStep, WorkerInv, WorkerShapes, LoadRequest, InvocationAt, RunOf,
         Passed, RunOK, PassOK, AnswersOK, LockOK, LockedSteps, Invocations
<1>3. RequestStep(p)
  BY DEF RequestStep, LoadRequest
<1>4. QED BY <1>2, <1>3, RequestStepKeeps

\* The request goes before a patch is written.
LEMMA CleanApplyKeeps ==
    ASSUME NEW p \in WorkerProcesses, WorkerInv, CleanApply(p)
    PROVE  WorkerInv'
<1>0. /\ invocation[p] \in Invocations /\ invocation[p].answer <= answered
      /\ requested \in [RunIds -> SUBSET RequestDirs] /\ RunOf(p) \in RunIds
      /\ invocation[p].at = "apply_clean" /\ answered \in Nat
  BY DEF WorkerInv, WorkerShapes, AnswersOK, RunOf, Invocations, CleanApply, InvocationAt
<1>5. RequestStep(p)
  <2>1. CASE invocation[p].made
    BY <2>1, RequestGone DEF CleanApply
  <2>2. CASE ~invocation[p].made
    BY <2>2 DEF RequestStep, CleanApply
  <2>3. QED BY <2>1, <2>2
<1>1. CASE invocation[p].verdict = "raise" /\ Leave(p)
  <2>0. Moved(p) /\ invocation'[p].at = "none" /\ invocation'[p].answer = 0
    BY <1>1, LeaveOK
  <2>1. WorkerStep(p)
    BY <1>0, <2>0
       DEF Moved, WorkerStep, WorkerInv, WorkerShapes, CleanApply, InvocationAt, RunOf,
           Passed, RunOK, PassOK, AnswersOK, LockOK, LockedSteps, Invocations
  <2>2. RequestStep(p)
    BY <1>5
  <2>3. QED BY <2>1, <2>2, RequestStepKeeps
<1>2. CASE invocation[p].verdict # "raise" /\ FailTo(p, "receipt")
  <2>0. /\ Moved(p) /\ invocation'[p].at = "receipt" /\ invocation'[p].verdict = "FAILED"
        /\ invocation'[p].answer = invocation[p].answer
    BY <1>2, FailOK DEF WorkerSteps
  <2>1. WorkerStep(p)
    BY <1>0, <2>0
       DEF Moved, WorkerStep, WorkerInv, WorkerShapes, CleanApply, InvocationAt, RunOf,
           Passed, RunOK, PassOK, AnswersOK, LockOK, LockedSteps, WorkerSteps, Invocations
  <2>2. RequestStep(p)
    BY <1>5
  <2>3. QED BY <2>1, <2>2, RequestStepKeeps
<1>3. CASE /\ invocation[p].verdict # "raise"
           /\ Proceed(p, IF invocation[p].verdict = "PASS" THEN "patch" ELSE "receipt")
  <2>1. /\ Moved(p)
        /\ invocation'[p].at = IF invocation[p].verdict = "PASS" THEN "patch" ELSE "receipt"
        /\ invocation'[p].run = invocation[p].run /\ invocation'[p].made = invocation[p].made
        /\ invocation'[p].answer = invocation[p].answer
        /\ invocation'[p].verdict = invocation[p].verdict
    BY <1>3, ProceedOK DEF WorkerSteps, LockedSteps
  <2>2. Passed(p) => requested'[RunOf(p)] = {} /\ PassOK(p)
    BY <1>0 DEF CleanApply, WorkerInv, PassOK
  <2>3. invocation[p].verdict \in {"PASS", "FAILED"}
    BY <1>0, <1>3 DEF Invocations, WorkerInv, RunOK
  <2>4. WorkerStep(p)
    BY <1>0, <1>3, <2>1, <2>2, <2>3
       DEF Moved, WorkerStep, WorkerInv, WorkerShapes, CleanApply, InvocationAt, RunOf,
           Passed, RunOK, PassOK, LockOK, LockedSteps
  <2>5. RequestStep(p)
    BY <1>5
  <2>6. QED BY <2>4, <2>5, RequestStepKeeps
<1>4. QED BY <1>1, <1>2, <1>3 DEF CleanApply

\* The id is consumed before anything is run.
LEMMA ClaimRunKeeps ==
    ASSUME NEW p \in WorkerProcesses, WorkerInv, ClaimRun(p)
    PROVE  WorkerInv'
<1>0. /\ RunOf(p) \in RunIds /\ invocation[p].made /\ RunOf(p) \notin consumed
      /\ workerLock = {p} /\ invocation[p].answer <= answered
  BY DEF WorkerInv, WorkerShapes, Invocations, RunOf, RunOK, LockOK, LockedSteps, AnswersOK,
         ClaimRun, InvocationAt
<1>1. /\ Moved(p) /\ invocation'[p].at = "work"
      /\ invocation'[p].run = invocation[p].run /\ invocation'[p].made = invocation[p].made
      /\ invocation'[p].answer = invocation[p].answer
  BY ProceedOK DEF ClaimRun, WorkerSteps, LockedSteps
<1>2. WorkerShapes' /\ AnswersOK'
  BY <1>0, <1>1 DEF WorkerInv, WorkerShapes, AnswersOK, ClaimRun, Moved
<1>3. LockOK' /\ PassedAlone'
  BY <1>0, <1>1
     DEF WorkerInv, LockOK, PassedAlone, Passed, RunOf, ClaimRun, Moved, LockedSteps
<1>4. TestedOK' /\ PassesAreWhole'
  BY DEF WorkerInv, TestedOK, PassesAreWhole, ClaimRun
<1>5. tested[RunOf(p)] = <<>>
  BY <1>0 DEF WorkerInv, TestedOK
<1>6. \A q \in WorkerProcesses : RunOK(q)' /\ PassOK(q)'
  <2> SUFFICES ASSUME NEW q \in WorkerProcesses PROVE RunOK(q)' /\ PassOK(q)'
    OBVIOUS
  <2>1. CASE q = p
    BY <1>0, <1>1, <1>5, <2>1 DEF RunOK, PassOK, Passed, RunOf, InvocationAt, ClaimRun
  <2>2. CASE q # p
    <3>0. invocation[q].at \notin LockedSteps
      BY <1>0, <2>2 DEF WorkerInv, LockOK
    <3>1. /\ RunOf(q) \in RunIds /\ invocation'[q] = invocation[q]
          /\ invocation[q].at \notin LockedSteps
      BY <1>1, <2>2, <3>0 DEF Moved, WorkerInv, WorkerShapes, Invocations, RunOf
    <3>2. RunOK(q)'
      BY <3>1 DEF WorkerInv, RunOK, RunOf, InvocationAt, ClaimRun, LockedSteps
    <3>3. PassOK(q)'
      BY <3>1 DEF WorkerInv, PassOK, Passed, RunOf, InvocationAt, ClaimRun
    <3>4. QED BY <3>2, <3>3
  <2>3. QED BY <2>1, <2>2
<1>7. QED BY <1>2, <1>3, <1>4, <1>6 DEF WorkerInv

\* The run is the first one of its id, so that nobody published it.
LEMMA RunPatchKeeps ==
    ASSUME NEW p \in WorkerProcesses, WorkerInv, RunPatch(p)
    PROVE  WorkerInv'
<1>0. /\ invocation[p] \in Invocations /\ RunOf(p) \in RunIds
      /\ invocation[p].made /\ RunOf(p) \in consumed
      /\ tested[RunOf(p)] = <<>> /\ tested \in [RunIds -> Seq(Nat)]
      /\ workerLock = {p} /\ invocation[p].answer \in Nat /\ invocation[p].answer <= answered
  BY DEF WorkerInv, WorkerShapes, Invocations, RunOf, RunOK, LockOK, LockedSteps, AnswersOK,
         RunPatch, InvocationAt
<1>1. /\ Moved(p) /\ invocation'[p].at = "apply_unlock"
      /\ invocation'[p].run = invocation[p].run /\ invocation'[p].made = invocation[p].made
      /\ invocation'[p].answer = invocation[p].answer
      /\ invocation'[p].verdict \in {"PASS", "FAILED"}
  <2>1. PICK v \in {"PASS", "FAILED"} :
           invocation' = [invocation EXCEPT ![p].at = "apply_unlock", ![p].verdict = v]
    BY DEF RunPatch
  <2> DEFINE i == [invocation[p] EXCEPT !.at = "apply_unlock", !.verdict = v]
  <2>2. /\ i \in Invocations /\ i.at = "apply_unlock" /\ i.verdict = v
        /\ i.run = invocation[p].run /\ i.made = invocation[p].made
        /\ i.answer = invocation[p].answer
    BY <1>0 DEF Invocations, WorkerSteps, LockedSteps
  <2>3. invocation' = [invocation EXCEPT ![p] = i]
    BY <2>1
  <2> HIDE DEF i
  <2>4. QED BY <2>2, <2>3, InvocationBecomes
<1>2. /\ tested' \in [RunIds -> Seq(Nat)]
      /\ tested'[RunOf(p)] = <<invocation[p].answer>>
      /\ \A r \in RunIds : r # RunOf(p) => tested'[r] = tested[r]
  <2>1. tested' = [tested EXCEPT ![RunOf(p)] = <<invocation[p].answer>>]
    BY <1>0 DEF RunPatch
  <2>2. <<invocation[p].answer>> \in Seq(Nat)
    BY <1>0
  <2>3. QED BY <1>0, <2>1, <2>2
<1>3. WorkerShapes' /\ AnswersOK'
  BY <1>0, <1>1, <1>2 DEF WorkerInv, WorkerShapes, AnswersOK, RunPatch, Moved
<1>4. TestedOK'
  BY <1>0, <1>2 DEF WorkerInv, TestedOK, RunPatch
<1>5. \A q \in WorkerProcesses : Passed(q) => RunOf(q) # RunOf(p)
  <2> SUFFICES ASSUME NEW q \in WorkerProcesses, Passed(q), RunOf(q) = RunOf(p) PROVE FALSE
    OBVIOUS
  <2>1. tested[RunOf(q)] = <<invocation[q].answer>>
    BY DEF WorkerInv, PassOK
  <2>2. QED BY <1>0, <2>1, OneIsSome
<1>6. LockOK' /\ PassedAlone'
  <2>1. LockOK'
    BY <1>0, <1>1 DEF WorkerInv, LockOK, RunPatch, Moved, LockedSteps
  <2>2. \A q \in WorkerProcesses : Passed(q)' =>
           /\ RunOf(q)' = RunOf(q)
           /\ q = p \/ Passed(q)
    BY <1>1 DEF Passed, RunOf, Moved
  <2>3. QED BY <1>5, <2>1, <2>2 DEF WorkerInv, PassedAlone
<1>7. results[RunOf(p)].receipt # "PASS" /\ PassesAreWhole'
  BY <1>0, <1>2 DEF WorkerInv, PassesAreWhole, RunPatch
<1>8. \A q \in WorkerProcesses : RunOK(q)' /\ PassOK(q)'
  <2> SUFFICES ASSUME NEW q \in WorkerProcesses PROVE RunOK(q)' /\ PassOK(q)'
    OBVIOUS
  <2>1. CASE q = p
    BY <1>0, <1>1, <1>2, <1>7, <2>1 DEF RunOK, PassOK, Passed, RunOf, InvocationAt, RunPatch
  <2>2. CASE q # p
    <3>1. RunOf(q) \in RunIds /\ invocation'[q] = invocation[q]
      BY <1>1, <2>2 DEF Moved, WorkerInv, WorkerShapes, Invocations, RunOf
    <3>2. invocation[q].at \notin LockedSteps
      BY <1>0, <2>2 DEF WorkerInv, LockOK
    <3>5. RunOK(q)'
      BY <3>1, <3>2 DEF WorkerInv, RunOK, RunOf, InvocationAt, RunPatch, LockedSteps
    <3>3. PassOK(q)'
      BY <1>2, <1>5, <3>1 DEF WorkerInv, PassOK, Passed, RunOf, InvocationAt, RunPatch
    <3>4. QED BY <3>3, <3>5
  <2>3. QED BY <2>1, <2>2
<1>9. QED BY <1>3, <1>4, <1>6, <1>7, <1>8 DEF WorkerInv

\* A step that ends with a change of the results of its run, outside the lock.
ResultStep(p) ==
    /\ Moved(p)
    /\ invocation'[p].at \in {"receipt", "none"} /\ invocation'[p].answer <= answered
    /\ workerLock' \in {workerLock, workerLock \ {p}}
    /\ UNCHANGED <<checkout, modelFile, requested, consumed, tested, answered, invoked>>
    /\ accidents' \in 0..MaxAccidents
    /\ results' \in [RunIds -> [patch : SUBSET Nat, receipt : {"none", "PASS", "FAILED", "torn"}]]
    /\ \A r \in RunIds : \A a \in results'[r].patch : a <= answered
    /\ \A r \in RunIds : r # RunOf(p) => results'[r] = results[r]
    /\ RunOK(p)' /\ PassOK(p)'
    /\ Passed(p)' => Passed(p) /\ RunOf(p)' = RunOf(p)

\* Such a step keeps the invariant if its run was not published, and if what
\* another process that passed relies on stays: its patch, and no PASS receipt.
LEMMA ResultStepKeeps ==
    ASSUME NEW p \in WorkerProcesses, WorkerInv, ResultStep(p),
           \/ results' = results
           \/ /\ results[RunOf(p)].receipt # "PASS"
              /\ results'[RunOf(p)].receipt = "PASS" =>
                    /\ Passed(p) /\ InvocationAt(p, "receipt")
                    /\ results'[RunOf(p)].patch = results[RunOf(p)].patch
              /\ \/ results'[RunOf(p)].receipt = "PASS"
                 \/ results'[RunOf(p)].patch # results[RunOf(p)].patch
                 => \A q \in WorkerProcesses : q # p /\ Passed(q) => RunOf(q) # RunOf(p)
    PROVE  WorkerInv'
<1>1. WorkerShapes' /\ AnswersOK'
  BY DEF WorkerInv, WorkerShapes, AnswersOK, ResultStep, Moved
<1>2. LockOK' /\ PassedAlone'
  BY DEF WorkerInv, LockOK, PassedAlone, Passed, RunOf, ResultStep, Moved, LockedSteps
<1>3. TestedOK'
  BY DEF WorkerInv, TestedOK, ResultStep
<1>4. RunOf(p) \in RunIds
  BY DEF WorkerInv, WorkerShapes, Invocations, RunOf
<1>5. PassesAreWhole'
  <2> SUFFICES ASSUME NEW r \in RunIds, results'[r].receipt = "PASS"
               PROVE  /\ tested[r] # <<>> /\ results'[r].patch = {tested[r][1]}
                      /\ r \in consumed /\ requested[r] = {}
    BY DEF WorkerInv, PassesAreWhole, ResultStep
  <2>1. CASE results'[r] = results[r]
    BY <2>1 DEF WorkerInv, PassesAreWhole
  <2>2. CASE results'[r] # results[r]
    <3>1. /\ r = RunOf(p) /\ Passed(p) /\ invocation[p].at = "receipt"
          /\ results'[r].patch = results[r].patch
      BY <2>2 DEF ResultStep, InvocationAt
    <3>2. /\ tested[r] = <<invocation[p].answer>> /\ requested[r] = {}
          /\ results[r].patch = {invocation[p].answer}
      BY <3>1 DEF WorkerInv, PassOK, InvocationAt
    <3>3. r \in consumed
      BY <3>2, OneIsSome DEF WorkerInv, TestedOK
    <3>4. QED BY <3>1, <3>2, <3>3
  <2>3. QED BY <2>1, <2>2
<1>6. \A q \in WorkerProcesses : RunOK(q)' /\ PassOK(q)'
  <2> SUFFICES ASSUME NEW q \in WorkerProcesses PROVE RunOK(q)' /\ PassOK(q)'
    OBVIOUS
  <2>1. CASE q = p
    BY <2>1 DEF ResultStep
  <2>2. CASE q # p
    <3>1. RunOf(q) \in RunIds /\ invocation'[q] = invocation[q]
      BY <2>2 DEF ResultStep, Moved, WorkerInv, WorkerShapes, Invocations, RunOf
    <3>2. RunOK(q)'
      BY <3>1 DEF WorkerInv, RunOK, RunOf, InvocationAt, ResultStep
    <3>3. Passed(q) /\ results[RunOf(q)].receipt # "PASS" =>
             /\ results'[RunOf(q)].receipt # "PASS"
             /\ results'[RunOf(q)].patch = results[RunOf(q)].patch
      BY <2>2, <3>1 DEF ResultStep
    <3>4. PassOK(q)'
      BY <3>1, <3>3 DEF WorkerInv, PassOK, Passed, RunOf, InvocationAt, ResultStep
    <3>5. QED BY <3>2, <3>4
  <2>3. QED BY <2>1, <2>2
<1>7. QED BY <1>1, <1>2, <1>3, <1>5, <1>6 DEF WorkerInv

\* The patch written is the answer that was tested.
LEMMA WritePatchKeeps ==
    ASSUME NEW p \in WorkerProcesses, WorkerInv, WritePatch(p)
    PROVE  WorkerInv'
<1> DEFINE r == RunOf(p)
<1>0. /\ invocation[p].at = "patch" /\ invocation[p].verdict = "PASS" /\ Passed(p)
      /\ invocation[p].answer \in Nat /\ invocation[p].answer <= answered
      /\ answered \in Nat /\ r \in RunIds
      /\ results \in [RunIds -> [patch : SUBSET Nat, receipt : {"none", "PASS", "FAILED", "torn"}]]
      /\ \A s \in RunIds : \A a \in results[s].patch : a <= answered
  BY DEF WorkerInv, WorkerShapes, Invocations, RunOf, RunOK, Passed, AnswersOK, WritePatch,
         InvocationAt
<1>1. /\ invocation[p].made /\ requested[r] = {}
      /\ tested[r] = <<invocation[p].answer>> /\ results[r].receipt # "PASS"
  BY <1>0 DEF WorkerInv, PassOK
<1>2. \A q \in WorkerProcesses : q # p /\ Passed(q) => RunOf(q) # r
  BY <1>0 DEF WorkerInv, PassedAlone
<1>4. CASE results[r].patch = {}
  <2>1. /\ Moved(p) /\ invocation'[p].at = "receipt"
        /\ invocation'[p].run = invocation[p].run /\ invocation'[p].made = invocation[p].made
        /\ invocation'[p].answer = invocation[p].answer /\ invocation'[p].verdict = "PASS"
    BY <1>0, <1>4, ProceedOK DEF WritePatch, WorkerSteps
  <2>2. /\ results' \in [RunIds -> [patch : SUBSET Nat,
                                    receipt : {"none", "PASS", "FAILED", "torn"}]]
        /\ \A s \in RunIds : s # r => results'[s] = results[s]
        /\ results'[r].patch = {invocation[p].answer}
        /\ results'[r].receipt = results[r].receipt
    BY <1>0, <1>4 DEF WritePatch
  <2>3. \A s \in RunIds : \A a \in results'[s].patch : a <= answered
    BY <1>0, <2>2
  <2>4. RunOK(p)' /\ PassOK(p)' /\ RunOf(p)' = RunOf(p)
    BY <1>0, <1>1, <2>1, <2>2 DEF RunOK, PassOK, Passed, InvocationAt, RunOf, WritePatch
  <2>5. ResultStep(p)
    BY <1>0, <1>4, <2>1, <2>2, <2>3, <2>4
       DEF ResultStep, WritePatch, WorkerInv, WorkerShapes, Moved
  <2>6. QED BY <1>1, <1>2, <2>2, <2>5, ResultStepKeeps
<1>5. CASE results[r].patch # {}
  <2>1. /\ Moved(p) /\ invocation'[p].at = "none" /\ invocation'[p].answer = 0
        /\ results' = results
    BY <1>5, LeaveOK DEF WritePatch
  <2>2. ResultStep(p)
    BY <1>0, <2>1
       DEF ResultStep, WritePatch, WorkerInv, WorkerShapes, RunOK, PassOK, Passed,
           InvocationAt
  <2>3. QED BY <2>1, <2>2, ResultStepKeeps
<1>6. QED BY <1>4, <1>5

\* A PASS receipt is written beside that patch.
LEMMA WriteReceiptKeeps ==
    ASSUME NEW p \in WorkerProcesses, WorkerInv, WriteReceipt(p)
    PROVE  WorkerInv'
<1> DEFINE r == RunOf(p)
<1>0. /\ invocation[p].at = "receipt" /\ invocation[p].verdict \in {"PASS", "FAILED"}
      /\ answered \in Nat /\ r \in RunIds
      /\ results \in [RunIds -> [patch : SUBSET Nat, receipt : {"none", "PASS", "FAILED", "torn"}]]
      /\ \A s \in RunIds : \A a \in results[s].patch : a <= answered
  BY DEF WorkerInv, WorkerShapes, Invocations, RunOf, RunOK, AnswersOK, WriteReceipt,
         InvocationAt
<1>1. /\ Moved(p) /\ invocation'[p].at = "none" /\ invocation'[p].answer = 0
  BY LeaveOK DEF WriteReceipt
<1>2. RunOK(p)' /\ PassOK(p)' /\ ~Passed(p)'
  BY <1>1 DEF RunOK, PassOK, Passed, InvocationAt
<1>3. /\ results' \in [RunIds -> [patch : SUBSET Nat,
                                  receipt : {"none", "PASS", "FAILED", "torn"}]]
      /\ \A s \in RunIds : s # r => results'[s] = results[s]
      /\ results'[r].patch = results[r].patch \/ results'[r].patch = {}
  BY <1>0 DEF WriteReceipt
<1>4. \A s \in RunIds : \A a \in results'[s].patch : a <= answered
  BY <1>0, <1>3
<1>5. ResultStep(p)
  BY <1>0, <1>1, <1>2, <1>3, <1>4 DEF ResultStep, WriteReceipt, WorkerInv, WorkerShapes
<1>6. CASE invocation[p].verdict = "PASS"
  <2>1. Passed(p) /\ InvocationAt(p, "receipt") /\ results[r].receipt # "PASS"
    BY <1>0, <1>6 DEF Passed, WorkerInv, PassOK, InvocationAt
  <2>2. \A q \in WorkerProcesses : q # p /\ Passed(q) => RunOf(q) # r
    BY <2>1 DEF WorkerInv, PassedAlone
  <2>3. results'[r].receipt = "PASS" => results'[r].patch = results[r].patch
    BY <1>0, <2>1 DEF WriteReceipt
  <2>4. QED BY <1>5, <2>1, <2>2, <2>3, ResultStepKeeps
<1>7. CASE invocation[p].verdict = "FAILED"
  <2>1. /\ results[r].receipt # "none" => results' = results
        /\ results[r].receipt = "none" => /\ results'[r].receipt = "FAILED"
                                          /\ results'[r].patch = results[r].patch
    BY <1>0, <1>7 DEF WriteReceipt
  <2>2. QED BY <1>5, <2>1, ResultStepKeeps
<1>8. QED BY <1>0, <1>6, <1>7

\* A result that cannot be written takes at most the patch of its own run with it.
LEMMA WriteFailsKeeps ==
    ASSUME NEW p \in WorkerProcesses, WorkerInv, WriteFails(p)
    PROVE  WorkerInv'
<1> DEFINE r == RunOf(p)
<1>0. /\ answered \in Nat /\ r \in RunIds
      /\ results \in [RunIds -> [patch : SUBSET Nat, receipt : {"none", "PASS", "FAILED", "torn"}]]
      /\ \A s \in RunIds : \A a \in results[s].patch : a <= answered
  BY DEF WorkerInv, WorkerShapes, Invocations, RunOf, AnswersOK
<1>1. /\ Moved(p) /\ invocation'[p].at = "none" /\ invocation'[p].answer = 0
      /\ accidents' \in 0..MaxAccidents
  <2>1. Leave(p) /\ Mishap
    BY DEF WriteFails
  <2>2. accidents' \in 0..MaxAccidents
    BY <2>1, WorkerAssumption DEF Mishap, WorkerInv, WorkerShapes
  <2>3. QED BY <2>1, <2>2, LeaveOK
<1>2. RunOK(p)' /\ PassOK(p)' /\ ~Passed(p)'
  BY <1>1 DEF RunOK, PassOK, Passed, InvocationAt
<1>3. CASE results' = results
  <2>1. ResultStep(p)
    BY <1>0, <1>1, <1>2, <1>3 DEF ResultStep, WriteFails
  <2>2. QED BY <1>3, <2>1, ResultStepKeeps
<1>4. CASE /\ InvocationAt(p, "receipt") /\ invocation[p].verdict = "PASS"
           /\ results' = [results EXCEPT ![r].patch = {}]
  <2>1. /\ results' \in [RunIds -> [patch : SUBSET Nat,
                                    receipt : {"none", "PASS", "FAILED", "torn"}]]
        /\ \A s \in RunIds : s # r => results'[s] = results[s]
        /\ results'[r].patch = {} /\ results'[r].receipt = results[r].receipt
    BY <1>0, <1>4
  <2>2. \A s \in RunIds : \A a \in results'[s].patch : a <= answered
    BY <1>0, <2>1
  <2>3. ResultStep(p)
    BY <1>0, <1>1, <1>2, <2>1, <2>2 DEF ResultStep, WriteFails
  <2>4. Passed(p) /\ results[r].receipt # "PASS"
    BY <1>4 DEF WorkerInv, PassOK, Passed, InvocationAt
  <2>5. \A q \in WorkerProcesses : q # p /\ Passed(q) => RunOf(q) # r
    BY <2>4 DEF WorkerInv, PassedAlone
  <2>6. QED BY <2>1, <2>3, <2>4, <2>5, ResultStepKeeps
<1>5. QED BY <1>3, <1>4 DEF WriteFails

\* Where a process dies it leaves at most a torn result.
LEMMA WorkerDiesKeeps ==
    ASSUME NEW p \in WorkerProcesses, WorkerInv, WorkerDies(p)
    PROVE  WorkerInv'
<1> DEFINE r == RunOf(p)
<1>0. /\ answered \in Nat /\ r \in RunIds
      /\ results \in [RunIds -> [patch : SUBSET Nat, receipt : {"none", "PASS", "FAILED", "torn"}]]
      /\ \A s \in RunIds : \A a \in results[s].patch : a <= answered
  BY DEF WorkerInv, WorkerShapes, Invocations, RunOf, AnswersOK
<1>1. /\ Moved(p) /\ invocation'[p].at = "none" /\ invocation'[p].answer = 0
      /\ accidents' \in 0..MaxAccidents
  <2>1. Leave(p) /\ Mishap
    BY DEF WorkerDies
  <2>2. accidents' \in 0..MaxAccidents
    BY <2>1, WorkerAssumption DEF Mishap, WorkerInv, WorkerShapes
  <2>3. QED BY <2>1, <2>2, LeaveOK
<1>2. RunOK(p)' /\ PassOK(p)' /\ ~Passed(p)'
  BY <1>1 DEF RunOK, PassOK, Passed, InvocationAt
<1>3. CASE results' = results
  <2>1. ResultStep(p)
    BY <1>0, <1>1, <1>2, <1>3 DEF ResultStep, WorkerDies
  <2>2. QED BY <1>3, <2>1, ResultStepKeeps
<1>4. CASE /\ InvocationAt(p, "patch") /\ results[r].patch = {}
           /\ results' = [results EXCEPT ![r].patch = {0}]
  <2>1. /\ results' \in [RunIds -> [patch : SUBSET Nat,
                                    receipt : {"none", "PASS", "FAILED", "torn"}]]
        /\ \A s \in RunIds : s # r => results'[s] = results[s]
        /\ results'[r].patch = {0} /\ results'[r].receipt = results[r].receipt
    BY <1>0, <1>4
  <2>2. \A s \in RunIds : \A a \in results'[s].patch : a <= answered
    BY <1>0, <2>1
  <2>3. ResultStep(p)
    BY <1>0, <1>1, <1>2, <2>1, <2>2 DEF ResultStep, WorkerDies
  <2>4. Passed(p) /\ results[r].receipt # "PASS"
    BY <1>4 DEF WorkerInv, RunOK, PassOK, Passed, InvocationAt
  <2>5. \A q \in WorkerProcesses : q # p /\ Passed(q) => RunOf(q) # r
    BY <2>4 DEF WorkerInv, PassedAlone
  <2>6. QED BY <2>1, <2>3, <2>4, <2>5, ResultStepKeeps
<1>5. CASE /\ InvocationAt(p, "receipt") /\ results[r].receipt = "none"
           /\ results' = [results EXCEPT ![r].receipt = "torn"]
  <2>1. /\ results' \in [RunIds -> [patch : SUBSET Nat,
                                    receipt : {"none", "PASS", "FAILED", "torn"}]]
        /\ \A s \in RunIds : s # r => results'[s] = results[s]
        /\ results'[r].patch = results[r].patch /\ results'[r].receipt = "torn"
    BY <1>0, <1>5
  <2>2. \A s \in RunIds : \A a \in results'[s].patch : a <= answered
    BY <1>0, <2>1
  <2>3. ResultStep(p)
    BY <1>0, <1>1, <1>2, <2>1, <2>2 DEF ResultStep, WorkerDies
  <2>4. QED BY <1>5, <2>1, <2>3, ResultStepKeeps
<1>6. QED BY <1>3, <1>4, <1>5 DEF WorkerDies

-----------------------------------------------------------------------------
(* The direct worker: theorems *)

\* The invariant holds initially.
LEMMA WorkerInitOK == WorkerInit => WorkerInv
<1> SUFFICES ASSUME WorkerInit PROVE WorkerInv
  OBVIOUS
<1>1. /\ invocation \in [WorkerProcesses -> Invocations]
      /\ \A p \in WorkerProcesses : invocation[p].at = "none" /\ invocation[p].answer = 0
  BY NoInvocationOK DEF WorkerInit
<1>2. /\ \A r \in RunIds : /\ results[r].patch = {} /\ results[r].receipt = "none"
                           /\ tested[r] = <<>> /\ requested[r] = {}
      /\ results \in [RunIds -> [patch : SUBSET Nat, receipt : {"none", "PASS", "FAILED", "torn"}]]
      /\ requested \in [RunIds -> SUBSET RequestDirs]
      /\ tested \in [RunIds -> Seq(Nat)]
  BY DEF WorkerInit, NoResults
<1>3. WorkerShapes
  <2>1. checkout \in [head : Commits, clean : BOOLEAN]
    <3>1. PICK c \in Commits : checkout = [head |-> c, clean |-> TRUE]
      BY DEF WorkerInit
    <3>2. QED BY <3>1
  <2>2. QED BY <1>1, <1>2, <2>1, WorkerAssumption DEF WorkerShapes, WorkerInit
<1>4. AnswersOK /\ TestedOK /\ PassesAreWhole
  BY <1>1, <1>2 DEF AnswersOK, TestedOK, PassesAreWhole, WorkerInit
<1>5. LockOK /\ PassedAlone /\ \A p \in WorkerProcesses : RunOK(p) /\ PassOK(p)
  BY <1>1 DEF LockOK, LockedSteps, PassedAlone, RunOK, PassOK, Passed, InvocationAt
<1>6. QED BY <1>3, <1>4, <1>5 DEF WorkerInv

\* CheckoutMoves and a stuttering step change nothing that the invariant is about.
LEMMA WorkerOthersKeep ==
    ASSUME WorkerInv, CheckoutMoves \/ UNCHANGED workerVars
    PROVE  WorkerInv'
<1>1. /\ UNCHANGED <<requested, consumed, results, workerLock, invocation, tested, answered, invoked>>
      /\ checkout' \in [head : Commits, clean : BOOLEAN] /\ modelFile' \in {1, 2}
      /\ accidents' \in 0..MaxAccidents
  BY WorkerAssumption DEF CheckoutMoves, Mishap, workerVars, WorkerInv, WorkerShapes
<1>2. WorkerShapes' /\ AnswersOK' /\ LockOK' /\ TestedOK' /\ PassedAlone' /\ PassesAreWhole'
  BY <1>1
     DEF WorkerInv, WorkerShapes, AnswersOK, LockOK, TestedOK, PassedAlone, Passed, RunOf,
         PassesAreWhole
<1>3. \A p \in WorkerProcesses : RunOK(p)' /\ PassOK(p)'
  BY <1>1 DEF WorkerInv, RunOK, PassOK, Passed, RunOf, InvocationAt
<1>4. QED BY <1>2, <1>3 DEF WorkerInv

\* Every step keeps it.
LEMMA WorkerNextKeeps == WorkerInv /\ [WorkerNext]_workerVars => WorkerInv'
<1> SUFFICES ASSUME WorkerInv, [WorkerNext]_workerVars PROVE WorkerInv'
  OBVIOUS
<1>1. CASE CheckoutMoves \/ UNCHANGED workerVars
  BY <1>1, WorkerOthersKeep
<1>2. ASSUME NEW p \in WorkerProcesses, NEW r \in RunIds, BeginRequest(p, r) \/ BeginApply(p, r)
      PROVE  WorkerInv'
  BY <1>2, BeginRequestKeeps, BeginApplyKeeps
<1>3. ASSUME NEW p \in WorkerProcesses,
             \/ RequestBusy(p) \/ LockRequest(p) \/ SealPacket(p) \/ PacketRefused(p)
             \/ ModelAnswers(p) \/ ModelFails(p) \/ StoreCompletion(p)
             \/ UnlockRequest(p) \/ CleanRequest(p)
      PROVE  WorkerInv'
  BY <1>3, RequestBusyKeeps, LockRequestKeeps, SealPacketKeeps, PacketRefusedKeeps,
     ModelAnswersKeeps, ModelFailsKeeps, StoreCompletionKeeps, UnlockRequestKeeps,
     CleanRequestKeeps
<1>4. ASSUME NEW p \in WorkerProcesses,
             \/ ApplyBusy(p) \/ LockApply(p) \/ LoadRequest(p) \/ ClaimRun(p) \/ RunPatch(p)
             \/ UnlockApply(p) \/ CleanApply(p) \/ CleanupFails(p)
             \/ WritePatch(p) \/ WriteReceipt(p) \/ WriteFails(p) \/ WorkerDies(p)
      PROVE  WorkerInv'
  BY <1>4, ApplyBusyKeeps, LockApplyKeeps, LoadRequestKeeps, ClaimRunKeeps, RunPatchKeeps,
         UnlockApplyKeeps, CleanApplyKeeps, CleanupFailsKeeps, WritePatchKeeps,
         WriteReceiptKeeps, WriteFailsKeeps, WorkerDiesKeeps
<1>5. QED BY <1>1, <1>2, <1>3, <1>4 DEF WorkerNext

\* The inductive invariant holds of every run of the services.
THEOREM WorkerInvariant == WorkerSpec => []WorkerInv
<1>1. QED BY WorkerInitOK, WorkerNextKeeps, PTL DEF WorkerSpec

\* The state directory and the processes of the worker have their types: at most
\* one request directory of an id, and a patch is an answer that the model gave.
THEOREM WorkerTypeCorrect == WorkerSpec => []WorkerTypeOK
<1>1. WorkerInv => WorkerTypeOK
  <2> SUFFICES ASSUME WorkerInv PROVE WorkerTypeOK
    OBVIOUS
  <2>1. ASSUME NEW r \in RunIds PROVE Cardinality(requested[r]) <= 1
    <3>1. \A d, e \in requested[r] : d = e
      BY DEF WorkerInv, AnswersOK
    <3>2. CASE requested[r] = {}
      BY <3>2, FS_EmptySet
    <3>3. CASE requested[r] # {}
      <4>1. PICK d \in requested[r] : requested[r] = {d}
        BY <3>1, <3>3
      <4>2. QED BY <4>1, FS_Singleton
    <3>4. QED BY <3>2, <3>3
  <2>2. ASSUME NEW r \in RunIds
        PROVE  /\ results[r].patch \subseteq 0..answered
               /\ results[r].receipt \in {"none", "PASS", "FAILED", "torn"}
    BY DEF WorkerInv, WorkerShapes, AnswersOK
  <2>3. \A p \in WorkerProcesses : invocation[p].verdict \in {"none", "PASS", "FAILED", "raise"}
    BY DEF WorkerInv, WorkerShapes, Invocations
  <2>4. QED BY <2>1, <2>2, <2>3 DEF WorkerInv, WorkerShapes, WorkerTypeOK
<1>2. QED BY <1>1, WorkerInvariant, PTL

\* A run id is run at most once, and a PASS receipt lies beside the very answer
\* that was tested, with its id consumed and no request of it left.
THEOREM PassesWhole == WorkerSpec => []PassesAreWhole
<1>1. WorkerInv => PassesAreWhole
  BY DEF WorkerInv
<1>2. QED BY <1>1, WorkerInvariant, PTL

-----------------------------------------------------------------------------
(* Inventory collection: its inductive invariant *)

Claiming == {"resolve", "host_key", "write_key", "run"}
Collecting == Claiming \cup {"claim", "release", "result"}
ClientSteps == Collecting \cup {"idle", "seal", "sealed", "refused"}

IsCollection(i) ==
    i = [at |-> i.at, base |-> i.base, number |-> i.number, next |-> i.next, status |-> i.status,
         required |-> i.required, records |-> i.records, passed |-> i.passed]
ClientOK(c) ==
    /\ IsCollection(sshClient[c]) /\ sshClient[c].at \in ClientSteps
    /\ sshClient[c].number \in 0..inventories /\ sshClient[c].next \in DOMAIN CollectionSteps
    /\ sshClient[c].required \in BOOLEAN
    /\ ~ClientAt(c, "idle") => sshClient[c].base \in Bases /\ sshClient[c].number # 0

SshShapes ==
    /\ operationClaims \subseteq Operations
    /\ knownHosts \in {"absent", "empty", "line"}
    /\ sshClient = [c \in SshClients |-> sshClient[c]]
    /\ \A c \in SshClients : ClientOK(c)
    /\ sent \in [Operations -> Seq(1..inventories)]
    /\ \A i \in collected : i.number \in 1..inventories /\ i.base \in Bases
    /\ inventories \in Nat /\ sshFaults \in 0..MaxSshFaults

\* An operation that was sent is claimed, and was sent once.
SentOK ==
    \A o \in Operations : Len(sent[o]) <= 1 /\ (sent[o] # <<>> => o \in operationClaims)

\* Between its claim and its commands an operation belongs to one collection.
ClaimsOK ==
    /\ \A c \in SshClients : sshClient[c].at \in Claiming =>
          OperationOf(c) \in operationClaims /\ sent[OperationOf(c)] = <<>>
    /\ \A c, d \in SshClients :
          sshClient[c].at \in Claiming /\ sshClient[d].at \in Claiming
          /\ OperationOf(c) = OperationOf(d) => c = d

\* A collection that goes on has sent the commands of every operation before that
\* it needs; and of this one, if it passed.
NeededBy(c, s) == s = "connect" \/ (s \in RequiredSteps /\ sshClient[c].required)
ProgressOK(c) ==
    /\ sshClient[c].at \in Collecting => \A k \in 1..(sshClient[c].next - 1) :
          NeededBy(c, CollectionSteps[k]) =>
              sent[<<sshClient[c].base, CollectionSteps[k]>>] = <<sshClient[c].number>>
    /\ sshClient[c].at \in {"release", "result"} /\ sshClient[c].status = "passed" =>
          sent[OperationOf(c)] = <<sshClient[c].number>>

\* A number belongs to one inventory.
NumbersOK ==
    /\ \A c, d \in SshClients :
          sshClient[c].at \in Collecting /\ sshClient[d].at \in Collecting
          /\ sshClient[c].number = sshClient[d].number => c = d
    /\ \A c \in SshClients, i \in collected :
          sshClient[c].at \in Collecting => sshClient[c].number # i.number
    /\ \A i, j \in collected : i.number = j.number => i = j

\* Evidence is about an inventory that was made, and what is signed was claimed
\* under the path of its inventory operation.
AttestedOK ==
    /\ \A e \in trusted :
          e = [base |-> e.base, digest |-> e.digest, status |-> e.status,
               records |-> e.records, roots |-> e.roots, fresh |-> e.fresh]
    /\ \A e \in trusted : \E i \in collected :
          e.base = i.base /\ e.digest = i.number /\ e.status = i.passed
    /\ signed \in Seq(receiptClaims)
    /\ \A n \in DOMAIN signed :
          signed[n] = Receipt(signed[n].inventory, Operation(signed[n].inventory.base, "inventory"))

SshInv ==
    /\ SshShapes /\ SentOK /\ ClaimsOK /\ NumbersOK /\ AttestedOK
    /\ \A c \in SshClients : ProgressOK(c)
    /\ InventoryIsOneRun

-----------------------------------------------------------------------------
(* Inventory collection: steps of one client *)

\* Only c moved.
ClientMoved(c) ==
    /\ sshClient' = [d \in SshClients |-> sshClient'[d]]
    /\ \A d \in SshClients : d # c => sshClient'[d] = sshClient[d]

\* Replacing the progress of c moves c alone.
LEMMA ClientBecomes ==
    ASSUME NEW c \in SshClients, SshInv, NEW i, sshClient' = [sshClient EXCEPT ![c] = i]
    PROVE  ClientMoved(c) /\ sshClient'[c] = i
BY DEF SshInv, SshShapes, ClientMoved

\* The progress of a client that collects nothing.
LEMMA NoCollectionOK ==
    /\ IsCollection(NoCollection) /\ NoCollection.at = "idle" /\ NoCollection.number = 0
    /\ NoCollection.next = 1 /\ NoCollection.required = TRUE
    /\ 1 \in DOMAIN CollectionSteps
<1>1. 1 \in DOMAIN CollectionSteps
  <2>1. /\ CollectionSteps \in Seq(STRING) 
        /\ \E i \in DOMAIN CollectionSteps : TRUE
    BY SshAssumption
  <2>2. Len(CollectionSteps) \in Nat /\ DOMAIN CollectionSteps = 1..Len(CollectionSteps)
    BY <2>1
  <2>3. QED BY <2>1, <2>2
<1>2. QED BY <1>1 DEF NoCollection, IsCollection

\* A client that leaves is idle.
LEMMA AbortOK ==
    ASSUME NEW c \in SshClients, SshInv, Abort(c)
    PROVE  ClientMoved(c) /\ sshClient'[c] = NoCollection
BY ClientBecomes DEF Abort

\* A client that goes on changes its step and nothing else.
LEMMA ClientToOK ==
    ASSUME NEW c \in SshClients, SshInv, NEW at, ClientTo(c, at)
    PROVE  /\ ClientMoved(c) /\ IsCollection(sshClient'[c]) /\ sshClient'[c].at = at
           /\ sshClient'[c].base = sshClient[c].base /\ sshClient'[c].number = sshClient[c].number
           /\ sshClient'[c].next = sshClient[c].next /\ sshClient'[c].status = sshClient[c].status
           /\ sshClient'[c].required = sshClient[c].required
<1> DEFINE i == [sshClient[c] EXCEPT !.at = at]
<1>1. IsCollection(sshClient[c])
  BY DEF SshInv, SshShapes, ClientOK
<1>2. /\ IsCollection(i) /\ i.at = at /\ i.base = sshClient[c].base /\ i.number = sshClient[c].number
      /\ i.next = sshClient[c].next /\ i.status = sshClient[c].status
      /\ i.required = sshClient[c].required
  BY <1>1 DEF IsCollection
<1>3. sshClient' = [sshClient EXCEPT ![c] = i]
  BY DEF ClientTo
<1> HIDE DEF i
<1>4. QED BY <1>2, <1>3, ClientBecomes

\* A client that ends an operation takes a status with it.
LEMMA ClientStatusOK ==
    ASSUME NEW c \in SshClients, SshInv, NEW at, NEW status,
           sshClient' = [sshClient EXCEPT ![c].at = at, ![c].status = status]
    PROVE  /\ ClientMoved(c) /\ IsCollection(sshClient'[c]) /\ sshClient'[c].at = at
           /\ sshClient'[c].base = sshClient[c].base /\ sshClient'[c].number = sshClient[c].number
           /\ sshClient'[c].next = sshClient[c].next /\ sshClient'[c].status = status
           /\ sshClient'[c].required = sshClient[c].required
<1>1. IsCollection(sshClient[c]) /\ sshClient = [d \in SshClients |-> sshClient[d]]
  BY DEF SshInv, SshShapes, ClientOK
<1>2. ClientMoved(c)
  BY <1>1 DEF ClientMoved
<1>3. PICK i : i = sshClient[c]
  OBVIOUS
<1>4. PICK j : j = sshClient'[c]
  OBVIOUS
<1>5. IsCollection(j) /\ j.at = at /\ j.status = status
  BY <1>1, <1>3, <1>4 DEF IsCollection
<1>6. /\ j.base = i.base /\ j.number = i.number /\ j.next = i.next /\ j.required = i.required
  BY <1>1, <1>3, <1>4 DEF IsCollection
<1>7. QED BY <1>2, <1>3, <1>4, <1>5, <1>6

\* A step of c that sends nothing, claims nothing and ends no inventory.
ClientStep(c) ==
    /\ ClientMoved(c) /\ ClientOK(c)'
    /\ UNCHANGED <<operationClaims, sent, collected, trusted, receiptClaims, signed, inventories>>
    /\ knownHosts' \in {"absent", "empty", "line"} /\ sshFaults' \in 0..MaxSshFaults
    /\ sshClient'[c].at \in Claiming =>
          sshClient[c].at \in Claiming /\ OperationOf(c)' = OperationOf(c)
    /\ sshClient'[c].at \in Collecting =>
          sshClient[c].at \in Collecting /\ sshClient'[c].number = sshClient[c].number
    /\ ProgressOK(c)'

\* Such a step keeps the invariant.
LEMMA ClientStepKeeps ==
    ASSUME NEW c \in SshClients, SshInv, ClientStep(c)
    PROVE  SshInv'
<1>1. SshShapes'
  BY DEF SshInv, SshShapes, ClientStep, ClientMoved, ClientOK, ClientAt
<1>2. SentOK' /\ AttestedOK' /\ InventoryIsOneRun'
  BY DEF SshInv, SentOK, AttestedOK, InventoryIsOneRun, ClientStep
<1>3. ClaimsOK' /\ NumbersOK'
  BY DEF SshInv, ClaimsOK, NumbersOK, ClientStep, ClientMoved, OperationOf, StepOf
<1>4. \A d \in SshClients : ProgressOK(d)'
  <2> SUFFICES ASSUME NEW d \in SshClients, d # c PROVE ProgressOK(d)'
    BY DEF ClientStep
  <2>1. sshClient'[d] = sshClient[d] /\ sent' = sent /\ ProgressOK(d)
    BY DEF ClientStep, ClientMoved, SshInv
  <2>2. QED BY <2>1 DEF ProgressOK, NeededBy, OperationOf, StepOf
<1>5. QED BY <1>1, <1>2, <1>3, <1>4 DEF SshInv

\* Leaving is such a step.
LEMMA AbortKeeps ==
    ASSUME NEW c \in SshClients, SshInv, Abort(c), sshFaults' \in 0..MaxSshFaults,
           UNCHANGED <<operationClaims, knownHosts, sent, collected, trusted, receiptClaims,
                       signed, inventories>>
    PROVE  SshInv'
<1>1. ClientMoved(c) /\ sshClient'[c] = NoCollection
  BY AbortOK
<1>2. ClientOK(c)' /\ ProgressOK(c)'
  <2>1. sshClient'[c].number \in 0..inventories'
    BY <1>1, NoCollectionOK DEF SshInv, SshShapes
  <2>2. ClientOK(c)'
    BY <1>1, <2>1, NoCollectionOK DEF ClientOK, ClientAt, ClientSteps
  <2>3. ProgressOK(c)'
    BY <1>1, NoCollectionOK DEF ProgressOK, Collecting, Claiming
  <2>4. QED BY <2>2, <2>3
<1>3. ClientStep(c)
  BY <1>1, <1>2, NoCollectionOK DEF SshInv, SshShapes, ClientStep, Claiming, Collecting
<1>4. QED BY <1>3, ClientStepKeeps

\* The environment's faults are bounded.
LEMMA SshFaultOK ==
    ASSUME SshInv, SshFault
    PROVE  sshFaults' \in 0..MaxSshFaults
BY SshAssumption DEF SshInv, SshShapes, SshFault

\* The steps that end a collection.
LEMMA AbortingKeeps ==
    ASSUME NEW c \in SshClients, SshInv,
           ClaimOrResolveFails(c) \/ ReleaseFails(c) \/ EndInventory(c) \/ ClientDies(c)
    PROVE  SshInv'
<1>1. /\ Abort(c) /\ sshFaults' \in 0..MaxSshFaults
      /\ UNCHANGED <<operationClaims, knownHosts, sent, collected, trusted, receiptClaims,
                     signed, inventories>>
  BY SshFaultOK
     DEF ClaimOrResolveFails, ReleaseFails, EndInventory, ClientDies, SshInv, SshShapes
<1>2. QED BY <1>1, AbortKeeps

\* A collection takes a number that no inventory has.
LEMMA BeginInventoryKeeps ==
    ASSUME NEW c \in SshClients, NEW b \in Bases, SshInv, BeginInventory(c, b)
    PROVE  SshInv'
<1> DEFINE n == inventories + 1
           i == [NoCollection EXCEPT !.at = "claim", !.base = b, !.number = n]
<1>1. n \in Nat /\ inventories' = n /\ n > inventories /\ inventories \in Nat /\ n # 0
  BY DEF BeginInventory, SshInv, SshShapes
<1>2. sshClient' = [sshClient EXCEPT ![c] = i]
  BY DEF BeginInventory
<1> HIDE DEF n
<1>3. /\ IsCollection(i) /\ i.at = "claim" /\ i.base = b /\ i.number = n /\ i.next = 1
      /\ i.required = TRUE
  <2>1. i.at = "claim" /\ i.base = b /\ i.number = n
    BY NoCollectionOK DEF IsCollection
  <2>2. i.next = 1 /\ i.required = TRUE
    BY NoCollectionOK DEF IsCollection
  <2>3. PICK j : j = i
    OBVIOUS
  <2>4. PICK k : k = NoCollection
    OBVIOUS
  <2>5. IsCollection(k)
    BY <2>4, NoCollectionOK
  <2>6. j = [k EXCEPT !.at = "claim", !.base = b, !.number = n]
    BY <2>3, <2>4
  <2> HIDE DEF i
  <2>7. IsCollection(j)
    BY <2>5, <2>6 DEF IsCollection
  <2>8. QED BY <2>1, <2>2, <2>3, <2>7
<1> HIDE DEF i
<1>4. ClientMoved(c) /\ sshClient'[c] = i
  BY <1>2, ClientBecomes
<1>5. ClientOK(c)'
  <2>1. n \in 0..inventories'
    BY <1>1
  <2>2. QED BY <1>1, <1>3, <1>4, <2>1, NoCollectionOK DEF ClientOK, ClientAt, ClientSteps, Collecting
<1>6. \A d \in SshClients : d # c => ClientOK(d)' /\ sshClient[d].number \in Nat
                                     /\ sshClient[d].number # n
  BY <1>1, <1>4 DEF SshInv, SshShapes, ClientMoved, ClientOK, ClientAt
<1>7. /\ sent' \in [Operations -> Seq(1..inventories')]
      /\ \A k \in collected' : k.number \in 1..inventories' /\ k.base \in Bases /\ k.number # n
  <2>1. 1..inventories \subseteq 1..n
    BY <1>1
  <2>2. Seq(1..inventories) \subseteq Seq(1..n)
    BY <2>1, SeqMonotonic
  <2>3. QED BY <1>1, <2>1, <2>2 DEF SshInv, SshShapes, BeginInventory
<1>8. SshShapes'
  BY <1>1, <1>4, <1>5, <1>6, <1>7 DEF SshInv, SshShapes, ClientMoved, BeginInventory
<1>9. SentOK' /\ AttestedOK' /\ InventoryIsOneRun'
  BY DEF SshInv, SentOK, AttestedOK, InventoryIsOneRun, BeginInventory
<1>10. ClaimsOK'
  BY <1>3, <1>4
     DEF SshInv, ClaimsOK, Claiming, BeginInventory, ClientMoved, OperationOf, StepOf
<1>11. NumbersOK'
  <2>1. \A d \in SshClients : d # c => sshClient'[d] = sshClient[d]
    BY <1>4 DEF ClientMoved
  <2>2. \A d \in SshClients : d # c => sshClient[d].number # n
    BY <1>6
  <2>3. collected' = collected /\ \A k \in collected : k.number # n
    BY <1>7 DEF BeginInventory
  <2>4. sshClient'[c].number = n
    BY <1>3, <1>4
  <2>5. QED BY <2>1, <2>2, <2>3, <2>4 DEF SshInv, NumbersOK
<1>12. \A d \in SshClients : ProgressOK(d)'
  <2> SUFFICES ASSUME NEW d \in SshClients PROVE ProgressOK(d)'
    OBVIOUS
  <2>1. CASE d = c
    BY <1>3, <1>4, <2>1 DEF ProgressOK
  <2>2. CASE d # c
    <3>1. sshClient'[d] = sshClient[d] /\ sent' = sent /\ ProgressOK(d)
      BY <1>4, <2>2 DEF BeginInventory, ClientMoved, SshInv
    <3>2. QED BY <3>1 DEF ProgressOK, NeededBy, OperationOf, StepOf
  <2>3. QED BY <2>1, <2>2
<1>13. QED BY <1>8, <1>9, <1>10, <1>11, <1>12 DEF SshInv

\* A client's operation is one of the ledger's.
LEMMA OperationTyped ==
    ASSUME NEW c \in SshClients, SshInv, ~ClientAt(c, "idle")
    PROVE  OperationOf(c) \in Operations
BY DEF SshInv, SshShapes, ClientOK, OperationOf, StepOf, Operations, StepNames

\* An operation claimed for the first time was never sent.
LEMMA ClaimOperationKeeps ==
    ASSUME NEW c \in SshClients, SshInv, ClaimOperation(c)
    PROVE  SshInv'
<1> DEFINE o == OperationOf(c)
<1>0. /\ o \in Operations /\ sshClient[c].at = "claim" /\ ClientOK(c)
      /\ operationClaims' = operationClaims \cup {o}
      /\ UNCHANGED <<knownHosts, sent, collected, trusted, receiptClaims, signed, inventories,
                     sshFaults>>
  BY OperationTyped DEF ClaimOperation, ClientAt, SshInv, SshShapes
<1>1. /\ ClientMoved(c) /\ IsCollection(sshClient'[c])
      /\ sshClient'[c].base = sshClient[c].base /\ sshClient'[c].number = sshClient[c].number
      /\ sshClient'[c].next = sshClient[c].next /\ sshClient'[c].required = sshClient[c].required
      /\ \/ sshClient'[c].at = "resolve" /\ o \notin operationClaims
         \/ sshClient'[c].at = "result" /\ sshClient'[c].status = "replayed"
  <2>1. CASE Claimed(c)
    BY <2>1, ClientToOK DEF ClaimOperation, Claimed
  <2>2. CASE ~Claimed(c)
    BY <2>2, ClientStatusOK DEF ClaimOperation
  <2>3. QED BY <2>1, <2>2
<1>2. ClientOK(c)' /\ OperationOf(c)' = o
  BY <1>0, <1>1
     DEF ClientOK, ClientAt, ClientSteps, Collecting, Claiming, OperationOf, StepOf
<1>3. SshShapes'
  BY <1>0, <1>1, <1>2 DEF SshInv, SshShapes, ClientMoved, ClientOK, ClientAt
<1>4. SentOK' /\ AttestedOK' /\ InventoryIsOneRun'
  BY <1>0 DEF SshInv, SentOK, AttestedOK, InventoryIsOneRun
<1>5. ClaimsOK'
  <2>1. o \notin operationClaims => sent[o] = <<>>
    BY <1>0 DEF SshInv, SentOK
  <2>2. QED BY <1>0, <1>1, <1>2, <2>1
            DEF SshInv, ClaimsOK, Claiming, ClientMoved, OperationOf, StepOf
<1>6. NumbersOK'
  BY <1>0, <1>1 DEF SshInv, NumbersOK, ClientMoved, Collecting, Claiming
<1>7. \A d \in SshClients : ProgressOK(d)'
  <2> SUFFICES ASSUME NEW d \in SshClients PROVE ProgressOK(d)'
    OBVIOUS
  <2>1. ProgressOK(d) /\ sent' = sent
    BY <1>0 DEF SshInv
  <2>2. CASE d = c
    BY <1>0, <1>1, <2>1, <2>2 DEF ProgressOK, NeededBy, Collecting, Claiming
  <2>3. CASE d # c
    <3>1. sshClient'[d] = sshClient[d]
      BY <1>1, <2>3 DEF ClientMoved
    <3>2. QED BY <2>1, <3>1 DEF ProgressOK, NeededBy, OperationOf, StepOf
  <2>4. QED BY <2>2, <2>3
<1>8. QED BY <1>3, <1>4, <1>5, <1>6, <1>7 DEF SshInv

\* The steps of one operation before and after its commands.
LEMMA PreparingKeeps ==
    ASSUME NEW c \in SshClients, SshInv,
           \/ ResolveCredential(c) \/ PersistHostKey(c) \/ WriteHostKey(c) \/ HostKeyRefused(c)
    PROVE  SshInv'
<1>1. /\ ClientMoved(c) /\ IsCollection(sshClient'[c])
      /\ sshClient'[c].base = sshClient[c].base /\ sshClient'[c].number = sshClient[c].number
      /\ sshClient'[c].next = sshClient[c].next /\ sshClient'[c].required = sshClient[c].required
      /\ \/ sshClient'[c].at \in {"host_key", "write_key", "run"}
         \/ sshClient'[c].at = "release" /\ sshClient'[c].status = "raise"
  BY ClientToOK, ClientStatusOK
     DEF ResolveCredential, PersistHostKey, WriteHostKey, HostKeyRefused
<1>2. /\ sshClient[c].at \in Claiming /\ knownHosts' \in {"absent", "empty", "line"}
      /\ sshFaults' \in 0..MaxSshFaults
      /\ UNCHANGED <<operationClaims, sent, collected, trusted, receiptClaims, signed, inventories>>
  BY SshFaultOK
     DEF ResolveCredential, PersistHostKey, WriteHostKey, HostKeyRefused, ClientAt,
         Claiming, SshInv, SshShapes
<1>3. ClientOK(c) /\ ProgressOK(c)
  BY DEF SshInv, SshShapes
<1>4. ClientOK(c)' /\ OperationOf(c)' = OperationOf(c)
  BY <1>1, <1>2, <1>3
     DEF ClientOK, ClientAt, ClientSteps, Collecting, Claiming, OperationOf, StepOf
<1>5. ProgressOK(c)'
  BY <1>1, <1>2, <1>3 DEF ProgressOK, NeededBy, Collecting, Claiming
<1>6. ClientStep(c)
  BY <1>1, <1>2, <1>4, <1>5 DEF ClientStep, Collecting
<1>7. QED BY <1>6, ClientStepKeeps

\* The credential is released, or the collection ends.
LEMMA ReleaseCredentialKeeps ==
    ASSUME NEW c \in SshClients, SshInv, ReleaseCredential(c)
    PROVE  SshInv'
<1>0. /\ UNCHANGED <<operationClaims, knownHosts, sent, collected, trusted, receiptClaims,
                     signed, inventories, sshFaults>>
      /\ sshFaults' \in 0..MaxSshFaults /\ sshClient[c].at = "release"
      /\ knownHosts' \in {"absent", "empty", "line"}
  BY DEF ReleaseCredential, SshInv, SshShapes, ClientAt
<1>1. CASE sshClient[c].status = "raise"
  BY <1>0, <1>1, AbortKeeps DEF ReleaseCredential
<1>2. CASE sshClient[c].status # "raise"
  <2>1. /\ ClientMoved(c) /\ IsCollection(sshClient'[c]) /\ sshClient'[c].at = "result"
        /\ sshClient'[c].base = sshClient[c].base /\ sshClient'[c].number = sshClient[c].number
        /\ sshClient'[c].next = sshClient[c].next /\ sshClient'[c].status = sshClient[c].status
        /\ sshClient'[c].required = sshClient[c].required
    BY <1>2, ClientToOK DEF ReleaseCredential
  <2>2. ClientOK(c) /\ ProgressOK(c)
    BY DEF SshInv, SshShapes
  <2>3. ClientOK(c)' /\ OperationOf(c)' = OperationOf(c)
    BY <1>0, <2>1, <2>2 DEF ClientOK, ClientAt, ClientSteps, Collecting, OperationOf, StepOf
  <2>4. ProgressOK(c)'
    BY <1>0, <2>1, <2>2, <2>3 DEF ProgressOK, NeededBy, Collecting
  <2>5. ClientStep(c)
    BY <1>0, <2>1, <2>3, <2>4 DEF ClientStep, Collecting, Claiming
  <2>6. QED BY <2>5, ClientStepKeeps
<1>3. QED BY <1>1, <1>2

\* The commands are sent by the one collection that claimed the operation.
LEMMA RunOperationKeeps ==
    ASSUME NEW c \in SshClients, SshInv, RunOperation(c)
    PROVE  SshInv'
<1> DEFINE o == OperationOf(c)
           n == sshClient[c].number
<1>0. /\ ClientOK(c) /\ ProgressOK(c) /\ sshClient[c].at = "run" /\ o \in Operations
      /\ n \in 1..inventories /\ inventories \in Nat
      /\ sent \in [Operations -> Seq(1..inventories)]
      /\ o \in operationClaims /\ sent[o] = <<>>
      /\ UNCHANGED <<operationClaims, knownHosts, collected, trusted, receiptClaims, signed,
                     inventories>>
  <2>1. ClientOK(c) /\ ProgressOK(c) /\ sshClient[c].at = "run" /\ o \in Operations
    BY OperationTyped DEF RunOperation, ClientAt, SshInv, SshShapes
  <2>2. n \in 1..inventories /\ inventories \in Nat
    BY <2>1 DEF ClientOK, ClientAt, SshInv, SshShapes
  <2>3. o \in operationClaims /\ sent[o] = <<>>
    BY <2>1 DEF SshInv, ClaimsOK, Claiming
  <2>4. QED BY <2>1, <2>2, <2>3 DEF SshInv, SshShapes, RunOperation
<1>1. /\ ClientMoved(c) /\ IsCollection(sshClient'[c]) /\ sshClient'[c].at = "release"
      /\ sshClient'[c].base = sshClient[c].base /\ sshClient'[c].number = n
      /\ sshClient'[c].next = sshClient[c].next /\ sshClient'[c].required = sshClient[c].required
  <2>1. PICK s, x : sshClient' = [sshClient EXCEPT ![c].at = "release", ![c].status = s,
                                                   ![c].records = x]
    BY DEF RunOperation
  <2>2. IsCollection(sshClient[c]) /\ sshClient = [d \in SshClients |-> sshClient[d]]
    BY DEF SshInv, SshShapes, ClientOK
  <2>3. ClientMoved(c)
    BY <2>1, <2>2 DEF ClientMoved
  <2>4. PICK i : i = sshClient[c]
    OBVIOUS
  <2>5. PICK j : j = sshClient'[c]
    OBVIOUS
  <2>6. j = [i EXCEPT !.at = "release", !.status = s, !.records = x]
    BY <2>1, <2>2, <2>4, <2>5
  <2>7. IsCollection(j)
    BY <2>2, <2>4, <2>6 DEF IsCollection
  <2>8. j.at = "release" /\ j.base = i.base /\ j.number = i.number
    BY <2>2, <2>4, <2>6 DEF IsCollection
  <2>9. j.next = i.next /\ j.required = i.required
    BY <2>2, <2>4, <2>6 DEF IsCollection
  <2>10. QED BY <2>3, <2>4, <2>5, <2>7, <2>8, <2>9
<1>2. sshFaults' \in 0..MaxSshFaults
  <2>1. SshFault \/ UNCHANGED sshFaults
    BY DEF RunOperation
  <2>2. QED BY <2>1, SshFaultOK DEF SshInv, SshShapes
<1>3. /\ sent' \in [Operations -> Seq(1..inventories)] /\ sent'[o] = <<n>>
      /\ \A p \in Operations : p # o => sent'[p] = sent[p]
  <2>1. sent' = [sent EXCEPT ![o] = Append(sent[o], n)]
    BY DEF RunOperation
  <2>2. Append(sent[o], n) = <<n>> /\ <<n>> \in Seq(1..inventories)
    BY <1>0
  <2> HIDE DEF n, o
  <2>3. QED BY <1>0, <2>1, <2>2
<1>4. ClientOK(c)' /\ OperationOf(c)' = o
  BY <1>0, <1>1 DEF ClientOK, ClientAt, ClientSteps, Collecting, OperationOf, StepOf
<1>5. SshShapes'
  BY <1>0, <1>1, <1>2, <1>3, <1>4 DEF SshInv, SshShapes, ClientMoved, ClientOK, ClientAt
<1>6. \A p \in Operations : sent[p] # <<>> => sent'[p] = sent[p]
  BY <1>0, <1>3
<1>7. SentOK' /\ AttestedOK'
  <2>1. \A p \in Operations : Len(sent'[p]) <= 1 /\ (sent'[p] # <<>> => p \in operationClaims)
    <3>1. Len(<<n>>) = 1 /\ <<n>> # <<>>
      BY OneIsSome
    <3> SUFFICES ASSUME NEW p \in Operations
                 PROVE  Len(sent'[p]) <= 1 /\ (sent'[p] # <<>> => p \in operationClaims)
      OBVIOUS
    <3>2. CASE p = o
      <4>1. sent'[p] = <<n>> /\ p \in operationClaims
        BY <1>0, <1>3, <3>2
      <4>2. QED BY <3>1, <4>1
    <3>3. CASE p # o
      <4>1. sent'[p] = sent[p]
        BY <1>3, <3>3
      <4>2. QED BY <4>1 DEF SshInv, SentOK
    <3>4. QED BY <3>2, <3>3
  <2>2. QED BY <1>0, <2>1 DEF SshInv, SentOK, AttestedOK
<1>8. ClaimsOK'
  <2>1. \A d \in SshClients : sshClient'[d].at \in Claiming =>
           /\ d # c /\ sshClient'[d] = sshClient[d] /\ OperationOf(d)' = OperationOf(d)
           /\ OperationOf(d) # o /\ OperationOf(d) \in Operations
    BY <1>0, <1>1, OperationTyped
       DEF SshInv, ClaimsOK, Claiming, ClientMoved, OperationOf, StepOf, ClientAt
  <2>2. \A d \in SshClients : sshClient'[d].at \in Claiming =>
           OperationOf(d) \in operationClaims /\ sent'[OperationOf(d)] = <<>>
    BY <1>3, <2>1 DEF SshInv, ClaimsOK
  <2>3. \A d, e \in SshClients :
           sshClient'[d].at \in Claiming /\ sshClient'[e].at \in Claiming
           /\ OperationOf(d) = OperationOf(e) => d = e
    BY <2>1 DEF SshInv, ClaimsOK
  <2>4. QED BY <1>0, <2>1, <2>2, <2>3 DEF ClaimsOK
<1>9. NumbersOK'
  <2>1. NumbersOK
    BY DEF SshInv
  <2>2. \A d \in SshClients : sshClient'[d].at \in Collecting =>
           sshClient[d].at \in Collecting /\ sshClient'[d].number = sshClient[d].number
    BY <1>0, <1>1 DEF ClientMoved, Collecting, Claiming
  <2>3. QED BY <1>0, <2>1, <2>2 DEF NumbersOK
<1>10. \A d \in SshClients : sshClient[d].at \in Collecting =>
          \A k \in 1..(sshClient[d].next - 1) :
             <<sshClient[d].base, CollectionSteps[k]>> \in Operations
  <2> SUFFICES ASSUME NEW d \in SshClients, sshClient[d].at \in Collecting,
                      NEW k \in 1..(sshClient[d].next - 1)
               PROVE  <<sshClient[d].base, CollectionSteps[k]>> \in Operations
    OBVIOUS
  <2>1. sshClient[d].base \in Bases /\ sshClient[d].next \in DOMAIN CollectionSteps
    BY DEF SshInv, SshShapes, ClientOK, ClientAt, Collecting, Claiming
  <2>2. k \in DOMAIN CollectionSteps
    <3>1. CollectionSteps \in Seq(STRING)
      BY SshAssumption
    <3>2. DOMAIN CollectionSteps = 1..Len(CollectionSteps) /\ Len(CollectionSteps) \in Nat
      BY <3>1
    <3>3. QED BY <2>1, <3>2
  <2>3. QED BY <2>1, <2>2 DEF Operations, StepNames
<1>11. \A d \in SshClients : ProgressOK(d)'
  <2> SUFFICES ASSUME NEW d \in SshClients PROVE ProgressOK(d)'
    OBVIOUS
  <2>1. ProgressOK(d)
    BY DEF SshInv
  <2>2. sshClient[d].at \in Collecting =>
           \A k \in 1..(sshClient[d].next - 1) : NeededBy(d, CollectionSteps[k]) =>
              sent'[<<sshClient[d].base, CollectionSteps[k]>>] = <<sshClient[d].number>>
    BY <2>1, <1>6, <1>10, OneIsSome DEF ProgressOK
  <2>3. CASE d = c
    BY <1>0, <1>1, <1>3, <1>4, <2>2, <2>3 DEF ProgressOK, NeededBy, Collecting, Claiming
  <2>4. CASE d # c
    <3>1. sshClient'[d] = sshClient[d]
      BY <1>1, <2>4 DEF ClientMoved
    <3>2. sshClient[d].at \in {"release", "result"} => OperationOf(d) \in Operations
      BY OperationTyped DEF ClientAt
    <3>3. sshClient[d].at \in {"release", "result"} /\ sshClient[d].status = "passed" =>
             sent'[OperationOf(d)] = <<sshClient[d].number>>
      BY <1>6, <2>1, <3>2, OneIsSome DEF ProgressOK
    <3>4. QED BY <2>2, <3>1, <3>3 DEF ProgressOK, NeededBy, OperationOf, StepOf
  <2>5. QED BY <2>3, <2>4
<1>12. InventoryIsOneRun'
  <2>1. \A p \in Operations : Len(sent'[p]) <= 1
    BY <1>7 DEF SentOK
  <2>2. ASSUME NEW i \in collected, i.passed, NEW s \in RequiredSteps \cup {"connect"}
        PROVE  sent'[<<i.base, s>>] = <<i.number>>
    <3>1. i.base \in Bases /\ sent[<<i.base, s>>] = <<i.number>>
      BY <2>2 DEF SshInv, SshShapes, InventoryIsOneRun
    <3>2. <<i.base, s>> \in Operations
      BY <2>2, <3>1, SshAssumption DEF Operations, StepNames, RequiredSteps
    <3>3. QED BY <1>6, <3>1, <3>2, OneIsSome
  <2>3. QED BY <1>0, <2>1, <2>2 DEF SshInv, InventoryIsOneRun
<1>13. QED BY <1>5, <1>7, <1>8, <1>9, <1>11, <1>12 DEF SshInv

\* An inventory that passes has sent every operation it needs.
LEMMA TakeResultKeeps ==
    ASSUME NEW c \in SshClients, SshInv, TakeResult(c)
    PROVE  SshInv'
<1> DEFINE i == sshClient[c]
           j == sshClient'[c]
           required == i.required /\ (StepOf(c) \in RequiredSteps => OperationPassed(c))
           over == i.next = Len(CollectionSteps)
           lost == StepOf(c) = "connect" /\ ~OperationPassed(c)
           passed == over /\ ~lost /\ required /\ RecordsComplete(i.records)
           made == [Inventory(c) EXCEPT !.passed = passed]
<1>0. /\ ClientOK(c) /\ ProgressOK(c) /\ i.at = "result"
      /\ i.base \in Bases /\ i.number \in 1..inventories /\ inventories \in Nat
      /\ UNCHANGED <<operationClaims, knownHosts, sent, trusted, receiptClaims, signed,
                     inventories, sshFaults>>
  BY DEF SshInv, SshShapes, TakeResult, ClientAt, ClientOK
<1>1. /\ ClientMoved(c) /\ IsCollection(j)
      /\ j.at = (IF over \/ lost THEN "seal" ELSE "claim")
      /\ j.next = (IF over \/ lost THEN i.next ELSE i.next + 1)
      /\ j.base = i.base /\ j.number = i.number /\ j.required = required
  <2>1. PICK a, n, r, q :
           /\ sshClient' = [sshClient EXCEPT ![c].at = a, ![c].next = n, ![c].status = "none",
                                             ![c].required = r, ![c].passed = q]
           /\ a = (IF over \/ lost THEN "seal" ELSE "claim")
           /\ n = (IF over \/ lost THEN i.next ELSE i.next + 1)
           /\ r = required
    BY DEF TakeResult
  <2>2. IsCollection(sshClient[c]) /\ sshClient = [d \in SshClients |-> sshClient[d]]
    BY DEF SshInv, SshShapes, ClientOK
  <2>3. ClientMoved(c)
    BY <2>1, <2>2 DEF ClientMoved
  <2>4. PICK k : k = sshClient[c]
    OBVIOUS
  <2>5. PICK l : l = sshClient'[c]
    OBVIOUS
  <2> HIDE DEF required, over, lost
  <2>6. l = [k EXCEPT !.at = a, !.next = n, !.status = "none", !.required = r, !.passed = q]
    BY <2>1, <2>2, <2>4, <2>5
  <2>7. IsCollection(l)
    BY <2>2, <2>4, <2>6 DEF IsCollection
  <2>8. l.at = a /\ l.base = k.base /\ l.number = k.number
    BY <2>2, <2>4, <2>6 DEF IsCollection
  <2>9. l.next = n /\ l.required = r
    BY <2>2, <2>4, <2>6 DEF IsCollection
  <2>10. QED BY <2>1, <2>3, <2>4, <2>5, <2>7, <2>8, <2>9
<1>2. collected' = IF over \/ lost THEN collected \cup {made} ELSE collected
  BY DEF TakeResult
<1>3. made.number = i.number /\ made.base = i.base /\ made.passed = passed
  BY DEF Inventory
<1>4. DOMAIN CollectionSteps = 1..Len(CollectionSteps) /\ Len(CollectionSteps) \in Nat
  BY SshAssumption
<1>5. passed => \A s \in RequiredSteps \cup {"connect"} : sent[<<i.base, s>>] = <<i.number>>
  <2> SUFFICES ASSUME passed, NEW s \in RequiredSteps \cup {"connect"}
               PROVE  sent[<<i.base, s>>] = <<i.number>>
    OBVIOUS
  <2>1. PICK k \in DOMAIN CollectionSteps : CollectionSteps[k] = s
    BY SshAssumption DEF RequiredSteps, StepNames
  <2>2. NeededBy(c, CollectionSteps[k])
    BY <2>1 DEF NeededBy
  <2>3. CASE k = i.next
    <3>1. CollectionSteps[k] = StepOf(c) /\ OperationPassed(c)
      BY <2>1, <2>3 DEF StepOf
    <3>2. sent[OperationOf(c)] = <<i.number>>
      BY <1>0, <3>1 DEF ProgressOK, OperationPassed
    <3>3. QED BY <2>1, <3>1, <3>2 DEF OperationOf
  <2>4. CASE k # i.next
    <3>1. k \in 1..(i.next - 1)
      BY <1>4, <2>4
    <3>2. QED BY <1>0, <2>1, <2>2, <3>1 DEF ProgressOK, Collecting, Claiming
  <2>5. QED BY <2>3, <2>4
<1> HIDE DEF made, passed
<1>6. ClientOK(c)'
  <2>1. ~over => i.next + 1 \in DOMAIN CollectionSteps
    BY <1>0, <1>4 DEF ClientOK
  <2>2. j.next \in DOMAIN CollectionSteps
    BY <1>0, <1>1, <2>1 DEF ClientOK
  <2>3. j.at \in {"seal", "claim"} /\ j.required \in BOOLEAN
    BY <1>1
  <2> HIDE DEF required, over, lost
  <2>4. QED BY <1>0, <1>1, <2>2, <2>3 DEF ClientOK, ClientAt, ClientSteps, Collecting
<1>7. over \/ lost => \A k \in collected : k.number # i.number
  BY <1>0 DEF SshInv, NumbersOK, Collecting
<1>8. \A k \in collected' : k \in collected \/ (k = made /\ (over \/ lost))
  BY <1>2
<1>9. SshShapes'
  <2>1. \A k \in collected' : k.number \in 1..inventories /\ k.base \in Bases
    BY <1>0, <1>3, <1>8 DEF SshInv, SshShapes
  <2>2. \A d \in SshClients : ClientOK(d)'
    BY <1>0, <1>1, <1>6 DEF SshInv, SshShapes, ClientMoved, ClientOK, ClientAt
  <2>3. QED BY <1>0, <1>1, <2>1, <2>2 DEF SshInv, SshShapes, ClientMoved
<1>10. SentOK' /\ AttestedOK'
  <2>1. collected \subseteq collected'
    BY <1>2
  <2>2. QED BY <1>0, <2>1 DEF SshInv, SentOK, AttestedOK
<1>11. ClaimsOK'
  BY <1>0, <1>1 DEF SshInv, ClaimsOK, Claiming, ClientMoved, OperationOf, StepOf
<1>12. NumbersOK'
  <2>1. \A d \in SshClients : sshClient'[d].at \in Collecting =>
           /\ sshClient[d].at \in Collecting /\ sshClient'[d].number = sshClient[d].number
           /\ over \/ lost => d # c
    BY <1>0, <1>1 DEF ClientMoved, Collecting, Claiming
  <2>2. \A d \in SshClients, k \in collected' :
           sshClient'[d].at \in Collecting => sshClient[d].number # k.number
    BY <1>0, <1>3, <1>8, <2>1 DEF SshInv, NumbersOK, Collecting
  <2>3. \A k, l \in collected' : k.number = l.number => k = l
    BY <1>3, <1>7, <1>8 DEF SshInv, NumbersOK
  <2>4. QED BY <2>1, <2>2, <2>3 DEF SshInv, NumbersOK
<1>13. \A d \in SshClients : ProgressOK(d)'
  <2> SUFFICES ASSUME NEW d \in SshClients PROVE ProgressOK(d)'
    OBVIOUS
  <2>1. CASE d = c
    <3> SUFFICES ASSUME j.at = "claim", NEW k \in 1..(j.next - 1),
                        NeededBy(c, CollectionSteps[k])'
                 PROVE  sent[<<i.base, CollectionSteps[k]>>] = <<i.number>>
      BY <1>0, <1>1, <2>1 DEF ProgressOK, Collecting, Claiming
    <3>1. ~over /\ ~lost /\ j.next = i.next + 1
      BY <1>1
    <3>2. NeededBy(c, CollectionSteps[k])
      BY <1>1 DEF NeededBy
    <3>3. CASE k = i.next
      <4>1. CollectionSteps[k] = StepOf(c)
        BY <3>3 DEF StepOf
      <4>2. OperationPassed(c)
        BY <1>1, <3>1, <4>1 DEF NeededBy
      <4>3. sent[OperationOf(c)] = <<i.number>>
        BY <1>0, <4>2 DEF ProgressOK, OperationPassed
      <4>4. QED BY <4>1, <4>3 DEF OperationOf
    <3>4. CASE k # i.next
      <4>1. k \in 1..(i.next - 1)
        BY <1>0, <1>4, <3>1, <3>4 DEF ClientOK
      <4>2. QED BY <1>0, <3>2, <4>1 DEF ProgressOK, Collecting, Claiming
    <3>5. QED BY <3>3, <3>4
  <2>2. CASE d # c
    <3>1. sshClient'[d] = sshClient[d] /\ sent' = sent /\ ProgressOK(d)
      BY <1>0, <1>1, <2>2 DEF ClientMoved, SshInv
    <3>2. QED BY <3>1 DEF ProgressOK, NeededBy, OperationOf, StepOf
  <2>3. QED BY <2>1, <2>2
<1>14. InventoryIsOneRun'
  <2>1. ASSUME NEW k \in collected', k.passed, NEW s \in RequiredSteps \cup {"connect"}
        PROVE  sent[<<k.base, s>>] = <<k.number>>
    BY <2>1, <1>3, <1>5, <1>8 DEF SshInv, InventoryIsOneRun
  <2>2. QED BY <1>0, <2>1 DEF SshInv, InventoryIsOneRun
<1>15. QED BY <1>9, <1>10, <1>11, <1>12, <1>13, <1>14 DEF SshInv

-----------------------------------------------------------------------------
(* Inventory collection: the attestor and its evidence *)

\* What the clients, the ledger and the inventories keep when only the attestor
\* and the observer act.
LEMMA AttestorStepKeeps ==
    ASSUME SshInv, AttestedOK', sshFaults' \in 0..MaxSshFaults,
           UNCHANGED <<operationClaims, knownHosts, sshClient, sent, collected, inventories>>,
           \A m, n \in DOMAIN signed' : signed'[m].inventory = signed'[n].inventory => m = n,
           \A n \in DOMAIN signed' : signed'[n].inventory.passed
    PROVE  SshInv'
<1>1. SshShapes'
  BY DEF SshInv, SshShapes, ClientOK, ClientAt
<1>2. SentOK' /\ InventoryIsOneRun'
  BY DEF SshInv, SentOK, InventoryIsOneRun
<1>3. ClaimsOK' /\ NumbersOK'
  BY DEF SshInv, ClaimsOK, NumbersOK, OperationOf, StepOf
<1>4. \A c \in SshClients : ProgressOK(c)'
  BY DEF SshInv, ProgressOK, NeededBy, OperationOf, StepOf
<1>5. QED BY <1>1, <1>2, <1>3, <1>4 DEF SshInv

\* A signature of an inventory that was made.
LEMMA PresentReceiptKeeps ==
    ASSUME NEW i \in collected, SshInv, PresentReceipt(i)
    PROVE  SshInv'
<1> DEFINE r == Receipt(i, Operation(i.base, "inventory"))
<1>0. /\ UNCHANGED <<operationClaims, knownHosts, sshClient, sent, collected, trusted,
                     inventories, sshFaults>>
      /\ AttestedOK
      /\ \A m, n \in DOMAIN signed : signed[m].inventory = signed[n].inventory => m = n
      /\ \A n \in DOMAIN signed : signed[n].inventory.passed
      /\ sshFaults' \in 0..MaxSshFaults
  BY DEF PresentReceipt, SshInv, SshShapes, InventoryIsOneRun
<1>1. CASE UNCHANGED <<receiptClaims, signed>>
  <2>1. AttestedOK'
    BY <1>0, <1>1 DEF AttestedOK
  <2>2. QED BY <1>0, <1>1, <2>1, AttestorStepKeeps
<1>2. CASE ~UNCHANGED <<receiptClaims, signed>>
  <2>1. /\ Vouched(r) /\ r \notin receiptClaims
        /\ receiptClaims' = receiptClaims \cup {r} /\ signed' = Append(signed, r)
    BY <1>2 DEF PresentReceipt, Attest, Approves, Claimable
  <2>2. r.inventory = i /\ r.path = Operation(i.base, "inventory")
    BY DEF Receipt
  <2>3. i.passed
    <3>1. PICK e \in trusted : e.status /\ e.digest = i.number
      BY <2>1, <2>2 DEF Vouched, Evidence, TrustedRecords
    <3>2. PICK k \in collected : e.digest = k.number /\ e.status = k.passed
      BY <1>0 DEF AttestedOK
    <3>3. k = i
      BY <3>1, <3>2 DEF SshInv, NumbersOK
    <3>4. QED BY <3>1, <3>2, <3>3
  <2> HIDE DEF r
  <2>4. signed \in Seq(receiptClaims) /\ signed \in Seq(receiptClaims') /\ r \in receiptClaims'
    <3>1. receiptClaims \subseteq receiptClaims' /\ r \in receiptClaims'
      BY <2>1
    <3>2. signed \in Seq(receiptClaims)
      BY <1>0 DEF AttestedOK
    <3>3. QED BY <3>1, <3>2, SeqMonotonic
  <2>5. /\ signed' \in Seq(receiptClaims') /\ Len(signed') = Len(signed) + 1
        /\ Len(signed) \in Nat
        /\ \A n \in 1..Len(signed) : signed'[n] = signed[n]
        /\ signed'[Len(signed) + 1] = r
    BY <2>1, <2>4
  <2>6. /\ DOMAIN signed = 1..Len(signed) /\ DOMAIN signed' = 1..(Len(signed) + 1)
        /\ \A n \in DOMAIN signed : signed[n] \in receiptClaims
    BY <2>4, <2>5
  <2>7. \A n \in DOMAIN signed' :
           \/ n \in DOMAIN signed /\ signed'[n] = signed[n]
           \/ n = Len(signed) + 1 /\ signed'[n] = r
    BY <2>5, <2>6
  <2>8. r = Receipt(r.inventory, Operation(r.inventory.base, "inventory"))
    BY <2>2 DEF r
  <2>9. \A n \in DOMAIN signed : signed[n].inventory # i
    BY <1>0, <2>1, <2>2, <2>6, <2>8 DEF AttestedOK
  <2>10. AttestedOK'
    BY <1>0, <2>5, <2>7, <2>8 DEF AttestedOK
  <2>11. \A m, n \in DOMAIN signed' : signed'[m].inventory = signed'[n].inventory => m = n
    BY <1>0, <2>2, <2>7, <2>9
  <2>12. \A n \in DOMAIN signed' : signed'[n].inventory.passed
    BY <1>0, <2>2, <2>3, <2>7
  <2>13. QED BY <1>0, <2>10, <2>11, <2>12, AttestorStepKeeps
<1>3. QED BY <1>1, <1>2

\* A claim without a signature.
LEMMA AttestorDiesKeeps ==
    ASSUME NEW i \in collected, SshInv, AttestorDies(i)
    PROVE  SshInv'
<1>1. /\ UNCHANGED <<operationClaims, knownHosts, sshClient, sent, collected, trusted, signed,
                     inventories>>
      /\ sshFaults' \in 0..MaxSshFaults /\ receiptClaims \subseteq receiptClaims'
  BY SshFaultOK DEF AttestorDies
<1>2. signed' \in Seq(receiptClaims')
  BY <1>1, SeqMonotonic DEF SshInv, AttestedOK
<1>3. AttestedOK'
  BY <1>1, <1>2 DEF SshInv, AttestedOK
<1>4. QED BY <1>1, <1>3, AttestorStepKeeps DEF SshInv, InventoryIsOneRun

\* The observer's record is of an inventory that was made.
LEMMA RecordEvidenceKeeps ==
    ASSUME NEW i \in collected, SshInv, RecordEvidence(i)
    PROVE  SshInv'
<1> DEFINE e == TrustedEvidence(i)
<1>1. /\ trusted' = trusted \cup {e} /\ sshFaults' \in 0..MaxSshFaults
      /\ UNCHANGED <<operationClaims, knownHosts, sshClient, sent, collected, receiptClaims,
                     signed, inventories>>
  BY DEF RecordEvidence, SshInv, SshShapes
<1>2. /\ e = [base |-> e.base, digest |-> e.digest, status |-> e.status,
              records |-> e.records, roots |-> e.roots, fresh |-> e.fresh]
      /\ e.base = i.base /\ e.digest = i.number /\ e.status = i.passed
  BY DEF TrustedEvidence
<1> HIDE DEF e
<1>3. AttestedOK'
  BY <1>1, <1>2 DEF SshInv, AttestedOK
<1>4. QED BY <1>1, <1>3, AttestorStepKeeps DEF SshInv, InventoryIsOneRun

\* Evidence ages and stays about its inventory.
LEMMA EvidenceAgesKeeps ==
    ASSUME SshInv, EvidenceAges
    PROVE  SshInv'
<1>1. /\ trusted' = {[e EXCEPT !.fresh = FALSE] : e \in trusted} /\ sshFaults' \in 0..MaxSshFaults
      /\ UNCHANGED <<operationClaims, knownHosts, sshClient, sent, collected, receiptClaims,
                     signed, inventories>>
  BY SshFaultOK DEF EvidenceAges
<1>2. ASSUME NEW f \in trusted'
      PROVE  /\ f = [base |-> f.base, digest |-> f.digest, status |-> f.status,
                     records |-> f.records, roots |-> f.roots, fresh |-> f.fresh]
             /\ \E i \in collected : f.base = i.base /\ f.digest = i.number /\ f.status = i.passed
  <2>1. PICK e \in trusted : f = [e EXCEPT !.fresh = FALSE]
    BY <1>1
  <2>2. e = [base |-> e.base, digest |-> e.digest, status |-> e.status,
             records |-> e.records, roots |-> e.roots, fresh |-> e.fresh]
    BY DEF SshInv, AttestedOK
  <2>3. f = [base |-> e.base, digest |-> e.digest, status |-> e.status,
             records |-> e.records, roots |-> e.roots, fresh |-> FALSE]
    BY <2>1, <2>2
  <2>4. QED BY <2>3 DEF SshInv, AttestedOK
<1>3. AttestedOK'
  BY <1>1, <1>2 DEF SshInv, AttestedOK
<1>4. QED BY <1>1, <1>3, AttestorStepKeeps DEF SshInv, InventoryIsOneRun

\* The client's own receipt names another path than the one that the attestor
\* approves, and is refused.
LEMMA SealInventoryKeeps ==
    ASSUME NEW c \in SshClients, SshInv, SealInventory(c)
    PROVE  SshInv'
<1>1. ~Approves(SealedReceipt(c))
  <2>1. SealedReceipt(c).path = <<sshClient[c].base>>
    BY DEF SealedReceipt, Receipt
  <2>2. Operation(SealedReceipt(c).inventory.base, "inventory") # <<sshClient[c].base>>
    BY DEF Operation
  <2>3. QED BY <2>1, <2>2 DEF Approves
<1>2. /\ ClientTo(c, "refused") /\ sshClient[c].at = "seal"
      /\ UNCHANGED <<operationClaims, knownHosts, sent, collected, trusted, receiptClaims,
                     signed, inventories, sshFaults>>
  BY <1>1 DEF SealInventory, Attest, AttestorAnswer, ClientAt
<1>3. /\ ClientMoved(c) /\ IsCollection(sshClient'[c]) /\ sshClient'[c].at = "refused"
      /\ sshClient'[c].base = sshClient[c].base /\ sshClient'[c].number = sshClient[c].number
      /\ sshClient'[c].next = sshClient[c].next
      /\ sshClient'[c].required = sshClient[c].required
  BY <1>2, ClientToOK
<1>4. ClientOK(c)
  BY DEF SshInv, SshShapes
<1>5. ClientOK(c)' /\ ProgressOK(c)'
  BY <1>2, <1>3, <1>4
     DEF ClientOK, ClientAt, ClientSteps, ProgressOK, Collecting, Claiming
<1>6. ClientStep(c)
  BY <1>2, <1>3, <1>5 DEF ClientStep, Collecting, Claiming, SshInv, SshShapes
<1>7. QED BY <1>6, ClientStepKeeps

-----------------------------------------------------------------------------
(* Inventory collection: theorems *)

\* The invariant holds initially.
LEMMA SshInitOK == SshInit => SshInv
<1> SUFFICES ASSUME SshInit PROVE SshInv
  OBVIOUS
<1>1. \A c \in SshClients : sshClient[c] = NoCollection
  BY DEF SshInit
<1>2. \A c \in SshClients : ClientOK(c)
  <2>1. 0 \in 0..inventories
    BY DEF SshInit
  <2>2. QED BY <1>1, <2>1, NoCollectionOK DEF ClientOK, ClientAt, ClientSteps
<1>3. SshShapes
  <2>1. sent \in [Operations -> Seq(1..inventories)]
    BY DEF SshInit
  <2>2. QED BY <1>2, <2>1, SshAssumption DEF SshShapes, SshInit
<1>4. ClaimsOK /\ NumbersOK /\ \A c \in SshClients : ProgressOK(c)
  BY <1>1, NoCollectionOK DEF ClaimsOK, NumbersOK, ProgressOK, Collecting, Claiming, SshInit
<1>5. \A o \in Operations : sent[o] = <<>> /\ Len(sent[o]) = 0
  BY DEF SshInit
<1>6. SentOK /\ AttestedOK /\ InventoryIsOneRun
  BY <1>5 DEF SentOK, AttestedOK, InventoryIsOneRun, SshInit
<1>7. QED BY <1>3, <1>4, <1>6 DEF SshInv

\* Stuttering changes nothing.
LEMMA SshStutterKeeps ==
    ASSUME SshInv, UNCHANGED sshVars
    PROVE  SshInv'
<1>1. AttestedOK'
  BY DEF SshInv, AttestedOK, sshVars
<1>2. QED BY <1>1, AttestorStepKeeps DEF SshInv, SshShapes, InventoryIsOneRun, sshVars

\* Every step keeps it.
LEMMA SshNextKeeps == SshInv /\ [SshNext]_sshVars => SshInv'
<1> SUFFICES ASSUME SshInv, [SshNext]_sshVars PROVE SshInv'
  OBVIOUS
<1>1. CASE UNCHANGED sshVars
  BY <1>1, SshStutterKeeps
<1>2. ASSUME NEW c \in SshClients, NEW b \in Bases, BeginInventory(c, b)
      PROVE  SshInv'
  BY <1>2, BeginInventoryKeeps
<1>3. ASSUME NEW c \in SshClients,
             \/ ClaimOperation(c) \/ ClaimOrResolveFails(c) \/ ResolveCredential(c)
             \/ PersistHostKey(c) \/ WriteHostKey(c) \/ HostKeyRefused(c)
             \/ RunOperation(c) \/ ReleaseCredential(c) \/ ReleaseFails(c) \/ TakeResult(c)
             \/ SealInventory(c) \/ EndInventory(c) \/ ClientDies(c)
      PROVE  SshInv'
  BY <1>3, ClaimOperationKeeps, AbortingKeeps, PreparingKeeps, RunOperationKeeps,
     ReleaseCredentialKeeps, TakeResultKeeps, SealInventoryKeeps
<1>4. ASSUME NEW i \in collected, PresentReceipt(i) \/ AttestorDies(i) \/ RecordEvidence(i)
      PROVE  SshInv'
  BY <1>4, PresentReceiptKeeps, AttestorDiesKeeps, RecordEvidenceKeeps
<1>5. CASE EvidenceAges
  BY <1>5, EvidenceAgesKeeps
<1>6. QED BY <1>1, <1>2, <1>3, <1>4, <1>5 DEF SshNext

\* The inductive invariant holds of every run of the clients and the attestor.
THEOREM SshInvariant == SshSpec => []SshInv
<1>1. QED BY SshInitOK, SshNextKeeps, PTL DEF SshSpec

\* The clients, their ledger and the attestor have their types.
THEOREM SshTypeCorrect == SshSpec => []SshTypeOK
<1>1. SshInv => SshTypeOK
  BY DEF SshInv, SshShapes, ClientOK, SshTypeOK
<1>2. QED BY <1>1, SshInvariant, PTL

\* The commands of an operation are sent once, an inventory that passed rests on
\* commands that it sent itself, and an inventory is signed at most once.
THEOREM InventoriesAreOneRun == SshSpec => []InventoryIsOneRun
<1>1. SshInv => InventoryIsOneRun
  BY DEF SshInv
<1>2. QED BY <1>1, SshInvariant, PTL

-----------------------------------------------------------------------------
(* The services side by side *)

\* Remediation has two parts; every step of both is one of RemediationNext.
LEMMA PartsStep ==
    ASSUME [MCNext]_serviceVars
    PROVE  /\ [CustodyNext]_custodyVars /\ [DatabaseNext]_databaseVars
           /\ [ReadinessNext]_readinessVars /\ [MirrorNext]_mirrorVars
           /\ [MonitoringNext]_monitoringVars /\ [WorkerNext]_workerVars
           /\ [SshNext]_sshVars /\ [RemediationNext]_remediationVars
BY DEF MCNext, serviceVars, Rests, JobNext, TakenBackNext, PatchingNext, ReviewNext

\* Where one of the services is chosen, as in MCServices, and the others stay as they
\* are, each is what it is alone: what holds of it holds of the composition.
THEOREM ServicesCompose ==
    MCSpec => /\ CustodySpec /\ DatabaseSpec /\ ReadinessSpec /\ MirrorSpec
              /\ MonitoringSpec /\ WorkerSpec /\ SshSpec /\ RemediationSpec
<1>1. MCInit => /\ CustodyInit /\ DatabaseInit /\ ReadinessInit /\ MirrorInit
                /\ MonitoringInit /\ WorkerInit /\ SshInit /\ RemediationInit
  BY DEF MCInit
<1> QED BY <1>1, PartsStep, PTL
        DEF MCSpec, CustodySpec, DatabaseSpec, ReadinessSpec, MirrorSpec, MonitoringSpec,
            WorkerSpec, SshSpec, RemediationSpec

\* Every variable of the service that runs keeps its type.
THEOREM ServicesTypeCorrect == MCSpec => []ServicesTypeOK
<1>1. /\ CustodyTypeOK /\ DatabaseTypeOK /\ ReadinessTypeOK /\ MirrorTypeOK
      /\ MonitoringTypeOK /\ WorkerTypeOK /\ SshTypeOK /\ RemediationTypeOK
      => ServicesTypeOK
  BY DEF ServicesTypeOK
<1> QED BY <1>1, ServicesCompose, CustodyTypeCorrect, DatabaseTypeCorrect, ReadinessTypeCorrect,
           MirrorTypeCorrect, MonitoringTypeCorrect, WorkerTypeCorrect, SshTypeCorrect,
           RemediationTypeCorrect, PTL

=============================================================================
