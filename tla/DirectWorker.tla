---------------------------- MODULE DirectWorker ----------------------------
(***************************************************************************)
(* The two one-shot services of the direct model worker                    *)
(* (scripts/direct_deepseek_worker.py): "request" asks the model for a     *)
(* patch and stores it, "apply" runs the stored patch in a disposable      *)
(* clone and publishes a receipt.  They share a state directory and a      *)
(* lock that is never waited for; what they clean up and publish, they do  *)
(* after they released it.                                                 *)
(*                                                                         *)
(* An answer of the model is its number; whether it applies, stays in      *)
(* scope and passes the tests is chosen when that is checked.              *)
(***************************************************************************)
EXTENDS Naturals, FiniteSets, Sequences

CONSTANTS RunIds,          \* ids that requests and applications are started with
          WorkerProcesses, \* processes of the two services
          Commits,         \* heads of the coordinator's checkout
          MaxInvocations,  \* bound on the processes started
          MaxAccidents     \* bound on crashes, failures and changes by others

ASSUME WorkerAssumption ==
    /\ MaxInvocations \in Nat /\ MaxAccidents \in Nat
    /\ RunIds # {} /\ Commits # {}

VARIABLES
    checkout,     \* the coordinator's checkout: its head, and whether it is clean
    modelFile,    \* the model that the model file names, 1 or 2
    requested,    \* [run -> the directory requests/<run>, in a set]
    consumed,     \* runs with a directory consumed/<run>
    results,      \* [run -> the patch and the receipt in results/]
    workerLock,   \* the process that holds requests/.worker.lock, in a set
    invocation,   \* [process -> its progress]
    tested,       \* [run -> the answers that were run and tested, in order of time]
    answered,     \* number of answers the model gave
    invoked,      \* number of processes started
    accidents

workerVars == <<checkout, modelFile, requested, consumed, results, workerLock,
                invocation, tested, answered, invoked, accidents>>

NoInvocation == [at |-> "none", run |-> CHOOSE r \in RunIds : TRUE,
                 head |-> CHOOSE c \in Commits : TRUE, model |-> 1, made |-> FALSE,
                 answer |-> 0, verdict |-> "none"]
NoResults == [patch |-> {}, receipt |-> "none"]

WorkerInit ==
    /\ checkout \in {[head |-> c, clean |-> TRUE] : c \in Commits}
    /\ modelFile = 1
    /\ requested = [r \in RunIds |-> {}]
    /\ consumed = {}
    /\ results = [r \in RunIds |-> NoResults]
    /\ workerLock = {}
    /\ invocation = [p \in WorkerProcesses |-> NoInvocation]
    /\ tested = [r \in RunIds |-> <<>>]
    /\ answered = 0
    /\ invoked = 0
    /\ accidents = 0

InvocationAt(p, at) == invocation[p].at = at
RunOf(p) == invocation[p].run
Proceed(p, at) == invocation' = [invocation EXCEPT ![p].at = at]
FailTo(p, at) == invocation' = [invocation EXCEPT ![p].at = at, ![p].verdict = "FAILED"]
Leave(p) == invocation' = [invocation EXCEPT ![p] = NoInvocation]
Mishap == accidents < MaxAccidents /\ accidents' = accidents + 1

\* What git says of the checkout, and the files that the services share.
GitStatus == [head |-> checkout.head, dirty |-> ~checkout.clean]
LoadModel == modelFile
Consumed(r) == r \in consumed
RequestRoot(p) == requested[RunOf(p)]
Readable(p) == {d \in RequestRoot(p) : d.task # {} /\ d.completion # {}}

\* The checkout is as it was when the process began.
Unmoved(p) == GitStatus = [head |-> invocation[p].head, dirty |-> FALSE]

-----------------------------------------------------------------------------
(* request_completion *)

\* Before the lock: the id is not consumed and the checkout is clean.
BeginRequest(p, r) ==
    /\ InvocationAt(p, "none") /\ invoked < MaxInvocations
    /\ invoked' = invoked + 1
    /\ ~Consumed(r) /\ ~GitStatus.dirty
    /\ invocation' = [invocation EXCEPT ![p] =
           [NoInvocation EXCEPT !.at = "request_lock", !.run = r,
                                !.head = GitStatus.head, !.model = LoadModel]]
    /\ UNCHANGED <<checkout, modelFile, requested, consumed, results, workerLock,
                   tested, answered, accidents>>

\* The lock is held by another process: the request is refused.
RequestBusy(p) ==
    /\ InvocationAt(p, "request_lock") /\ workerLock # {}
    /\ Leave(p)
    /\ UNCHANGED <<checkout, modelFile, requested, consumed, results, workerLock,
                   tested, answered, invoked, accidents>>

\* Mutant: whether the id is consumed is not looked at again under the lock.
UncheckedRequest(p) == RequestRoot(p) = {}

\* _new_request_root: neither the request nor its tombstone exists.
NewRequest(p) == RequestRoot(p) = {} /\ ~Consumed(RunOf(p))

\* Under the lock: the checkout did not change, and the directory is made.
LockRequest(p) ==
    /\ InvocationAt(p, "request_lock") /\ workerLock = {}
    /\ workerLock' = {p}
    /\ IF Unmoved(p) /\ NewRequest(p)
       THEN /\ requested' = [requested EXCEPT ![RunOf(p)] = {[task |-> {}, completion |-> {}]}]
            /\ invocation' = [invocation EXCEPT ![p].at = "seal", ![p].made = TRUE]
       ELSE FailTo(p, "request_unlock") /\ UNCHANGED requested
    /\ UNCHANGED <<checkout, modelFile, consumed, results, tested, answered, invoked, accidents>>

\* seal_task_packet writes the packet, bound to the head, into the directory.
SealPacket(p) ==
    /\ InvocationAt(p, "seal")
    /\ \E d \in RequestRoot(p) :
          requested' = [requested EXCEPT ![RunOf(p)] = {[d EXCEPT !.task = {invocation[p].head}]}]
    /\ Proceed(p, "ask")
    /\ UNCHANGED <<checkout, modelFile, consumed, results, workerLock, tested, answered,
                   invoked, accidents>>

\* The packet is refused, or its directory has gone.
PacketRefused(p) ==
    /\ InvocationAt(p, "seal")
    /\ RequestRoot(p) # {} => Mishap
    /\ RequestRoot(p) = {} => UNCHANGED accidents
    /\ FailTo(p, "request_unlock")
    /\ UNCHANGED <<checkout, modelFile, requested, consumed, results, workerLock, tested,
                   answered, invoked>>

\* What the model may send: it reaches the client or not, its text has the required
\* form or not, and it lists the files it changes beside the diff that changes them.
AllowedPaths == {"in", "in2"}
Replies == [arrives : BOOLEAN, formed : BOOLEAN, model : {1, 2},
            files : {{}, {"in"}, {"in", "in2"}, {"in", "out"}},
            diff : {<<>>, <<"in">>, <<"in", "in">>, <<"in", "in2">>, <<"in", "out">>}]

\* DirectDeepSeekClient.complete
CompletionArrives(reply) == reply.arrives

\* _diff_paths: at least one header, and no path twice.
IsDiff(diff) == diff # <<>> /\ Len(diff) = Cardinality({diff[i] : i \in DOMAIN diff})

\* parse_worker_output: the files are allowed and are those of the diff.
ParsesOutput(reply) ==
    /\ reply.formed
    /\ reply.files # {} /\ reply.files \subseteq AllowedPaths
    /\ IsDiff(reply.diff) /\ {reply.diff[i] : i \in DOMAIN reply.diff} = reply.files

Accepts(p, reply) ==
    CompletionArrives(reply) /\ reply.model = invocation[p].model /\ ParsesOutput(reply)

\* The model answers and the answer is acceptable.
ModelAnswers(p) ==
    /\ InvocationAt(p, "ask")
    /\ \E reply \in Replies : Accepts(p, reply)
    /\ answered' = answered + 1
    /\ invocation' = [invocation EXCEPT ![p].at = "store", ![p].answer = answered + 1]
    /\ UNCHANGED <<checkout, modelFile, requested, consumed, results, workerLock, tested,
                   invoked, accidents>>

\* It does not, or another model answers, or the answer is not acceptable.
ModelFails(p) ==
    /\ InvocationAt(p, "ask") /\ Mishap
    /\ \E reply \in Replies : ~Accepts(p, reply)
    /\ FailTo(p, "request_unlock")
    /\ UNCHANGED <<checkout, modelFile, requested, consumed, results, workerLock, tested,
                   answered, invoked>>

\* _atomic_write makes the directory again when it has gone.
StoreCompletion(p) ==
    /\ InvocationAt(p, "store")
    /\ requested' = [requested EXCEPT ![RunOf(p)] =
           {[task |-> UNION {d.task : d \in @},
             completion |-> {[answer |-> invocation[p].answer, model |-> invocation[p].model]}]}]
    /\ invocation' = [invocation EXCEPT ![p].at = "request_unlock", ![p].verdict = "PASS"]
    /\ UNCHANGED <<checkout, modelFile, consumed, results, workerLock, tested, answered,
                   invoked, accidents>>

\* The lock is released before a request that failed removes its directory.
UnlockRequest(p) ==
    /\ InvocationAt(p, "request_unlock")
    /\ workerLock' = {}
    /\ IF invocation[p].verdict = "FAILED" /\ invocation[p].made
       THEN Proceed(p, "request_clean") ELSE Leave(p)
    /\ UNCHANGED <<checkout, modelFile, requested, consumed, results, tested, answered,
                   invoked, accidents>>

CleanRequest(p) ==
    /\ InvocationAt(p, "request_clean")
    /\ requested' = [requested EXCEPT ![RunOf(p)] = {}]
    /\ Leave(p)
    /\ UNCHANGED <<checkout, modelFile, consumed, results, workerLock, tested, answered,
                   invoked, accidents>>

-----------------------------------------------------------------------------
(* execute_stored_worker *)

BeginApply(p, r) ==
    /\ InvocationAt(p, "none") /\ invoked < MaxInvocations
    /\ invoked' = invoked + 1
    /\ ~Consumed(r) /\ ~GitStatus.dirty
    /\ invocation' = [invocation EXCEPT ![p] =
           [NoInvocation EXCEPT !.at = "apply_lock", !.run = r, !.head = GitStatus.head]]
    /\ UNCHANGED <<checkout, modelFile, requested, consumed, results, workerLock,
                   tested, answered, accidents>>

\* The lock is held: the run has failed, and a receipt will say so.
ApplyBusy(p) ==
    /\ InvocationAt(p, "apply_lock") /\ workerLock # {}
    /\ FailTo(p, "apply_clean")
    /\ UNCHANGED <<checkout, modelFile, requested, consumed, results, workerLock,
                   tested, answered, invoked, accidents>>

\* Under the lock: a checkout that changed is a failure, an id consumed meanwhile
\* is an error without a receipt, and else the request is there or not.
LockApply(p) ==
    /\ InvocationAt(p, "apply_lock") /\ workerLock = {}
    /\ workerLock' = {p}
    /\ \/ ~Unmoved(p) /\ FailTo(p, "apply_unlock")
       \/ /\ Unmoved(p) /\ Consumed(RunOf(p))
          /\ invocation' = [invocation EXCEPT ![p].at = "apply_unlock", ![p].verdict = "raise"]
       \/ /\ Unmoved(p) /\ ~Consumed(RunOf(p))
          /\ invocation' = [invocation EXCEPT ![p].at = "load", ![p].model = LoadModel,
                                              ![p].made = RequestRoot(p) # {}]
    /\ UNCHANGED <<checkout, modelFile, requested, consumed, results, tested, answered,
                   invoked, accidents>>

\* _load_stored_request: a packet of this head, and an answer of this model.
Loads(p) ==
    {c \in UNION {d.completion : d \in {e \in Readable(p) : e.task = {invocation[p].head}}} :
        c.model = invocation[p].model}

LoadRequest(p) ==
    /\ InvocationAt(p, "load")
    /\ IF Loads(p) = {} THEN FailTo(p, "apply_unlock")
       ELSE \E c \in Loads(p) :
               invocation' = [invocation EXCEPT ![p].at = "claim", ![p].answer = c.answer]
    /\ UNCHANGED <<checkout, modelFile, requested, consumed, results, workerLock, tested,
                   answered, invoked, accidents>>

\* _claim_run_id, before anything is run.
ClaimRun(p) ==
    /\ InvocationAt(p, "claim")
    /\ consumed' = consumed \cup {RunOf(p)}
    /\ Proceed(p, "work")
    /\ UNCHANGED <<checkout, modelFile, requested, results, workerLock, tested, answered,
                   invoked, accidents>>

\* The stages before the tests; the first that fails ends the run.
Stages == {"clone", "packet", "apply", "scope", "scan"}

\* _run_process: a process that exceeds its time or its output is stopped.
ProcessStatuses == [code : {0, 1}, timedOut : BOOLEAN, limited : BOOLEAN, confined : BOOLEAN]
TestsPass(status) ==
    status.code = 0 /\ ~status.timedOut /\ ~status.limited /\ status.confined

\* Clone at the head, apply, scope, secret scan and tests: they pass or not.
RunPatch(p) ==
    /\ InvocationAt(p, "work")
    /\ tested' = [tested EXCEPT ![RunOf(p)] = Append(@, invocation[p].answer)]
    /\ \E failed \in Stages \cup {"none"}, status \in ProcessStatuses :
          invocation' = [invocation EXCEPT
              ![p].at = "apply_unlock",
              ![p].verdict = IF failed = "none" /\ TestsPass(status) THEN "PASS" ELSE "FAILED"]
    /\ UNCHANGED <<checkout, modelFile, requested, consumed, results, workerLock, answered,
                   invoked, accidents>>

UnlockApply(p) ==
    /\ InvocationAt(p, "apply_unlock")
    /\ workerLock' = {}
    /\ Proceed(p, "apply_clean")
    /\ UNCHANGED <<checkout, modelFile, requested, consumed, results, tested, answered,
                   invoked, accidents>>

\* The clone, the run's directory and the request that existed are removed; a
\* request that has gone already counts as a cleanup that failed.
CleanApply(p) ==
    LET gone == invocation[p].made => RequestRoot(p) # {} IN
    /\ InvocationAt(p, "apply_clean")
    /\ requested' = IF invocation[p].made THEN [requested EXCEPT ![RunOf(p)] = {}] ELSE requested
    /\ \/ invocation[p].verdict = "raise" /\ Leave(p)
       \/ /\ invocation[p].verdict # "raise" /\ gone
          /\ Proceed(p, IF invocation[p].verdict = "PASS" THEN "patch" ELSE "receipt")
       \/ invocation[p].verdict # "raise" /\ ~gone /\ FailTo(p, "receipt")
    /\ UNCHANGED <<checkout, modelFile, consumed, results, workerLock, tested, answered,
                   invoked, accidents>>

\* rmtree fails: what was removed is gone, and the receipt says failed.
CleanupFails(p) ==
    /\ InvocationAt(p, "apply_clean") /\ invocation[p].verdict # "raise" /\ Mishap
    /\ FailTo(p, "receipt")
    /\ UNCHANGED <<checkout, modelFile, requested, consumed, results, workerLock, tested,
                   answered, invoked>>

\* _write_result_bundle: the patch first, and never over an earlier one.
WritePatch(p) ==
    /\ InvocationAt(p, "patch")
    /\ IF results[RunOf(p)].patch = {}
       THEN /\ results' = [results EXCEPT ![RunOf(p)].patch = {invocation[p].answer}]
            /\ Proceed(p, "receipt")
       ELSE UNCHANGED results /\ Leave(p)
    /\ UNCHANGED <<checkout, modelFile, requested, consumed, workerLock, tested, answered,
                   invoked, accidents>>

\* Then the receipt; when there is one already the patch is taken back.
WriteReceipt(p) ==
    /\ InvocationAt(p, "receipt")
    /\ results' =
           IF results[RunOf(p)].receipt = "none"
           THEN [results EXCEPT ![RunOf(p)].receipt = invocation[p].verdict]
           ELSE IF invocation[p].verdict = "PASS"
                THEN [results EXCEPT ![RunOf(p)].patch = {}] ELSE results
    /\ Leave(p)
    /\ UNCHANGED <<checkout, modelFile, requested, consumed, workerLock, tested, answered,
                   invoked, accidents>>

\* The receipt or the patch cannot be written: what was begun is removed, with a patch that
\* was written before the receipt, and no result says what the run came to.
WriteFails(p) ==
    /\ InvocationAt(p, "patch") \/ InvocationAt(p, "receipt")
    /\ Mishap
    /\ results' = IF InvocationAt(p, "receipt") /\ invocation[p].verdict = "PASS"
                  THEN [results EXCEPT ![RunOf(p)].patch = {}] ELSE results
    /\ Leave(p)
    /\ UNCHANGED <<checkout, modelFile, requested, consumed, workerLock, tested, answered, invoked>>

-----------------------------------------------------------------------------
(* The environment *)

\* A process dies: the system releases its lock, and a result that it was
\* writing is left torn.
WorkerDies(p) ==
    /\ ~InvocationAt(p, "none") /\ Mishap
    /\ Leave(p)
    /\ workerLock' = workerLock \ {p}
    /\ \/ UNCHANGED results
       \/ /\ InvocationAt(p, "patch") /\ results[RunOf(p)].patch = {}
          /\ results' = [results EXCEPT ![RunOf(p)].patch = {0}]
       \/ /\ InvocationAt(p, "receipt") /\ results[RunOf(p)].receipt = "none"
          /\ results' = [results EXCEPT ![RunOf(p)].receipt = "torn"]
    /\ UNCHANGED <<checkout, modelFile, requested, consumed, tested, answered, invoked>>

\* The coordinator works in its checkout, or the owner names another model.
CheckoutMoves ==
    /\ Mishap
    /\ \/ \E c \in Commits, clean \in BOOLEAN : checkout' = [head |-> c, clean |-> clean]
       \/ UNCHANGED checkout
    /\ modelFile' \in {1, 2}
    /\ UNCHANGED <<requested, consumed, results, workerLock, invocation, tested, answered, invoked>>

WorkerNext ==
    \/ \E p \in WorkerProcesses :
        \/ \E r \in RunIds : BeginRequest(p, r) \/ BeginApply(p, r)
        \/ RequestBusy(p) \/ LockRequest(p) \/ SealPacket(p) \/ PacketRefused(p)
        \/ ModelAnswers(p) \/ ModelFails(p) \/ StoreCompletion(p)
        \/ UnlockRequest(p) \/ CleanRequest(p)
        \/ ApplyBusy(p) \/ LockApply(p) \/ LoadRequest(p) \/ ClaimRun(p) \/ RunPatch(p)
        \/ UnlockApply(p) \/ CleanApply(p) \/ CleanupFails(p)
        \/ WritePatch(p) \/ WriteReceipt(p) \/ WriteFails(p)
        \/ WorkerDies(p)
    \/ CheckoutMoves

WorkerSpec == WorkerInit /\ [][WorkerNext]_workerVars

-----------------------------------------------------------------------------
(* Properties *)

\* Type invariant of the direct worker's state directory and processes.
WorkerTypeOK ==
    /\ \A r \in RunIds :
        /\ Cardinality(requested[r]) <= 1
        /\ results[r].patch \subseteq 0..answered
        /\ results[r].receipt \in {"none", "PASS", "FAILED", "torn"}
    /\ consumed \subseteq RunIds
    /\ workerLock \subseteq WorkerProcesses
    /\ \A p \in WorkerProcesses : invocation[p].verdict \in {"none", "PASS", "FAILED", "raise"}
    /\ accidents \in 0..MaxAccidents

\* A run id is run at most once, and a receipt that says PASS is whole: beside it
\* lies the very answer that was tested, its id is consumed, and no request of
\* the id exists again - whatever other processes did between the steps of the
\* one that published it, and wherever one of them stopped.
PassesAreWhole ==
    \A r \in RunIds :
        /\ Len(tested[r]) <= 1
        /\ results[r].receipt = "PASS" =>
            /\ tested[r] # <<>> /\ results[r].patch = {tested[r][1]}
            /\ r \in consumed /\ requested[r] = {}
=============================================================================
