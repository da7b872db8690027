-------------------------- MODULE ReferenceProvider --------------------------
(***************************************************************************)
(* The filesystem reference provider (appcare/deployment/reference.py):    *)
(* releases are directories, `current` is a symlink that is switched by    *)
(* renaming `current.next` over it, `previous` is a file that names the    *)
(* release a deployment replaced, and a systemd service runs the code.     *)
(*                                                                         *)
(* A process uses its provider the way the deployment controller does:     *)
(* deploy an intent, verify it, and roll back if the verification did not  *)
(* pass.  Each file-system operation that other processes or a crash can   *)
(* come between is a step.                                                 *)
(***************************************************************************)
EXTENDS Naturals, FiniteSets

CONSTANTS Processes,     \* processes with a provider object of the same target
          Artifacts,     \* artifact digests; a release is named by its digest
          Rollouts,      \* deployment intents
          ArtifactOf,    \* the artifact each intent deploys
          RollbackOf,    \* the artifact each intent rolls back to
          MaxDeaths,     \* how many processes may die
          NoRelease      \* no release

ASSUME ArtifactOfAssumption == ArtifactOf \in [Rollouts -> Artifacts]
ASSUME RollbackOfAssumption == RollbackOf \in [Rollouts -> Artifacts]
ASSUME RolloutsAssumption == Rollouts # {}
ASSUME MaxDeathsAssumption == MaxDeaths \in Nat
ASSUME NoReleaseAssumption == NoRelease \notin Artifacts

VARIABLES
    release,   \* what is in the directory of each release
    current,   \* where the current symlink points
    nextLink,  \* where the current.next symlink points
    previous,  \* the release the previous file names
    running,   \* the release whose code the service executes
    op,        \* the operation each process is in
    told,      \* the provider's last answer about each intent
    deaths     \* processes that died so far

providerVars == <<release, current, nextLink, previous, running, op, told, deaths>>
links == <<current, nextLink, previous>>

\* copytree makes the directory, then fills it in the order the scan finds.
Parts == {"directory", "manifest", "source"}
Links == Artifacts \cup {NoRelease}
Answers == {"none", "deploy_failed", "deployed", "verified", "unhealthy",
            "rolled_back", "rollback_failed"}
ProviderSteps == {"idle", "previous", "copy", "mkdir", "fill", "own", "link", "replace",
                  "restart", "verify", "rollback"}

\* undo tells a rollback from a deployment.  before and alone are read by the
\* properties only: what was current when the operation began, and whether no
\* other process has used the target since.
Idling == [at |-> "idle", rollout |-> CHOOSE i \in Rollouts : TRUE, target |-> NoRelease,
           before |-> NoRelease, undo |-> FALSE, alone |-> TRUE]

ProviderInit ==
    /\ release = [a \in Artifacts |-> {}]
    /\ current = NoRelease
    /\ nextLink = NoRelease
    /\ previous = NoRelease
    /\ running = NoRelease
    /\ op = [p \in Processes |-> Idling]
    /\ told = [i \in Rollouts |-> "none"]
    /\ deaths = 0

Goes(p, step) == op' = [op EXCEPT ![p].at = step]

\* The call answers, and the process is done with the intent or goes on.
AnswersAnd(p, answer, step) ==
    /\ told' = [told EXCEPT ![op[p].rollout] = answer]
    /\ Goes(p, step)

\* An exception out of deploy is the controller's provider_deploy_failed; in
\* rollback it is caught and answered.
Raises(p) == AnswersAnd(p, IF op[p].undo THEN "rollback_failed" ELSE "deploy_failed", "idle")

-----------------------------------------------------------------------------
(* deploy *)

\* The artifact's directory, source and manifest are valid; if they are not,
\* deploy raises before it changes anything.
DeployRelease(p, i) ==
    /\ op[p].at = "idle" /\ told[i] = "none"
    /\ op' = [q \in Processes |->
                 IF q = p THEN [at |-> "previous", rollout |-> i, target |-> ArtifactOf[i],
                                before |-> current, undo |-> FALSE,
                                alone |-> \A r \in Processes \ {p} : op[r].at = "idle"]
                 ELSE [op[q] EXCEPT !.alone = FALSE]]
    /\ UNCHANGED <<release, links, running, told>>

\* Mutant: previous is written once and for all.
RecordFirst(p) ==
    /\ op[p].at = "previous"
    /\ previous' = IF previous = NoRelease THEN current ELSE previous
    /\ Goes(p, "copy")
    /\ UNCHANGED <<release, current, nextLink, running, told>>

RecordPrevious(p) ==
    /\ op[p].at = "previous"
    /\ previous' = IF current = NoRelease THEN previous ELSE current
    /\ Goes(p, "copy")
    /\ UNCHANGED <<release, current, nextLink, running, told>>

\* Mutant: the link is switched before the release is copied.
SwitchBeforeCopy(p) ==
    /\ op[p].at = "copy"
    /\ current' = op[p].target
    /\ Goes(p, IF release[op[p].target] = {} THEN "mkdir" ELSE "own")
    /\ UNCHANGED <<release, nextLink, previous, running, told>>

\* A release that exists, complete or not, is used as it is.
CopyOrReuse(p) ==
    /\ op[p].at = "copy"
    /\ Goes(p, IF release[op[p].target] = {} THEN "mkdir" ELSE "own")
    /\ UNCHANGED <<release, links, running, told>>

\* Mutant: the copy is made beside the release and never moved into place.
MakeBesides(p) ==
    LET d == op[p].target
    IN  /\ op[p].at = "mkdir"
        /\ release' = [release EXCEPT ![d] = {"partial"}]
        /\ Goes(p, "fill")
        /\ UNCHANGED <<links, running, told>>

MakeDirectory(p) ==
    LET d == op[p].target
    IN  /\ op[p].at = "mkdir"
        /\ IF release[d] # {}
             THEN Raises(p) /\ UNCHANGED release
             ELSE /\ release' = [release EXCEPT ![d] = {"directory"}]
                  /\ Goes(p, "fill") /\ UNCHANGED told
        /\ UNCHANGED <<links, running>>

FillDirectory(p) ==
    LET d == op[p].target
    IN  /\ op[p].at = "fill"
        /\ \/ /\ release[d] = Parts
              /\ Goes(p, "own") /\ UNCHANGED <<release, told>>
           \/ /\ \E part \in Parts \ release[d] :
                    release' = [release EXCEPT ![d] = @ \cup {part}]
              /\ UNCHANGED <<op, told>>
           \/ Raises(p) /\ UNCHANGED release
        /\ UNCHANGED <<links, running>>

\* The tree is searched for symlinks and given its owner.
SetOwner(p) ==
    /\ op[p].at = "own"
    /\ \/ Goes(p, "link") /\ UNCHANGED told
       \/ Raises(p)
    /\ UNCHANGED <<release, links, running>>

(* _switch_current and _restart, for deploy and rollback *)

\* A current.next that is there is unlinked and made again; either may fail.
LinkNext(p) ==
    /\ op[p].at = "link"
    /\ \/ nextLink' = op[p].target /\ Goes(p, "replace") /\ UNCHANGED told
       \/ nextLink' \in {nextLink, NoRelease} /\ Raises(p)
    /\ UNCHANGED <<release, current, previous, running>>

\* os.replace moves whatever current.next is by now, or finds it gone.
ReplaceCurrent(p) ==
    /\ op[p].at = "replace"
    /\ IF nextLink = NoRelease
         THEN Raises(p) /\ UNCHANGED <<current, nextLink>>
         ELSE /\ current' = nextLink /\ nextLink' = NoRelease
              /\ Goes(p, "restart") /\ UNCHANGED told
    /\ UNCHANGED <<release, previous, running>>

\* deploy does not look at the restart's result; rollback also wants health.
RestartService(p) ==
    /\ op[p].at = "restart"
    /\ \E r \in {running, NoRelease, current}, healthy \in BOOLEAN :
          /\ healthy => r = current
          /\ running' = r
          /\ IF ~op[p].undo THEN AnswersAnd(p, "deployed", "verify")
             ELSE AnswersAnd(p, IF healthy THEN "rolled_back" ELSE "rollback_failed", "idle")
    /\ UNCHANGED <<release, links>>

(* verify and rollback *)

\* The health endpoint says "ready", or does not; it does not say of what.
VerifyHealth(p) ==
    /\ op[p].at = "verify"
    /\ \/ running # NoRelease /\ AnswersAnd(p, "verified", "idle")
       \/ AnswersAnd(p, "unhealthy", "rollback")
    /\ UNCHANGED <<release, links, running>>

\* Mutant: the manifest of the previous release is not compared.
RollBackBlindly(p) ==
    /\ op[p].at = "rollback"
    /\ previous # NoRelease
    /\ op' = [op EXCEPT ![p].at = "link", ![p].target = previous, ![p].undo = TRUE]
    /\ UNCHANGED <<release, links, running, told>>

\* previous must name a release whose manifest is the one the intent names.
RollBackRelease(p) ==
    /\ op[p].at = "rollback"
    /\ IF /\ previous = RollbackOf[op[p].rollout]
          /\ "manifest" \in release[previous]
         THEN /\ op' = [op EXCEPT ![p].at = "link", ![p].target = previous, ![p].undo = TRUE]
              /\ UNCHANGED told
         ELSE AnswersAnd(p, "rollback_failed", "idle")
    /\ UNCHANGED <<release, links, running>>

-----------------------------------------------------------------------------
\* The process dies; a file it was writing may be left empty.
ProcessDies(p) ==
    /\ op[p].at # "idle" /\ deaths < MaxDeaths
    /\ deaths' = deaths + 1
    /\ Goes(p, "idle")
    /\ previous' \in {previous} \cup
          IF op[p].at = "previous" /\ current # NoRelease THEN {NoRelease} ELSE {}
    /\ UNCHANGED <<release, current, nextLink, running, told>>

ProviderStep(p) ==
    \/ \E i \in Rollouts : DeployRelease(p, i)
    \/ RecordPrevious(p) \/ CopyOrReuse(p) \/ MakeDirectory(p) \/ FillDirectory(p)
    \/ SetOwner(p) \/ LinkNext(p) \/ ReplaceCurrent(p) \/ RestartService(p)
    \/ VerifyHealth(p) \/ RollBackRelease(p)

ProviderNext ==
    \E p \in Processes :
        \/ ProviderStep(p) /\ UNCHANGED deaths
        \/ ProcessDies(p)

ProviderSpec == ProviderInit /\ [][ProviderNext]_providerVars

-----------------------------------------------------------------------------
(* Properties *)

\* Every variable has its type.
ProviderTypeOK ==
    /\ release \in [Artifacts -> SUBSET Parts]
    /\ {current, nextLink, previous, running} \subseteq Links
    /\ op \in [Processes -> [at : ProviderSteps, rollout : Rollouts, target : Links,
                             before : Links, undo : BOOLEAN, alone : BOOLEAN]]
    /\ told \in [Rollouts -> Answers]
    /\ deaths \in 0..MaxDeaths

\* The current link, its successor and the service never point to a release
\* that does not exist, whoever crashed or raced in the middle of a copy.
LinksAreNotDangling ==
    \A l \in {current, nextLink, running} : l # NoRelease => "directory" \in release[l]

\* Unless another process uses the target meanwhile, a deployment that fails
\* leaves current as it found it,
FailedDeployKeepsCurrent ==
    [][\A p \in Processes :
          LET i == op[p].rollout
          IN  /\ op[p].at # "idle" /\ op[p].alone
              /\ told[i] # "deploy_failed" /\ told'[i] = "deploy_failed"
              => current' = op[p].before]_providerVars

\* an intent whose rollback release was current when it began finds that
\* release named by the previous file when it has to roll back,
RollbackIsNamed ==
    \A p \in Processes :
        op[p].at = "rollback" /\ op[p].alone /\ op[p].before = RollbackOf[op[p].rollout]
        => previous = RollbackOf[op[p].rollout]

\* and a rollback that is reported successful has restored, and the service is
\* running, exactly the release the intent named.
RollbackRestores ==
    [][\A p \in Processes :
          LET i == op[p].rollout
          IN  /\ op[p].at # "idle" /\ op[p].alone
              /\ told[i] # "rolled_back" /\ told'[i] = "rolled_back"
              => current' = RollbackOf[i] /\ running' = RollbackOf[i]]_providerVars
==============================================================================
