---------------------------- MODULE StoresProofs ----------------------------
(***************************************************************************)
(* Theorems about ReferenceProvider, for any processes, artifacts, intents *)
(* and deaths, and about BackupVault, for any processes, keys, components  *)
(* and attempts and one process that deletes.  They share no state.        *)
(***************************************************************************)
EXTENDS MCStores, TLAPS

-----------------------------------------------------------------------------
(* ReferenceProvider *)

Working(p) == op[p].at # "idle"
HasDirectory(d) == "directory" \in release[d]

\* The steps of a deployment that come before the link is switched.
BeforeSwitch == {"previous", "copy", "mkdir", "fill", "own", "link", "replace"}

\* copytree makes the directory first.
ReleasesOK == \A d \in Artifacts : release[d] # {} => HasDirectory(d)

\* What an operation is about to link to exists from the moment it is copied.
TargetOK(p) ==
    Working(p) =>
        /\ op[p].target \in Artifacts
        /\ op[p].at \in {"fill", "own", "link", "replace"} => HasDirectory(op[p].target)
        /\ op[p].undo => op[p].at \in {"link", "replace", "restart"}

\* What an operation that no other process joined knows of the target.
AloneOK(p) ==
    Working(p) /\ op[p].alone =>
        /\ \A q \in Processes \ {p} : ~Working(q)
        /\ ~op[p].undo /\ op[p].at \in BeforeSwitch => current = op[p].before
        /\ ~op[p].undo /\ op[p].at # "previous" /\ op[p].before # NoRelease
              => previous = op[p].before
        /\ op[p].at = "replace" => nextLink = op[p].target
        /\ op[p].undo => op[p].target = RollbackOf[op[p].rollout]
        /\ op[p].undo /\ op[p].at = "restart" => current = op[p].target

ProviderInv ==
    /\ ProviderTypeOK
    /\ LinksAreNotDangling
    /\ ReleasesOK
    /\ \A p \in Processes : TargetOK(p) /\ AloneOK(p)

-----------------------------------------------------------------------------
(* Every step keeps the invariant *)

\* The previous file is written before anything moves: an operation alone finds
\* there what was current when it began.
LEMMA RecordPreviousKeeps ==
    ASSUME NEW p \in Processes, ProviderInv, RecordPrevious(p), UNCHANGED deaths
    PROVE  ProviderInv'
<1> USE DEF ProviderInv, RecordPrevious, Goes, AnswersAnd, Raises, links
<1>1. ProviderTypeOK'
  BY DEF ProviderTypeOK, ProviderSteps, Answers, Links, Parts
<1>2. LinksAreNotDangling'
  BY RollbackOfAssumption, NoReleaseAssumption
     DEF LinksAreNotDangling, TargetOK, HasDirectory, Working, ProviderTypeOK, ReleasesOK,
         Links
<1>3. ReleasesOK'
  BY DEF ReleasesOK, HasDirectory, ProviderTypeOK, TargetOK, Working
<1>4. ASSUME NEW q \in Processes PROVE TargetOK(q)'
  <2>1. CASE q = p
    BY <2>1, RollbackOfAssumption
       DEF TargetOK, HasDirectory, Working, ProviderTypeOK, ReleasesOK, Links
  <2>2. CASE q # p
    BY <2>2 DEF TargetOK, HasDirectory, Working, ProviderTypeOK
  <2>3. QED BY <2>1, <2>2
<1>5. ASSUME NEW q \in Processes PROVE AloneOK(q)'
  <2>1. CASE q = p
    BY <2>1, RollbackOfAssumption, NoReleaseAssumption
       DEF AloneOK, TargetOK, BeforeSwitch, Working, ProviderTypeOK, Links
  <2>2. CASE q # p
    <3>1. Working(p)
      BY DEF Working
    <3>2. ~(Working(q) /\ op[q].alone)
      BY <2>2, <3>1 DEF AloneOK
    <3>3. QED BY <2>2, <3>2 DEF AloneOK, Working, ProviderTypeOK
  <2>3. QED BY <2>1, <2>2
<1>6. QED BY <1>1, <1>2, <1>3, <1>4, <1>5

\* A release directory that is there is enough for the links.
LEMMA CopyOrReuseKeeps ==
    ASSUME NEW p \in Processes, ProviderInv, CopyOrReuse(p), UNCHANGED deaths
    PROVE  ProviderInv'
<1> USE DEF ProviderInv, CopyOrReuse, Goes, AnswersAnd, Raises, links
<1>1. ProviderTypeOK'
  BY DEF ProviderTypeOK, ProviderSteps, Answers, Links, Parts
<1>2. LinksAreNotDangling'
  BY RollbackOfAssumption, NoReleaseAssumption
     DEF LinksAreNotDangling, TargetOK, HasDirectory, Working, ProviderTypeOK, ReleasesOK,
         Links
<1>3. ReleasesOK'
  BY DEF ReleasesOK, HasDirectory, ProviderTypeOK, TargetOK, Working
<1>4. ASSUME NEW q \in Processes PROVE TargetOK(q)'
  <2>1. CASE q = p
    BY <2>1, RollbackOfAssumption
       DEF TargetOK, HasDirectory, Working, ProviderTypeOK, ReleasesOK, Links
  <2>2. CASE q # p
    BY <2>2 DEF TargetOK, HasDirectory, Working, ProviderTypeOK
  <2>3. QED BY <2>1, <2>2
<1>5. ASSUME NEW q \in Processes PROVE AloneOK(q)'
  <2>1. CASE q = p
    BY <2>1, RollbackOfAssumption, NoReleaseAssumption
       DEF AloneOK, TargetOK, BeforeSwitch, Working, ProviderTypeOK, Links
  <2>2. CASE q # p
    <3>1. Working(p)
      BY DEF Working
    <3>2. ~(Working(q) /\ op[q].alone)
      BY <2>2, <3>1 DEF AloneOK
    <3>3. QED BY <2>2, <3>2 DEF AloneOK, Working, ProviderTypeOK
  <2>3. QED BY <2>1, <2>2
<1>6. QED BY <1>1, <1>2, <1>3, <1>4, <1>5

\* The release exists from here on.
LEMMA MakeDirectoryKeeps ==
    ASSUME NEW p \in Processes, ProviderInv, MakeDirectory(p), UNCHANGED deaths
    PROVE  ProviderInv'
<1> USE DEF ProviderInv, MakeDirectory, Goes, AnswersAnd, Raises, links
<1>1. ProviderTypeOK'
  BY DEF ProviderTypeOK, ProviderSteps, Answers, Links, Parts
<1>2. LinksAreNotDangling'
  BY RollbackOfAssumption, NoReleaseAssumption
     DEF LinksAreNotDangling, TargetOK, HasDirectory, Working, ProviderTypeOK, ReleasesOK,
         Links
<1>3. ReleasesOK'
  BY DEF ReleasesOK, HasDirectory, ProviderTypeOK, TargetOK, Working
<1>4. ASSUME NEW q \in Processes PROVE TargetOK(q)'
  <2>1. CASE q = p
    BY <2>1, RollbackOfAssumption
       DEF TargetOK, HasDirectory, Working, ProviderTypeOK, ReleasesOK, Links
  <2>2. CASE q # p
    BY <2>2 DEF TargetOK, HasDirectory, Working, ProviderTypeOK
  <2>3. QED BY <2>1, <2>2
<1>5. ASSUME NEW q \in Processes PROVE AloneOK(q)'
  <2>1. CASE q = p
    BY <2>1, RollbackOfAssumption, NoReleaseAssumption
       DEF AloneOK, TargetOK, BeforeSwitch, Working, ProviderTypeOK, Links
  <2>2. CASE q # p
    <3>1. Working(p)
      BY DEF Working
    <3>2. ~(Working(q) /\ op[q].alone)
      BY <2>2, <3>1 DEF AloneOK
    <3>3. QED BY <2>2, <3>2 DEF AloneOK, Working, ProviderTypeOK
  <2>3. QED BY <2>1, <2>2
<1>6. QED BY <1>1, <1>2, <1>3, <1>4, <1>5

\* A copy that fails leaves the release in part, and the links alone.
LEMMA FillDirectoryKeeps ==
    ASSUME NEW p \in Processes, ProviderInv, FillDirectory(p), UNCHANGED deaths
    PROVE  ProviderInv'
<1> USE DEF ProviderInv, FillDirectory, Goes, AnswersAnd, Raises, links
<1>1. ProviderTypeOK'
  BY DEF ProviderTypeOK, ProviderSteps, Answers, Links, Parts
<1>2. LinksAreNotDangling'
  BY RollbackOfAssumption, NoReleaseAssumption
     DEF LinksAreNotDangling, TargetOK, HasDirectory, Working, ProviderTypeOK, ReleasesOK,
         Links
<1>3. ReleasesOK'
  BY DEF ReleasesOK, HasDirectory, ProviderTypeOK, TargetOK, Working
<1>4. ASSUME NEW q \in Processes PROVE TargetOK(q)'
  <2>1. CASE q = p
    BY <2>1, RollbackOfAssumption
       DEF TargetOK, HasDirectory, Working, ProviderTypeOK, ReleasesOK, Links
  <2>2. CASE q # p
    BY <2>2 DEF TargetOK, HasDirectory, Working, ProviderTypeOK
  <2>3. QED BY <2>1, <2>2
<1>5. ASSUME NEW q \in Processes PROVE AloneOK(q)'
  <2>1. CASE q = p
    BY <2>1, RollbackOfAssumption, NoReleaseAssumption
       DEF AloneOK, TargetOK, BeforeSwitch, Working, ProviderTypeOK, Links
  <2>2. CASE q # p
    <3>1. Working(p)
      BY DEF Working
    <3>2. ~(Working(q) /\ op[q].alone)
      BY <2>2, <3>1 DEF AloneOK
    <3>3. QED BY <2>2, <3>2 DEF AloneOK, Working, ProviderTypeOK
  <2>3. QED BY <2>1, <2>2
<1>6. QED BY <1>1, <1>2, <1>3, <1>4, <1>5

\* Nothing the invariant speaks of moves but the operation itself.
LEMMA SetOwnerKeeps ==
    ASSUME NEW p \in Processes, ProviderInv, SetOwner(p), UNCHANGED deaths
    PROVE  ProviderInv'
<1> USE DEF ProviderInv, SetOwner, Goes, AnswersAnd, Raises, links
<1>1. ProviderTypeOK'
  BY DEF ProviderTypeOK, ProviderSteps, Answers, Links, Parts
<1>2. LinksAreNotDangling'
  BY RollbackOfAssumption, NoReleaseAssumption
     DEF LinksAreNotDangling, TargetOK, HasDirectory, Working, ProviderTypeOK, ReleasesOK,
         Links
<1>3. ReleasesOK'
  BY DEF ReleasesOK, HasDirectory, ProviderTypeOK, TargetOK, Working
<1>4. ASSUME NEW q \in Processes PROVE TargetOK(q)'
  <2>1. CASE q = p
    BY <2>1, RollbackOfAssumption
       DEF TargetOK, HasDirectory, Working, ProviderTypeOK, ReleasesOK, Links
  <2>2. CASE q # p
    BY <2>2 DEF TargetOK, HasDirectory, Working, ProviderTypeOK
  <2>3. QED BY <2>1, <2>2
<1>5. ASSUME NEW q \in Processes PROVE AloneOK(q)'
  <2>1. CASE q = p
    BY <2>1, RollbackOfAssumption, NoReleaseAssumption
       DEF AloneOK, TargetOK, BeforeSwitch, Working, ProviderTypeOK, Links
  <2>2. CASE q # p
    <3>1. Working(p)
      BY DEF Working
    <3>2. ~(Working(q) /\ op[q].alone)
      BY <2>2, <3>1 DEF AloneOK
    <3>3. QED BY <2>2, <3>2 DEF AloneOK, Working, ProviderTypeOK
  <2>3. QED BY <2>1, <2>2
<1>6. QED BY <1>1, <1>2, <1>3, <1>4, <1>5

\* current.next is this operation's, if no other joined it.
LEMMA LinkNextKeeps ==
    ASSUME NEW p \in Processes, ProviderInv, LinkNext(p), UNCHANGED deaths
    PROVE  ProviderInv'
<1> USE DEF ProviderInv, LinkNext, Goes, AnswersAnd, Raises, links
<1>1. ProviderTypeOK'
  BY DEF ProviderTypeOK, ProviderSteps, Answers, Links, Parts
<1>2. LinksAreNotDangling'
  BY RollbackOfAssumption, NoReleaseAssumption
     DEF LinksAreNotDangling, TargetOK, HasDirectory, Working, ProviderTypeOK, ReleasesOK,
         Links
<1>3. ReleasesOK'
  BY DEF ReleasesOK, HasDirectory, ProviderTypeOK, TargetOK, Working
<1>4. ASSUME NEW q \in Processes PROVE TargetOK(q)'
  <2>1. CASE q = p
    BY <2>1, RollbackOfAssumption
       DEF TargetOK, HasDirectory, Working, ProviderTypeOK, ReleasesOK, Links
  <2>2. CASE q # p
    BY <2>2 DEF TargetOK, HasDirectory, Working, ProviderTypeOK
  <2>3. QED BY <2>1, <2>2
<1>5. ASSUME NEW q \in Processes PROVE AloneOK(q)'
  <2>1. CASE q = p
    BY <2>1, RollbackOfAssumption, NoReleaseAssumption
       DEF AloneOK, TargetOK, BeforeSwitch, Working, ProviderTypeOK, Links
  <2>2. CASE q # p
    <3>1. Working(p)
      BY DEF Working
    <3>2. ~(Working(q) /\ op[q].alone)
      BY <2>2, <3>1 DEF AloneOK
    <3>3. QED BY <2>2, <3>2 DEF AloneOK, Working, ProviderTypeOK
  <2>3. QED BY <2>1, <2>2
<1>6. QED BY <1>1, <1>2, <1>3, <1>4, <1>5

\* current becomes what current.next was, whoever made it.
LEMMA ReplaceCurrentKeeps ==
    ASSUME NEW p \in Processes, ProviderInv, ReplaceCurrent(p), UNCHANGED deaths
    PROVE  ProviderInv'
<1> USE DEF ProviderInv, ReplaceCurrent, Goes, AnswersAnd, Raises, links
<1>1. ProviderTypeOK'
  BY DEF ProviderTypeOK, ProviderSteps, Answers, Links, Parts
<1>2. LinksAreNotDangling'
  BY RollbackOfAssumption, NoReleaseAssumption
     DEF LinksAreNotDangling, TargetOK, HasDirectory, Working, ProviderTypeOK, ReleasesOK,
         Links
<1>3. ReleasesOK'
  BY DEF ReleasesOK, HasDirectory, ProviderTypeOK, TargetOK, Working
<1>4. ASSUME NEW q \in Processes PROVE TargetOK(q)'
  <2>1. CASE q = p
    BY <2>1, RollbackOfAssumption
       DEF TargetOK, HasDirectory, Working, ProviderTypeOK, ReleasesOK, Links
  <2>2. CASE q # p
    BY <2>2 DEF TargetOK, HasDirectory, Working, ProviderTypeOK
  <2>3. QED BY <2>1, <2>2
<1>5. ASSUME NEW q \in Processes PROVE AloneOK(q)'
  <2>1. CASE q = p
    BY <2>1, RollbackOfAssumption, NoReleaseAssumption
       DEF AloneOK, TargetOK, BeforeSwitch, Working, ProviderTypeOK, Links
  <2>2. CASE q # p
    <3>1. Working(p)
      BY DEF Working
    <3>2. ~(Working(q) /\ op[q].alone)
      BY <2>2, <3>1 DEF AloneOK
    <3>3. QED BY <2>2, <3>2 DEF AloneOK, Working, ProviderTypeOK
  <2>3. QED BY <2>1, <2>2
<1>6. QED BY <1>1, <1>2, <1>3, <1>4, <1>5

\* The service runs what it ran, nothing, or current.
LEMMA RestartServiceKeeps ==
    ASSUME NEW p \in Processes, ProviderInv, RestartService(p), UNCHANGED deaths
    PROVE  ProviderInv'
<1> USE DEF ProviderInv, RestartService, Goes, AnswersAnd, Raises, links
<1>1. ProviderTypeOK'
  BY DEF ProviderTypeOK, ProviderSteps, Answers, Links, Parts
<1>2. LinksAreNotDangling'
  BY RollbackOfAssumption, NoReleaseAssumption
     DEF LinksAreNotDangling, TargetOK, HasDirectory, Working, ProviderTypeOK, ReleasesOK,
         Links
<1>3. ReleasesOK'
  BY DEF ReleasesOK, HasDirectory, ProviderTypeOK, TargetOK, Working
<1>4. ASSUME NEW q \in Processes PROVE TargetOK(q)'
  <2>1. CASE q = p
    BY <2>1, RollbackOfAssumption
       DEF TargetOK, HasDirectory, Working, ProviderTypeOK, ReleasesOK, Links
  <2>2. CASE q # p
    BY <2>2 DEF TargetOK, HasDirectory, Working, ProviderTypeOK
  <2>3. QED BY <2>1, <2>2
<1>5. ASSUME NEW q \in Processes PROVE AloneOK(q)'
  <2>1. CASE q = p
    BY <2>1, RollbackOfAssumption, NoReleaseAssumption
       DEF AloneOK, TargetOK, BeforeSwitch, Working, ProviderTypeOK, Links
  <2>2. CASE q # p
    <3>1. Working(p)
      BY DEF Working
    <3>2. ~(Working(q) /\ op[q].alone)
      BY <2>2, <3>1 DEF AloneOK
    <3>3. QED BY <2>2, <3>2 DEF AloneOK, Working, ProviderTypeOK
  <2>3. QED BY <2>1, <2>2
<1>6. QED BY <1>1, <1>2, <1>3, <1>4, <1>5

\* The answer decides between done and rollback.
LEMMA VerifyHealthKeeps ==
    ASSUME NEW p \in Processes, ProviderInv, VerifyHealth(p), UNCHANGED deaths
    PROVE  ProviderInv'
<1> USE DEF ProviderInv, VerifyHealth, Goes, AnswersAnd, Raises, links
<1>1. ProviderTypeOK'
  BY DEF ProviderTypeOK, ProviderSteps, Answers, Links, Parts
<1>2. LinksAreNotDangling'
  BY RollbackOfAssumption, NoReleaseAssumption
     DEF LinksAreNotDangling, TargetOK, HasDirectory, Working, ProviderTypeOK, ReleasesOK,
         Links
<1>3. ReleasesOK'
  BY DEF ReleasesOK, HasDirectory, ProviderTypeOK, TargetOK, Working
<1>4. ASSUME NEW q \in Processes PROVE TargetOK(q)'
  <2>1. CASE q = p
    BY <2>1, RollbackOfAssumption
       DEF TargetOK, HasDirectory, Working, ProviderTypeOK, ReleasesOK, Links
  <2>2. CASE q # p
    BY <2>2 DEF TargetOK, HasDirectory, Working, ProviderTypeOK
  <2>3. QED BY <2>1, <2>2
<1>5. ASSUME NEW q \in Processes PROVE AloneOK(q)'
  <2>1. CASE q = p
    BY <2>1, RollbackOfAssumption, NoReleaseAssumption
       DEF AloneOK, TargetOK, BeforeSwitch, Working, ProviderTypeOK, Links
  <2>2. CASE q # p
    <3>1. Working(p)
      BY DEF Working
    <3>2. ~(Working(q) /\ op[q].alone)
      BY <2>2, <3>1 DEF AloneOK
    <3>3. QED BY <2>2, <3>2 DEF AloneOK, Working, ProviderTypeOK
  <2>3. QED BY <2>1, <2>2
<1>6. QED BY <1>1, <1>2, <1>3, <1>4, <1>5

\* A rollback links to the release its intent names, which has a manifest.
LEMMA RollBackReleaseKeeps ==
    ASSUME NEW p \in Processes, ProviderInv, RollBackRelease(p), UNCHANGED deaths
    PROVE  ProviderInv'
<1> USE DEF ProviderInv, RollBackRelease, Goes, AnswersAnd, Raises, links
<1>1. ProviderTypeOK'
  BY RollbackOfAssumption DEF ProviderTypeOK, ProviderSteps, Answers, Links, Parts
<1>2. LinksAreNotDangling'
  BY RollbackOfAssumption, NoReleaseAssumption
     DEF LinksAreNotDangling, TargetOK, HasDirectory, Working, ProviderTypeOK, ReleasesOK,
         Links
<1>3. ReleasesOK'
  BY DEF ReleasesOK, HasDirectory, ProviderTypeOK, TargetOK, Working
<1>4. ASSUME NEW q \in Processes PROVE TargetOK(q)'
  <2>1. CASE q = p
    BY <2>1, RollbackOfAssumption
       DEF TargetOK, HasDirectory, Working, ProviderTypeOK, ReleasesOK, Links
  <2>2. CASE q # p
    BY <2>2 DEF TargetOK, HasDirectory, Working, ProviderTypeOK
  <2>3. QED BY <2>1, <2>2
<1>5. ASSUME NEW q \in Processes PROVE AloneOK(q)'
  <2>1. CASE q = p
    BY <2>1, RollbackOfAssumption, NoReleaseAssumption
       DEF AloneOK, TargetOK, BeforeSwitch, Working, ProviderTypeOK, Links
  <2>2. CASE q # p
    <3>1. Working(p)
      BY DEF Working
    <3>2. ~(Working(q) /\ op[q].alone)
      BY <2>2, <3>1 DEF AloneOK
    <3>3. QED BY <2>2, <3>2 DEF AloneOK, Working, ProviderTypeOK
  <2>3. QED BY <2>1, <2>2
<1>6. QED BY <1>1, <1>2, <1>3, <1>4, <1>5

\* A death ends an operation and may empty the previous file it was writing.
LEMMA ProcessDiesKeeps ==
    ASSUME NEW p \in Processes, ProviderInv, ProcessDies(p)
    PROVE  ProviderInv'
<1> USE DEF ProviderInv, ProcessDies, Goes, AnswersAnd, Raises, links
<1>1. ProviderTypeOK'
  BY MaxDeathsAssumption DEF ProviderTypeOK, ProviderSteps, Answers, Links, Parts
<1>2. LinksAreNotDangling'
  BY RollbackOfAssumption, NoReleaseAssumption
     DEF LinksAreNotDangling, TargetOK, HasDirectory, Working, ProviderTypeOK, ReleasesOK,
         Links
<1>3. ReleasesOK'
  BY DEF ReleasesOK, HasDirectory, ProviderTypeOK, TargetOK, Working
<1>4. ASSUME NEW q \in Processes PROVE TargetOK(q)'
  <2>1. CASE q = p
    BY <2>1, RollbackOfAssumption
       DEF TargetOK, HasDirectory, Working, ProviderTypeOK, ReleasesOK, Links
  <2>2. CASE q # p
    BY <2>2 DEF TargetOK, HasDirectory, Working, ProviderTypeOK
  <2>3. QED BY <2>1, <2>2
<1>5. ASSUME NEW q \in Processes PROVE AloneOK(q)'
  <2>1. CASE q = p
    BY <2>1, RollbackOfAssumption, NoReleaseAssumption
       DEF AloneOK, TargetOK, BeforeSwitch, Working, ProviderTypeOK, Links
  <2>2. CASE q # p
    <3>1. Working(p)
      BY DEF Working
    <3>2. ~(Working(q) /\ op[q].alone)
      BY <2>2, <3>1 DEF AloneOK
    <3>3. QED BY <2>2, <3>2 DEF AloneOK, Working, ProviderTypeOK
  <2>3. QED BY <2>1, <2>2
<1>6. QED BY <1>1, <1>2, <1>3, <1>4, <1>5

\* An operation begins: it is alone if no other is under way, and none of the
\* others is any longer.
LEMMA DeployReleaseKeeps ==
    ASSUME NEW p \in Processes, NEW i \in Rollouts, ProviderInv,
           DeployRelease(p, i), UNCHANGED deaths
    PROVE  ProviderInv'
<1> USE DEF ProviderInv, DeployRelease, links
<1>1. ProviderTypeOK'
  BY ArtifactOfAssumption DEF ProviderTypeOK, ProviderSteps, Links
<1>2. LinksAreNotDangling' /\ ReleasesOK'
  BY DEF LinksAreNotDangling, ReleasesOK, HasDirectory
<1>3. ASSUME NEW q \in Processes PROVE TargetOK(q)'
  <2>1. CASE q = p
    BY <2>1, ArtifactOfAssumption DEF TargetOK, Working
  <2>2. CASE q # p
    BY <2>2 DEF TargetOK, HasDirectory, Working, ProviderTypeOK
  <2>3. QED BY <2>1, <2>2
<1>4. ASSUME NEW q \in Processes PROVE AloneOK(q)'
  <2>1. CASE q = p
    BY <2>1 DEF AloneOK, Working, BeforeSwitch, ProviderTypeOK
  <2>2. CASE q # p
    BY <2>2 DEF AloneOK, ProviderTypeOK
  <2>3. QED BY <2>1, <2>2
<1>5. QED BY <1>1, <1>2, <1>3, <1>4

\* ProviderInv is inductive.
LEMMA ProviderInitInv == ProviderInit => ProviderInv
<1>1. (CHOOSE i \in Rollouts : TRUE) \in Rollouts
  BY RolloutsAssumption
<1>2. SUFFICES ASSUME ProviderInit PROVE ProviderInv
  OBVIOUS
<1> USE <1>2 DEF ProviderInit
<1>3. ProviderTypeOK
  BY <1>1, MaxDeathsAssumption
     DEF ProviderTypeOK, Idling, ProviderSteps, Answers, Links, Parts
<1>4. LinksAreNotDangling /\ ReleasesOK
  BY DEF LinksAreNotDangling, ReleasesOK
<1>5. \A p \in Processes : TargetOK(p) /\ AloneOK(p)
  BY DEF TargetOK, AloneOK, Working, Idling
<1>6. QED BY <1>3, <1>4, <1>5 DEF ProviderInv

LEMMA ProviderNextInv == ProviderInv /\ [ProviderNext]_providerVars => ProviderInv'
<1>1. SUFFICES ASSUME ProviderInv, [ProviderNext]_providerVars PROVE ProviderInv'
  OBVIOUS
<1>2. CASE UNCHANGED providerVars
  BY <1>1, <1>2
     DEF ProviderInv, providerVars, ProviderTypeOK, LinksAreNotDangling, ReleasesOK,
         HasDirectory, TargetOK, AloneOK, Working
<1>3. ASSUME NEW p \in Processes, ProviderStep(p), UNCHANGED deaths PROVE ProviderInv'
  BY <1>1, <1>3, DeployReleaseKeeps, RecordPreviousKeeps, CopyOrReuseKeeps,
     MakeDirectoryKeeps, FillDirectoryKeeps, SetOwnerKeeps, LinkNextKeeps,
     ReplaceCurrentKeeps, RestartServiceKeeps, VerifyHealthKeeps, RollBackReleaseKeeps
     DEF ProviderStep
<1>4. QED BY <1>1, <1>2, <1>3, ProcessDiesKeeps DEF ProviderNext

LEMMA ProviderInvAlways == ProviderSpec => []ProviderInv
BY ProviderInitInv, ProviderNextInv, PTL DEF ProviderSpec

-----------------------------------------------------------------------------
(* Theorems *)

\* Every variable of the provider keeps its type.
THEOREM ProviderTypeCorrect == ProviderSpec => []ProviderTypeOK
BY ProviderInvAlways, PTL DEF ProviderInv

\* No link points to a release that does not exist, with any number of
\* processes that deploy, roll back and die at any step.
THEOREM LinksNeverDangle == ProviderSpec => []LinksAreNotDangling
BY ProviderInvAlways, PTL DEF ProviderInv

\* deploy leaves for rollback the name of the release that was current.
THEOREM RollbackFindsItsRelease == ProviderSpec => []RollbackIsNamed
<1>1. ProviderInv => RollbackIsNamed
  BY RollbackOfAssumption, NoReleaseAssumption
     DEF ProviderInv, RollbackIsNamed, TargetOK, AloneOK, Working, ProviderTypeOK
<1>2. QED BY <1>1, ProviderInvAlways, PTL

\* What the two action properties say of one process.
FailedDeployStep(p) ==
    LET i == op[p].rollout
    IN  /\ op[p].at # "idle" /\ op[p].alone
        /\ told[i] # "deploy_failed" /\ told'[i] = "deploy_failed"
        => current' = op[p].before

RollbackStep(p) ==
    LET i == op[p].rollout
    IN  /\ op[p].at # "idle" /\ op[p].alone
        /\ told[i] # "rolled_back" /\ told'[i] = "rolled_back"
        => current' = RollbackOf[i] /\ running' = RollbackOf[i]

\* What an operation on its own is told comes from its own steps.
LEMMA AnswersAreEarned ==
    ASSUME NEW p \in Processes, ProviderInv, [ProviderNext]_providerVars
    PROVE  FailedDeployStep(p) /\ RollbackStep(p)
<1>1. CASE op[p].at # "idle" /\ op[p].alone /\ told' # told
  <2>1. PICK q \in Processes : ProviderStep(q) /\ told' # told
    BY <1>1 DEF ProviderNext, providerVars, ProcessDies
  <2>2. q = p
    <3>1. CASE op[q].at # "idle"
      BY <1>1, <3>1 DEF ProviderInv, AloneOK, Working
    <3>2. CASE op[q].at = "idle"
      BY <2>1, <3>2
         DEF ProviderStep, DeployRelease, RecordPrevious, CopyOrReuse, MakeDirectory,
             FillDirectory, SetOwner, LinkNext, ReplaceCurrent, RestartService,
             VerifyHealth, RollBackRelease
    <3>3. QED BY <3>1, <3>2
  <2> DEFINE i == op[p].rollout
  <2>3. CASE MakeDirectory(p) \/ FillDirectory(p) \/ SetOwner(p) \/ LinkNext(p) \/ ReplaceCurrent(p)
    <3>1. CASE op[p].undo
      BY <1>1, <2>3, <3>1
         DEF FailedDeployStep, RollbackStep, ProviderInv, ProviderTypeOK, MakeDirectory,
             FillDirectory, SetOwner, LinkNext, ReplaceCurrent, Raises, AnswersAnd, Goes
    <3>2. CASE ~op[p].undo
      BY <1>1, <2>3, <3>2
         DEF FailedDeployStep, RollbackStep, ProviderInv, ProviderTypeOK, AloneOK, Working,
             BeforeSwitch, links, MakeDirectory, FillDirectory, SetOwner, LinkNext,
             ReplaceCurrent, Raises, AnswersAnd, Goes
    <3>3. QED BY <3>1, <3>2
  <2>4. CASE RestartService(p)
    BY <1>1, <2>4
       DEF FailedDeployStep, RollbackStep, ProviderInv, ProviderTypeOK, AloneOK, Working,
           RestartService, AnswersAnd, Goes, links
  <2>5. CASE VerifyHealth(p) \/ RollBackRelease(p)
    BY <1>1, <2>5 DEF FailedDeployStep, RollbackStep, ProviderInv, ProviderTypeOK,
       VerifyHealth, RollBackRelease, AnswersAnd, Goes
  <2>6. CASE (\E j \in Rollouts : DeployRelease(p, j)) \/ RecordPrevious(p) \/ CopyOrReuse(p)
    BY <1>1, <2>6 DEF DeployRelease, RecordPrevious, CopyOrReuse
  <2>7. QED BY <2>1, <2>2, <2>3, <2>4, <2>5, <2>6 DEF ProviderStep
<1>2. CASE ~(op[p].at # "idle" /\ op[p].alone /\ told' # told)
  BY <1>2 DEF FailedDeployStep, RollbackStep
<1>3. QED BY <1>1, <1>2

\* A deployment that raises has not switched the link.
THEOREM FailedDeploysKeepCurrent == ProviderSpec => FailedDeployKeepsCurrent
<1>1. ProviderInv /\ [ProviderNext]_providerVars
        => [\A p \in Processes : FailedDeployStep(p)]_providerVars
  BY AnswersAreEarned
<1>2. QED BY <1>1, ProviderInvAlways, PTL DEF ProviderSpec, FailedDeployKeepsCurrent, FailedDeployStep

\* A rollback that succeeds restored, and runs, the release the intent named.
THEOREM RollbacksRestore == ProviderSpec => RollbackRestores
<1>1. ProviderInv /\ [ProviderNext]_providerVars
        => [\A p \in Processes : RollbackStep(p)]_providerVars
  BY AnswersAreEarned
<1>2. QED BY <1>1, ProviderInvAlways, PTL DEF ProviderSpec, RollbackRestores, RollbackStep

-----------------------------------------------------------------------------
(* BackupVault *)

Deleting == {"unlink", "rmdir"}
Staged == {"components", "promote"}

\* A call that is not a delete knows its attempt, and only a deleter deletes.
JobOK(h) ==
    /\ job[h].at \notin Deleting \cup {"idle"} => job[h].attempt \in Attempts
    /\ job[h].at \in Deleting => h \in Deleters

\* What is being unlinked is an artifact whose retention has ended.
UnlinkOK ==
    /\ deleted \subseteq expired
    /\ \A h \in Hosts : At(h, "unlink") => file["manifest"] \in deleted

\* The staging directory belongs to one restore, which fills it with its own
\* attempt before it promotes it.
StagingOK ==
    /\ \A h \in Hosts : job[h].at \in Staged =>
          staging.exists /\ \A g \in Hosts \ {h} : job[g].at \notin Staged
    /\ \A h \in Hosts : At(h, "promote") =>
          \A c \in Components : staging.parts[c] = job[h].attempt

VaultInv ==
    /\ VaultTypeOK
    /\ \A h \in Hosts : JobOK(h)
    /\ UnlinkOK
    /\ StagingOK
    /\ VerifiedBackupIsKept
    /\ RestoreIsWhole

-----------------------------------------------------------------------------
(* Every step keeps the invariant *)

\* A directory that is just made, or gone, holds nothing.
LEMMA EmptyFacts ==
    ASSUME NEW b \in BOOLEAN
    PROVE  /\ Empty(b) \in Directory
           /\ Empty(b).exists = b
           /\ \A c \in Components : Empty(b).parts[c] = None
BY DEF Empty, Directory, None

\* A call goes on, ends, or stays where it is, and the others are not moved.
LEMMA JobMoves ==
    ASSUME NEW h \in Hosts, NEW step \in JobSteps, VaultTypeOK,
           Step(h, step) \/ Done(h) \/ UNCHANGED job
    PROVE  /\ job' \in [Hosts -> [at : JobSteps, attempt : Attempts \cup {None}]]
           /\ \A g \in Hosts \ {h} : job'[g] = job[g]
           /\ job'[h] \in {[job[h] EXCEPT !.at = step], NoJob, job[h]}
           /\ Step(h, step) => job'[h].at = step /\ job'[h].attempt = job[h].attempt
           /\ Done(h) => job'[h].at = "idle"
<1> USE DEF VaultTypeOK
<1>1. CASE Step(h, step)
  BY <1>1 DEF Step, Done, NoJob
<1>2. CASE Done(h)
  BY <1>2 DEF Step, Done, NoJob, JobSteps, None
<1>3. CASE UNCHANGED job
  BY <1>3 DEF Step, Done, NoJob
<1>4. QED BY <1>1, <1>2, <1>3

\* A new attempt is numbered, and nothing in the vault moves.
LEMMA CreateBackupKeeps ==
    ASSUME NEW h \in Hosts, NEW k \in Keys, VaultInv, CreateBackup(h, k)
    PROVE  VaultInv'
<1> USE MaxAttemptsAssumption DEF VaultInv, CreateBackup, Step, Done, At,
        NoJob, vaultFiles, restoreDirs, history
<1>1. VaultTypeOK'
  BY DEF VaultTypeOK, JobOK, JobSteps, Deleting, Attempts, None, Junk, Files
<1>2. ASSUME NEW g \in Hosts PROVE JobOK(g)'
  BY DEF JobOK, VaultTypeOK, Deleting, Attempts, Files
<1>3. UnlinkOK'
  BY DeletersAssumption
     DEF UnlinkOK, VaultTypeOK, JobOK, Deleting, Files, Attempts, None, Junk
<1>4. StagingOK'
  <2>1. \A g \in Hosts : job'[g].at \in Staged => job'[g] = job[g]
    BY DEF VaultTypeOK, Staged, Files
  <2>2. QED BY <2>1 DEF StagingOK, Staged
<1>5. VerifiedBackupIsKept'
  BY DEF VerifiedBackupIsKept, Intact, UnlinkOK, VaultTypeOK, Files, Attempts, None, Junk
<1>6. RestoreIsWhole'
  BY DEF RestoreIsWhole
<1>7. QED BY <1>1, <1>2, <1>3, <1>4, <1>5, <1>6

\* put goes on or fails.
LEMMA PutArtifactKeeps ==
    ASSUME NEW h \in Hosts, VaultInv, PutArtifact(h)
    PROVE  VaultInv'
<1> USE MaxAttemptsAssumption DEF VaultInv, PutArtifact, Step, Done, At,
        NoJob, vaultFiles, restoreDirs, history
<1>1. VaultTypeOK'
  BY DEF VaultTypeOK, JobOK, JobSteps, Deleting, Attempts, None, Junk, Files
<1>2. ASSUME NEW g \in Hosts PROVE JobOK(g)'
  BY DEF JobOK, VaultTypeOK, Deleting, Attempts, Files
<1>3. UnlinkOK'
  BY DeletersAssumption
     DEF UnlinkOK, VaultTypeOK, JobOK, Deleting, Files, Attempts, None, Junk
<1>4. StagingOK'
  <2>1. \A g \in Hosts : job'[g].at \in Staged => job'[g] = job[g]
    BY DEF VaultTypeOK, Staged, Files
  <2>2. QED BY <2>1 DEF StagingOK, Staged
<1>5. VerifiedBackupIsKept'
  BY DEF VerifiedBackupIsKept, Intact, UnlinkOK, VaultTypeOK, Files, Attempts, None, Junk
<1>6. RestoreIsWhole'
  BY DEF RestoreIsWhole
<1>7. QED BY <1>1, <1>2, <1>3, <1>4, <1>5, <1>6

\* A directory that is made takes nothing from an artifact.
LEMMA MakeBackupDirectoryKeeps ==
    ASSUME NEW h \in Hosts, VaultInv, MakeBackupDirectory(h)
    PROVE  VaultInv'
<1> USE MaxAttemptsAssumption DEF VaultInv, MakeBackupDirectory, Step, Done, At,
        NoJob, vaultFiles, restoreDirs, history
<1>1. VaultTypeOK'
  BY DEF VaultTypeOK, JobOK, JobSteps, Deleting, Attempts, None, Junk, Files
<1>2. ASSUME NEW g \in Hosts PROVE JobOK(g)'
  BY DEF JobOK, VaultTypeOK, Deleting, Attempts, Files
<1>3. UnlinkOK'
  BY DeletersAssumption
     DEF UnlinkOK, VaultTypeOK, JobOK, Deleting, Files, Attempts, None, Junk
<1>4. StagingOK'
  <2>1. \A g \in Hosts : job'[g].at \in Staged => job'[g] = job[g]
    BY DEF VaultTypeOK, Staged, Files
  <2>2. QED BY <2>1 DEF StagingOK, Staged
<1>5. VerifiedBackupIsKept'
  BY DEF VerifiedBackupIsKept, Intact, UnlinkOK, VaultTypeOK, Files, Attempts, None, Junk
<1>6. RestoreIsWhole'
  BY DEF RestoreIsWhole
<1>7. QED BY <1>1, <1>2, <1>3, <1>4, <1>5, <1>6

\* O_EXCL: what is there is not written again.
LEMMA WritePrivateKeeps ==
    ASSUME NEW h \in Hosts, NEW f \in Files, VaultInv, WritePrivate(h, f)
    PROVE  VaultInv'
<1> USE MaxAttemptsAssumption DEF VaultInv, WritePrivate, Step, Done, At,
        NoJob, vaultFiles, restoreDirs, history, FileAfter
<1>1. VaultTypeOK'
  <2>1. job[h].attempt \in Attempts /\ FileAfter[f] \in JobSteps
    BY DEF JobOK, Deleting, JobSteps, Files
  <2>2. job' \in [Hosts -> [at : JobSteps, attempt : Attempts \cup {None}]]
    BY <2>1, JobMoves
  <2>3. file' \in [Files -> Attempts \cup {None, Junk}]
    BY <2>1 DEF VaultTypeOK
  <2>4. QED BY <2>2, <2>3 DEF VaultTypeOK
<1>2. ASSUME NEW g \in Hosts PROVE JobOK(g)'
  BY DEF JobOK, VaultTypeOK, Deleting, Attempts, Files
<1>3. UnlinkOK'
  BY DeletersAssumption
     DEF UnlinkOK, VaultTypeOK, JobOK, Deleting, Files, Attempts, None, Junk
<1>4. StagingOK'
  <2>1. \A g \in Hosts : job'[g].at \in Staged => job'[g] = job[g]
    BY DEF VaultTypeOK, Staged, Files
  <2>2. QED BY <2>1 DEF StagingOK, Staged
<1>5. VerifiedBackupIsKept'
  BY DEF VerifiedBackupIsKept, Intact, UnlinkOK, VaultTypeOK, Files, Attempts, None, Junk
<1>6. RestoreIsWhole'
  BY DEF RestoreIsWhole
<1>7. QED BY <1>1, <1>2, <1>3, <1>4, <1>5, <1>6

\* Only what is intact is verified.
LEMMA ReadBackKeeps ==
    ASSUME NEW h \in Hosts, VaultInv, ReadBack(h)
    PROVE  VaultInv'
<1> USE MaxAttemptsAssumption DEF VaultInv, ReadBack, Step, Done, At,
        NoJob, vaultFiles, restoreDirs, history
<1>1. VaultTypeOK'
  BY DEF VaultTypeOK, JobOK, JobSteps, Deleting, Attempts, None, Junk, Files
<1>2. ASSUME NEW g \in Hosts PROVE JobOK(g)'
  BY DEF JobOK, VaultTypeOK, Deleting, Attempts, Files
<1>3. UnlinkOK'
  BY DeletersAssumption
     DEF UnlinkOK, VaultTypeOK, JobOK, Deleting, Files, Attempts, None, Junk
<1>4. StagingOK'
  <2>1. \A g \in Hosts : job'[g].at \in Staged => job'[g] = job[g]
    BY DEF VaultTypeOK, Staged, Files
  <2>2. QED BY <2>1 DEF StagingOK, Staged
<1>5. VerifiedBackupIsKept'
  BY DEF VerifiedBackupIsKept, Intact, UnlinkOK, VaultTypeOK, Files, Attempts, None, Junk
<1>6. RestoreIsWhole'
  BY DEF RestoreIsWhole
<1>7. QED BY <1>1, <1>2, <1>3, <1>4, <1>5, <1>6

\* The manifest's retention has ended.
LEMMA DeleteBackupKeeps ==
    ASSUME NEW h \in Hosts, VaultInv, DeleteBackup(h)
    PROVE  VaultInv'
<1> USE MaxAttemptsAssumption DEF VaultInv, DeleteBackup, Step, Done, At,
        NoJob, vaultFiles, restoreDirs, history
<1>1. VaultTypeOK'
  BY DEF VaultTypeOK, JobOK, JobSteps, Deleting, Attempts, None, Junk, Files
<1>2. ASSUME NEW g \in Hosts PROVE JobOK(g)'
  BY DEF JobOK, VaultTypeOK, Deleting, Attempts, Files
<1>3. UnlinkOK'
  BY DeletersAssumption
     DEF UnlinkOK, VaultTypeOK, JobOK, Deleting, Files, Attempts, None, Junk
<1>4. StagingOK'
  <2>1. \A g \in Hosts : job'[g].at \in Staged => job'[g] = job[g]
    BY DEF VaultTypeOK, Staged, Files
  <2>2. QED BY <2>1 DEF StagingOK, Staged
<1>5. VerifiedBackupIsKept'
  BY DEF VerifiedBackupIsKept, Intact, UnlinkOK, VaultTypeOK, Files, Attempts, None, Junk
<1>6. RestoreIsWhole'
  BY DEF RestoreIsWhole
<1>7. QED BY <1>1, <1>2, <1>3, <1>4, <1>5, <1>6

\* What loses a file was deleted for good reason.
LEMMA UnlinkFileKeeps ==
    ASSUME NEW h \in Hosts, NEW f \in Files, VaultInv, UnlinkFile(h, f)
    PROVE  VaultInv'
<1> USE MaxAttemptsAssumption DEF VaultInv, UnlinkFile, Step, Done, At,
        NoJob, vaultFiles, restoreDirs, history
<1>1. VaultTypeOK'
  BY DEF VaultTypeOK, JobOK, JobSteps, Deleting, Attempts, None, Junk, Files
<1>2. ASSUME NEW g \in Hosts PROVE JobOK(g)'
  BY DEF JobOK, VaultTypeOK, Deleting, Attempts, Files
<1>3. UnlinkOK'
  BY DeletersAssumption
     DEF UnlinkOK, VaultTypeOK, JobOK, Deleting, Files, Attempts, None, Junk
<1>4. StagingOK'
  <2>1. \A g \in Hosts : job'[g].at \in Staged => job'[g] = job[g]
    BY DEF VaultTypeOK, Staged, Files
  <2>2. QED BY <2>1 DEF StagingOK, Staged
<1>5. VerifiedBackupIsKept'
  BY DEF VerifiedBackupIsKept, Intact, UnlinkOK, VaultTypeOK, Files, Attempts, None, Junk
<1>6. RestoreIsWhole'
  BY DEF RestoreIsWhole
<1>7. QED BY <1>1, <1>2, <1>3, <1>4, <1>5, <1>6

\* An intact artifact keeps its directory: rmdir fails.
LEMMA RemoveDirectoryKeeps ==
    ASSUME NEW h \in Hosts, VaultInv, RemoveDirectory(h)
    PROVE  VaultInv'
<1> USE MaxAttemptsAssumption DEF VaultInv, RemoveDirectory, Step, Done, At,
        NoJob, vaultFiles, restoreDirs, history
<1>1. VaultTypeOK'
  BY DEF VaultTypeOK, JobOK, JobSteps, Deleting, Attempts, None, Junk, Files
<1>2. ASSUME NEW g \in Hosts PROVE JobOK(g)'
  BY DEF JobOK, VaultTypeOK, Deleting, Attempts, Files
<1>3. UnlinkOK'
  BY DeletersAssumption
     DEF UnlinkOK, VaultTypeOK, JobOK, Deleting, Files, Attempts, None, Junk
<1>4. StagingOK'
  <2>1. \A g \in Hosts : job'[g].at \in Staged => job'[g] = job[g]
    BY DEF VaultTypeOK, Staged, Files
  <2>2. QED BY <2>1 DEF StagingOK, Staged
<1>5. VerifiedBackupIsKept'
  BY DEF VerifiedBackupIsKept, Intact, UnlinkOK, VaultTypeOK, Files, Attempts, None, Junk
<1>6. RestoreIsWhole'
  BY DEF RestoreIsWhole
<1>7. QED BY <1>1, <1>2, <1>3, <1>4, <1>5, <1>6

\* A restore starts from an artifact that verified.
LEMMA RestoreBackupKeeps ==
    ASSUME NEW h \in Hosts, VaultInv, RestoreBackup(h)
    PROVE  VaultInv'
<1> USE MaxAttemptsAssumption DEF VaultInv, RestoreBackup, Step, Done, At,
        NoJob, vaultFiles, restoreDirs, history
<1>1. VaultTypeOK'
  BY DEF VaultTypeOK, JobOK, JobSteps, Deleting, Attempts, None, Junk, Files
<1>2. ASSUME NEW g \in Hosts PROVE JobOK(g)'
  BY DEF JobOK, VaultTypeOK, Deleting, Attempts, Files
<1>3. UnlinkOK'
  BY DeletersAssumption
     DEF UnlinkOK, VaultTypeOK, JobOK, Deleting, Files, Attempts, None, Junk
<1>4. StagingOK'
  <2>1. \A g \in Hosts : job'[g].at \in Staged => job'[g] = job[g]
    BY DEF VaultTypeOK, Staged, Files
  <2>2. QED BY <2>1 DEF StagingOK, Staged
<1>5. VerifiedBackupIsKept'
  BY DEF VerifiedBackupIsKept, Intact, UnlinkOK, VaultTypeOK, Files, Attempts, None, Junk
<1>6. RestoreIsWhole'
  BY DEF RestoreIsWhole
<1>7. QED BY <1>1, <1>2, <1>3, <1>4, <1>5, <1>6

\* A death leaves the files and the directories as they are.
LEMMA HostRestartsKeeps ==
    ASSUME NEW h \in Hosts, VaultInv, HostRestarts(h)
    PROVE  VaultInv'
<1> USE MaxAttemptsAssumption DEF VaultInv, HostRestarts, Step, Done, At,
        NoJob, vaultFiles, restoreDirs, history
<1>1. VaultTypeOK'
  BY DEF VaultTypeOK, JobOK, JobSteps, Deleting, Attempts, None, Junk, Files
<1>2. ASSUME NEW g \in Hosts PROVE JobOK(g)'
  BY DEF JobOK, VaultTypeOK, Deleting, Attempts, Files
<1>3. UnlinkOK'
  BY DeletersAssumption
     DEF UnlinkOK, VaultTypeOK, JobOK, Deleting, Files, Attempts, None, Junk
<1>4. StagingOK'
  <2>1. \A g \in Hosts : job'[g].at \in Staged => job'[g] = job[g]
    BY DEF VaultTypeOK, Staged, Files
  <2>2. QED BY <2>1 DEF StagingOK, Staged
<1>5. VerifiedBackupIsKept'
  BY DEF VerifiedBackupIsKept, Intact, UnlinkOK, VaultTypeOK, Files, Attempts, None, Junk
<1>6. RestoreIsWhole'
  BY DEF RestoreIsWhole
<1>7. QED BY <1>1, <1>2, <1>3, <1>4, <1>5, <1>6

\* Only a restore that made the directory goes on.
LEMMA MakeStagingKeeps ==
    ASSUME NEW h \in Hosts, VaultInv, MakeStaging(h)
    PROVE  VaultInv'
<1> USE DEF VaultInv, MakeStaging, CleanUp, At, vaultFiles, restoreDirs, history
<1>0. Step(h, "components") \/ Done(h)
  OBVIOUS
<1>1. VaultTypeOK'
  <2>1. staging' \in Directory
    BY EmptyFacts DEF VaultTypeOK
  <2>2. QED BY <1>0, <2>1, JobMoves DEF VaultTypeOK, JobSteps
<1>2. /\ \A g \in Hosts \ {h} : job'[g] = job[g]
      /\ job'[h].at \in {"components", "idle"}
      /\ job'[h].at = "components" => job'[h].attempt = job[h].attempt /\ ~staging.exists
  BY <1>0, JobMoves DEF JobSteps
<1>3. ASSUME NEW g \in Hosts PROVE JobOK(g)'
  BY <1>2 DEF JobOK, Deleting
<1>4. UnlinkOK' /\ VerifiedBackupIsKept'
  BY <1>2 DEF UnlinkOK, VerifiedBackupIsKept, Intact
<1>5. StagingOK'
  <2>1. CASE staging.exists
    BY <1>2, <2>1 DEF StagingOK, Staged
  <2>2. CASE ~staging.exists
    <3>1. \A g \in Hosts : job[g].at \notin Staged
      BY <2>2 DEF StagingOK
    <3>2. staging'.exists
      BY <2>2, EmptyFacts
    <3>3. QED BY <1>2, <3>1, <3>2 DEF StagingOK, Staged
  <2>3. QED BY <2>1, <2>2
<1>6. RestoreIsWhole'
  BY DEF RestoreIsWhole
<1>7. QED BY <1>1, <1>3, <1>4, <1>5, <1>6

\* Only the restore that owns the directory fills it.
LEMMA WriteComponentKeeps ==
    ASSUME NEW h \in Hosts, VaultInv, WriteComponent(h)
    PROVE  VaultInv'
<1> USE DEF VaultInv, WriteComponent, CleanUp, At, vaultFiles, restoreDirs, history
<1> DEFINE left == {c \in Components : staging.parts[c] # job[h].attempt}
<1>1. job[h].attempt \in Attempts
  BY DEF JobOK, Deleting
<1>2. /\ job' \in [Hosts -> [at : JobSteps, attempt : Attempts \cup {None}]]
      /\ \A g \in Hosts \ {h} : job'[g] = job[g]
      /\ job'[h].at \in {"components", "promote", "idle"}
      /\ job'[h].at # "idle" => job'[h].attempt = job[h].attempt
  BY JobMoves DEF JobSteps
<1>3. /\ staging' \in Directory
      /\ job'[h].at # "idle" => staging'.exists = staging.exists
      /\ job'[h].at = "promote" => left = {} /\ staging' = staging
  <2>1. CASE /\ UNCHANGED job
             /\ \E c \in left : staging' = [staging EXCEPT !.parts[c] = job[h].attempt]
    BY <1>1, <2>1 DEF VaultTypeOK, Directory
  <2>2. CASE left = {} /\ Step(h, "promote") /\ UNCHANGED staging
    BY <2>2 DEF VaultTypeOK
  <2>3. CASE CleanUp(h)
    BY <2>3, EmptyFacts, JobMoves DEF JobSteps
  <2>4. QED BY <2>1, <2>2, <2>3
<1>4. VaultTypeOK'
  BY <1>2, <1>3 DEF VaultTypeOK
<1>5. ASSUME NEW g \in Hosts PROVE JobOK(g)'
  BY <1>1, <1>2 DEF JobOK, Deleting
<1>6. UnlinkOK' /\ VerifiedBackupIsKept'
  BY <1>2 DEF UnlinkOK, VerifiedBackupIsKept, Intact
<1>7. StagingOK'
  <2>1. staging.exists /\ \A g \in Hosts \ {h} : job'[g].at \notin Staged
    BY <1>2 DEF StagingOK, Staged
  <2>2. job'[h].at = "promote" => \A c \in Components : staging'.parts[c] = job'[h].attempt
    BY <1>2, <1>3
  <2>3. QED BY <1>2, <1>3, <2>1, <2>2 DEF StagingOK, Staged
<1>8. RestoreIsWhole'
  BY DEF RestoreIsWhole
<1>9. QED BY <1>4, <1>5, <1>6, <1>7, <1>8

\* A full directory of one attempt is promoted, once.
LEMMA PromoteKeeps ==
    ASSUME NEW h \in Hosts, VaultInv, Promote(h)
    PROVE  VaultInv'
<1> USE DEF VaultInv, Promote, CleanUp, At, vaultFiles, restoreDirs, history
<1>0. job[h].attempt \in Attempts /\ job' = [job EXCEPT ![h] = NoJob]
  BY DEF JobOK, Deleting, Done
<1>1. VaultTypeOK'
  <2>1. staging' \in Directory /\ restored' \in Directory
    BY EmptyFacts DEF VaultTypeOK
  <2>2. job' \in [Hosts -> [at : JobSteps, attempt : Attempts \cup {None}]]
    BY <1>0 DEF NoJob, VaultTypeOK, JobSteps, None
  <2>3. QED BY <2>1, <2>2 DEF VaultTypeOK
<1>2. ASSUME NEW g \in Hosts PROVE JobOK(g)'
  BY <1>0 DEF JobOK, VaultTypeOK, Deleting, NoJob
<1>3. UnlinkOK' /\ VerifiedBackupIsKept'
  BY <1>0 DEF UnlinkOK, VaultTypeOK, NoJob, VerifiedBackupIsKept, Intact
<1>4. StagingOK'
  <2>1. \A g \in Hosts \ {h} : job[g].at \notin Staged
    BY DEF StagingOK, Staged
  <2>2. \A g \in Hosts : job'[g].at \notin Staged
    BY <1>0, <2>1 DEF VaultTypeOK, NoJob, Staged
  <2>3. QED BY <2>2 DEF StagingOK, Staged
<1>5. RestoreIsWhole'
  <2>1. \A c \in Components : staging.parts[c] = job[h].attempt
    BY DEF StagingOK
  <2>2. CASE restored' = staging
    BY <1>0, <2>1, <2>2 DEF RestoreIsWhole
  <2>3. CASE UNCHANGED restored
    BY <2>3 DEF RestoreIsWhole
  <2>4. QED BY <2>2, <2>3
<1>6. QED BY <1>1, <1>2, <1>3, <1>4, <1>5

\* Retention that ends only widens what may be deleted.
LEMMA RetentionEndsKeeps ==
    ASSUME NEW a \in Attempts, VaultInv, RetentionEnds(a)
    PROVE  VaultInv'
BY DEF VaultInv, RetentionEnds, VaultTypeOK, JobOK, UnlinkOK, StagingOK,
       VerifiedBackupIsKept, RestoreIsWhole, Intact, At, vaultFiles, restoreDirs

LEMMA VaultInitInv == VaultInit => VaultInv
<1>1. SUFFICES ASSUME VaultInit PROVE VaultInv
  OBVIOUS
<1> USE <1>1 DEF VaultInit, NoJob, At
<1>2. VaultTypeOK
  <2>1. staging \in Directory /\ restored \in Directory
    BY EmptyFacts
  <2>2. job \in [Hosts -> [at : JobSteps, attempt : Attempts \cup {None}]]
    BY DEF JobSteps, None
  <2>3. file \in [Files -> Attempts \cup {None, Junk}]
    OBVIOUS
  <2>4. attempts \in 0..MaxAttempts /\ {expired, verified, deleted} \subseteq SUBSET Attempts
    BY MaxAttemptsAssumption
  <2>5. QED BY <2>1, <2>2, <2>3, <2>4 DEF VaultTypeOK
<1>3. (\A h \in Hosts : JobOK(h)) /\ UnlinkOK /\ StagingOK
  BY DEF JobOK, UnlinkOK, StagingOK, Deleting, Staged
<1>4. VerifiedBackupIsKept /\ RestoreIsWhole
  BY EmptyFacts DEF VerifiedBackupIsKept, RestoreIsWhole
<1>5. QED BY <1>2, <1>3, <1>4 DEF VaultInv

\* VaultInv is inductive.
LEMMA VaultNextInv == VaultInv /\ [VaultNext]_vaultVars => VaultInv'
<1>1. SUFFICES ASSUME VaultInv, [VaultNext]_vaultVars PROVE VaultInv'
  OBVIOUS
<1>2. CASE UNCHANGED vaultVars
  BY <1>1, <1>2 DEF VaultInv, vaultVars, VaultTypeOK, JobOK, UnlinkOK, StagingOK,
     VerifiedBackupIsKept, RestoreIsWhole, Intact, At
<1>3. ASSUME NEW h \in Hosts, VaultStep(h) PROVE VaultInv'
  BY <1>1, <1>3, CreateBackupKeeps, PutArtifactKeeps, MakeBackupDirectoryKeeps,
     WritePrivateKeeps, ReadBackKeeps, DeleteBackupKeeps, UnlinkFileKeeps,
     RemoveDirectoryKeeps, RestoreBackupKeeps, MakeStagingKeeps, WriteComponentKeeps,
     PromoteKeeps
     DEF VaultStep
<1>4. QED BY <1>1, <1>2, <1>3, HostRestartsKeeps, RetentionEndsKeeps DEF VaultNext

LEMMA VaultInvAlways == VaultSpec => []VaultInv
BY VaultInitInv, VaultNextInv, PTL DEF VaultSpec

-----------------------------------------------------------------------------
(* Theorems *)

\* Every variable of the vault keeps its type.
THEOREM VaultTypeCorrect == VaultSpec => []VaultTypeOK
BY VaultInvAlways, PTL DEF VaultInv

\* A backup reported healthy stays whole until its retention ended and it was
\* deleted, whatever any number of processes attempt or die in the middle of.
THEOREM VerifiedBackupsAreKept == VaultSpec => []VerifiedBackupIsKept
BY VaultInvAlways, PTL DEF VaultInv

\* What a restore promotes is all of one artifact.
THEOREM RestoresAreWhole == VaultSpec => []RestoreIsWhole
BY VaultInvAlways, PTL DEF VaultInv

-----------------------------------------------------------------------------
(* The two side by side *)

\* Where one of them is chosen, as in MCStores, and the other stays as it is, each is
\* what it is alone: what holds of the components holds of the composition.
THEOREM StoresCompose == MCSpec => ProviderSpec /\ VaultSpec
<1>1. MCInit => ProviderInit /\ VaultInit
  BY DEF MCInit
<1>2. [MCNext]_allVars => [ProviderNext]_providerVars /\ [VaultNext]_vaultVars
  BY DEF MCNext, allVars
<1> QED BY <1>1, <1>2, PTL DEF MCSpec, ProviderSpec, VaultSpec

\* Every variable of the two components keeps its type.
THEOREM StoresTypeCorrect == MCSpec => []StoresTypeOK
<1>1. ProviderTypeOK /\ VaultTypeOK => StoresTypeOK
  BY DEF StoresTypeOK
<1> QED BY <1>1, StoresCompose, ProviderTypeCorrect, VaultTypeCorrect, PTL

=============================================================================
