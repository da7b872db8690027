----------------------------- MODULE MCWorkflow -----------------------------
(***************************************************************************)
(* The instance of Workflow for TLC.                                       *)
(***************************************************************************)
EXTENDS Workflow

CONSTANTS w1, w2

MCWorkers == {w1, w2}
MCResolvers == {w1}

Job(valid, production, risky, inScope, backup, attempts) ==
    [valid |-> valid, production |-> production, risky |-> risky, inScope |-> inScope,
     backup |-> backup, attempts |-> attempts]

\* A production job; a risky and an ordinary one for staging; one whose state is not
\* one to checkpoint; one outside the scope boundary; one without a verified backup,
\* whose actions may be retried.
MCProduction == Job(TRUE, TRUE, FALSE, TRUE, TRUE, 1)
MCJobs == {MCProduction, Job(TRUE, FALSE, TRUE, TRUE, TRUE, 1),
           Job(TRUE, FALSE, FALSE, TRUE, TRUE, 1), Job(FALSE, FALSE, FALSE, TRUE, TRUE, 1),
           Job(TRUE, FALSE, FALSE, FALSE, TRUE, 1), Job(TRUE, FALSE, FALSE, TRUE, FALSE, 2)}

\* Two invocations race over every job; a production job is delivered, pauses
\* and is resumed by two operators.
MCMaxCalls == [j \in MCJobs |-> IF j.production \/ j.attempts > 1 THEN 3 ELSE 2]
=============================================================================
