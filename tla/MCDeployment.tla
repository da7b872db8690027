---------------------------- MODULE MCDeployment ----------------------------
(***************************************************************************)
(* Instances of Deployment for TLC.                                        *)
(***************************************************************************)
EXTENDS Deployment, TLC

CONSTANTS c1, c2, i1, i2, k1, cred1, noIntent

MCTwoControllers == {c1, c2}
MCOneController  == {c1}
MCOneIntent      == {i1}
MCTwoIntents     == {i1, i2}
MCKeys           == {k1}
MCCreds          == {cred1}

\* All intents share one idempotency key and one credential, so that both the
\* uniqueness constraint and the revocation matter to every intent.
MCKeyOfOne  == [i \in MCOneIntent |-> k1]
MCCredOfOne == [i \in MCOneIntent |-> cred1]
MCKeyOfTwo  == [i \in MCTwoIntents |-> k1]
MCCredOfTwo == [i \in MCTwoIntents |-> cred1]

MCSymmetry == Permutations(MCTwoControllers)
=============================================================================
