------------------------------ MODULE MCStores ------------------------------
(***************************************************************************)
(* Instances of ReferenceProvider and BackupVault for TLC.  They share     *)
(* nothing: which of the two runs is chosen once.                          *)
(***************************************************************************)
EXTENDS ReferenceProvider, BackupVault
CONSTANTS p1, p2, d0, d1, r0, r1, noRelease, k1, k2, c1, c2

MCProcesses == {p1, p2}
MCArtifacts == {d0, d1}
MCRollouts == {r0, r1}
MCArtifactOf == [i \in MCRollouts |-> IF i = r0 THEN d0 ELSE d1]
MCRollbackOf == [i \in MCRollouts |-> IF i = r0 THEN d1 ELSE d0]

MCHosts == {p1, p2}
MCDeleters == {p1}
MCKeys == {k1, k2}
MCComponents == {c1, c2}

VARIABLE part
allVars == <<providerVars, vaultVars, part>>

MCInit == ProviderInit /\ VaultInit /\ part \in {"provider", "vault"}
MCNext ==
    /\ UNCHANGED part
    /\ \/ part = "provider" /\ ProviderNext /\ UNCHANGED vaultVars
       \/ part = "vault" /\ VaultNext /\ UNCHANGED providerVars
MCSpec == MCInit /\ [][MCNext]_allVars

(* The variables of both components hold values of their kind. *)
StoresTypeOK == ProviderTypeOK /\ VaultTypeOK
=============================================================================
