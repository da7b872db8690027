CONSTANTS
    p1 = p1
    p2 = p2
    d0 = d0
    d1 = d1
    r0 = r0
    r1 = r1
    noRelease = noRelease
    k1 = k1
    k2 = k2
    c1 = c1
    c2 = c2
    Processes <- MCProcesses
    Artifacts <- MCArtifacts
    Rollouts <- MCRollouts
    ArtifactOf <- MCArtifactOf
    RollbackOf <- MCRollbackOf
    NoRelease <- noRelease
    MaxDeaths = 1
    Hosts <- MCHosts
    Deleters <- MCDeleters
    Keys <- MCKeys
    Components <- MCComponents
    MaxAttempts = 2
SPECIFICATION MCSpec
CHECK_DEADLOCK FALSE
INVARIANTS
    StoresTypeOK
    LinksAreNotDangling
    RollbackIsNamed
    VerifiedBackupIsKept
    RestoreIsWhole
PROPERTIES
    FailedDeployKeepsCurrent
    RollbackRestores
