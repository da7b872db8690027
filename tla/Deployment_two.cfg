\* Two controllers race over one intent; either may crash at any step.
CONSTANTS
    c1 = c1
    c2 = c2
    i1 = i1
    i2 = i2
    k1 = k1
    cred1 = cred1
    noIntent = noIntent
    NoIntent <- noIntent
    Controllers <- MCTwoControllers
    Intents <- MCOneIntent
    Keys <- MCKeys
    KeyOf <- MCKeyOfOne
    Creds <- MCCreds
    CredOf <- MCCredOfOne
SPECIFICATION Spec
SYMMETRY MCSymmetry
INVARIANTS
    TypeOK
    AuditAccountsForStatus
    SuccessWasEarned
    DeployIsAuthorised
    DeployOncePerController
    GatedRecordHasBackup
PROPERTIES
    TerminalIsFinal
    ImplementsLifecycle
