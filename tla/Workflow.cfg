\* Two workers, of which one has no pre-production resolver, and one crash.  Every
\* invocation ends and there are two or three, so the system stops.
CONSTANTS
    w1 = w1
    w2 = w2
    Workers <- MCWorkers
    Resolvers <- MCResolvers
    Jobs <- MCJobs
    MaxCalls <- MCMaxCalls
    MaxCrashes = 1
CHECK_DEADLOCK FALSE
SPECIFICATION Spec
INVARIANTS
    TypeOK
    ExecutionsAreBounded
    DeployWasAuthorised
    RollbackFollowsFailedVerification
    CompletionWasEarned
    TrailAccountsForPhase
PROPERTIES
    SettledActionsAreNotRepeated
