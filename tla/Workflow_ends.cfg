\* One worker and one crash.  Every invocation ends, so the system stops.
CONSTANTS
    w1 = w1
    w2 = w2
    Workers <- MCResolvers
    Resolvers <- MCResolvers
    Jobs <- MCJobs
    MaxCalls <- MCMaxCalls
    MaxCrashes = 1
CHECK_DEADLOCK FALSE
SPECIFICATION FairSpec
PROPERTIES
    InvocationsEnd
