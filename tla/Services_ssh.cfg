\* Inventory collection alone: a live inventory that the trusted evidence vouches for.
CONSTANTS
    Services = {"ssh"}
    Refs = {"a", "b"}
    Procs = {"p1"}
    Tokens = {"t1"}
    MaxFaults = 2
    Workers = {"w1", "w2"}
    Requests <- MCRequests
    MaxDbFaults = 1
    Capabilities = {"connect", "deploy"}
    Candidates = {"c1", "c2"}
    Observed <- MCObserved
    ClaimSets <- MCClaimSets
    MaxDecisions = 2
    FileCount = 2
    SubDirectories = {"lib"}
    DirectoryOf <- MCDirectoryOf
    AllowedFiles = {1, 2}
    PlainContents = {"a"}
    SecretContents = {"s"}
    Capturers = {"p1", "p2"}
    MaxWrites = 2
    MaxMirrorFaults = 1
    Engines = {"m1", "m2"}
    AlertObservations <- MCAlertObservations
    BackupChecks <- MCBackupChecks
    FreshnessLimit = 1
    Suppression = 1
    MaxCalls = 3
    MaxMonitoringFaults = 1
    RunIds = {"r1", "r2"}
    WorkerProcesses = {"w1", "w2"}
    Commits = {"h1", "h2"}
    MaxInvocations = 3
    MaxAccidents = 1
    Bases = {"b1", "b2"}
    SshClients = {"p1", "p2"}
    CollectionSteps <- MCCollectionSteps
    MaxInventories = 2
    MaxSshFaults = 1
    Paths = {"f1", "f2", ".f2"}
    RestoreNames <- MCRestoreNames
    OutsidePaths = {}
    FileContents = {"v1", "v2"}
    UnsafeContents = {}
    Proposals <- MCProposals
    JobContext <- MCJobContext
    Appliers = {"a1"}
    Policies <- MCPolicies
    Tenants = {"ta"}
    References = {"d1"}
    MaxGateAttempts = 2
    MaxRemediationFaults = 2
SPECIFICATION MCSpec
CHECK_DEADLOCK FALSE
INVARIANT
    LiveInventorySeals
