SPECIFICATION PartsSpec
CONSTANTS
    w1 = w1
    w2 = w2
    w3 = w3
    v1 = v1
    v2 = v2
    h1 = h1
    c1 = c1
    m1 = m1
    k1 = k1
    Parts = {"leases", "admission", "stream", "settings"}
    Workers = {w1, w2, w3}
    Values = {v1, v2}
    LeaseTTL = 2
    MaxTime = 5
    MaxFence = 4
    Resolvers = {h1}
    MaxSessions = 1
    MaxTasks = 2
    MaxConcurrentTasks = 2
    MaxDrawn = 2
    MaxApprovals = 1
    MaxGiveUps = 2
    MaxRestarts = 2
    Pages = {c1}
    HistoryMax = 2
    ChannelMax = 1
    MaxEvents = 4
    MaxBreaks = 2
    MaxEnds = 1
    Paths <- MCPaths
    LabRoots <- MCLabRoots
    AllowedRoots <- MCAllowedRoots
    QuarantineRoot <- MCQuarantineRoot
    Link <- MCLink
    LinkTargets <- MCLinkTargets
    Requests <- MCRequests
    EnvProvider <- MCEnvProvider
    Models = {m1}
    Keys = {k1}
    MaxUpdates = 2
    MaxRelinks = 1
    MaxStops = 1
INVARIANTS
    FenceInv ExclusiveWriter
    AdmissionInv SessionExclusive AllOrNothing
    StreamInv 
    SettingsKept RootsHold
PROPERTIES
    NoLostUpdate
    NotReset AdmissionSettles
    EndReached
CHECK_DEADLOCK FALSE
