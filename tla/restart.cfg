SPECIFICATION RestFairSpec
CONSTANTS
    c1 = c1
    c2 = c2
    I = I
    J = J
    X = X
    Y = Y
    Clients = {c1, c2}
    Images <- ImageSet
    Envs <- EnvSet
    Requests <- AllRequests
    Workloads <- Restarted
    MayFail = FALSE
    Omitted = Omitted
    Payloads <- PayloadSet
    Ports = {0}
    PodNames = {p1}
    NoAgent = NoAgent
    NoPod = NoPod
    NoService = NoService
    Specs <- SpecSet
    Cascades = {"background"}
    KubeletPhases = {}
    Recorded = {}
    HealerIds = {1}
    MaxAttempts = 2
    MaxLag = 1
    MaxOps = 6
    MaxFaults = 0
    MaxTimeouts = 0
    MaxCrashes = 0
PROPERTIES
    RestartRecreates
CHECK_DEADLOCK FALSE
