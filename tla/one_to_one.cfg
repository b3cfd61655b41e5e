SPECIFICATION FairSpec
CONSTANTS
    A = A
    B = B
    Payloads = {A, B}
    Ports = {0, 1, 2}
    PodNames = {p1, p2}
    NoAgent = NoAgent
    NoPod = NoPod
    NoService = NoService
    Specs <- PodSpecs
    Cascades = {"background"}
    KubeletPhases = {}
    Recorded = {}
    HealerIds = {1}
    MaxAttempts = 2
    MaxLag = 1
    MaxOps = 1
    MaxFaults = 0
    MaxTimeouts = 0
    MaxCrashes = 0
PROPERTIES
    OneToOne
CHECK_DEADLOCK FALSE
