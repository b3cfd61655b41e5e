SPECIFICATION FairSpec
CONSTANTS
    A = A
    B = B
    Payloads = {A, B}
    Ports = {0, 1, 2}
    PodNames = {p1}
    NoAgent = NoAgent
    NoPod = NoPod
    NoService = NoService
    Specs <- StatusSpecs
    Cascades = {"background"}
    KubeletPhases = {"Running"}
    Recorded = {}
    HealerIds = {1}
    MaxAttempts = 2
    MaxLag = 1
    MaxOps = 2
    MaxFaults = 1
    MaxTimeouts = 0
    MaxCrashes = 0
PROPERTIES
    StatusConverges
    ServiceConverges
CHECK_DEADLOCK FALSE
