SPECIFICATION FairSpec
CONSTANTS
    A = A
    B = B
    Payloads = {A, B}
    Ports = {0, 1, 2}
    PodNames = {p1}
    NoAgent = NoAgent
    NoPod = NoPod
    NoService = NoService
    Specs <- PausedHealingSpecs
    Cascades = {"background"}
    KubeletPhases = {}
    Recorded = {}
    HealerIds = {1}
    MaxAttempts = 2
    MaxLag = 1
    MaxOps = 2
    MaxFaults = 0
    MaxTimeouts = 0
    MaxCrashes = 1
PROPERTIES
    HealingCompletes
CHECK_DEADLOCK FALSE
