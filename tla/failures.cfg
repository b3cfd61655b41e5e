SPECIFICATION Spec
CONSTANTS
    A = A
    B = B
    Payloads = {A, B}
    Ports = {0, 1, 2}
    PodNames = {p1, p2}
    NoAgent = NoAgent
    NoPod = NoPod
    NoService = NoService
    Specs <- MixedSpecs
    Cascades = {"background", "foreground"}
    KubeletPhases = {}
    Recorded = {}
    HealerIds = {1, 2}
    MaxAttempts = 2
    MaxLag = 1
    MaxOps = 2
    MaxFaults = 1
    MaxTimeouts = 1
    MaxCrashes = 1
SYMMETRY PodSymmetry
INVARIANTS
    TypeOK
    PodRunsItsGeneration
    NothingForgotten
PROPERTIES
    DriftDeletesOnlyOutdated
CHECK_DEADLOCK FALSE
