SPECIFICATION FairSpec
CONSTANTS
    A = A
    B = B
    Payloads = {A, B}
    Ports = {0, 1, 2}
    PodNames = {p1}
    NoAgent = NoAgent
    NoPod = NoPod
    NoService = NoService
    Specs <- HealingSpecs
    Cascades = {"background"}
    KubeletPhases = {}
    Recorded = {"Resurrected"}
    HealerIds = {1, 2}
    MaxAttempts = 2
    MaxLag = 1
    MaxOps = 3
    MaxFaults = 1
    MaxTimeouts = 0
    MaxCrashes = 0
INVARIANTS
    HistoryIsTrue
PROPERTIES
    ResurrectsWhatWasDeleted
    ResurrectedOnce
    HealingCompletes
CHECK_DEADLOCK FALSE
