SPECIFICATION StoresSpec
CONSTANTS
    Fields = {f1, f2}
    Values = {v1}
    Callers = {c1, c2}
    Ttls = {0, 1}
    Day = 4
    Missing = Missing
    MaxTime = 4
    MaxCalls = 4
    MaxFaults = 1
    MemoryCallers = {c1, c2}
    MaxMemoryCalls = 4
    MaxObjects = 3
    Agents = {a1}
    Writers = {w1, w2}
    Reasons = {"Stopped", "Started"}
    maxEntries = 2
    MaxSeconds = 1
    MaxAppends = 4
    MaxBreaks = 1
    MaxCrashes = 1
INVARIANTS
    EntriesIndexed
    ClearedIsGone
    ListBounded
PROPERTIES
    WritesReach
    EntriesStay
    ImplementsEventLog
    ImplementsVolatileLog
CHECK_DEADLOCK FALSE
