SPECIFICATION StoreSpec
CONSTANTS
    Fields = {f1, f2}
    Values = {v1}
    Callers = {c1}
    Ttls = {1, 3}
    Day = 4
    Missing = Missing
    MaxTime = 4
    MaxCalls = 2
    MaxFaults = 0
    MemoryCallers = {c1}
    MaxMemoryCalls = 0
    MaxObjects = 1
INVARIANTS
    IndexKeptAlive
CHECK_DEADLOCK FALSE
