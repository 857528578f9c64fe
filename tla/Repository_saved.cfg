CONSTANTS
    Threads = {t1, t2}
    None = None
    Entries = {e1, e2}
    Cycles = {c1}
    a1 = a1
    a2 = a2
    Artifacts = {a1, a2}
    Parents <- MCParents
    Plain = {a1, e1}
    Targets = {e1, a1}
    MaxWriteRetries = 2
    MaxCalls = 2
    MaxFaults = 1
SPECIFICATION Spec
INVARIANT
    ReturnedIsStored
CHECK_DEADLOCK FALSE
