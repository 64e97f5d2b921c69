SPECIFICATION Spec
CONSTANTS
    Readers = {r1, r2}
    Subscribers = {s1, s2}
    MaxConcurrentReads = 1
    ChannelSize = 1
    MaxEntries = 2
    Workloads <- MCWorkloads
INVARIANTS
    Inv
    EventsOffered
PROPERTY
    RemovedEntriesFrozen
SYMMETRY MCSymmetry
CHECK_DEADLOCK FALSE
