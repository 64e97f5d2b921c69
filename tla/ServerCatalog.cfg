SPECIFICATION CatalogFairSpec
CONSTANTS
    Kinds = {resources, tools}
    Announced = {tools}
    Names = {n1}
    Updaters = {u1, u2}
    OutboxSize = 1
    MaxChanges = 4
    MaxCalls = 2
INVARIANTS
    CatalogInv
PROPERTY
    ClientCatchesUp
CHECK_DEADLOCK FALSE
