SPECIFICATION FairSpec
CONSTANTS
    Names = {n1}
    Callers = {c1}
    Registrars = {g1}
    Nobody = Nobody
    MaxConcurrentExecutions = 1
    MaxExecutions = 1
    MaxRegistrations = 2
PROPERTY
    ExecuteReturns
CHECK_DEADLOCK FALSE
