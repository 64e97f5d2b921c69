SPECIFICATION RegistriesSpec
CONSTANTS
    Names = {n1, n2}
    Callers = {c1, c2}
    Registrars = {g1, g2}
    Nobody = Nobody
    MaxConcurrentExecutions = 1
    MaxExecutions = 2
    MaxRegistrations = 1
    Prompters = {p1, p2}
    PromptWorkers = 1
    MaxPrompts = 2
    MaxUses = 2
    Users = {u1, u2, u3}
    NoUser = NoUser
    MaxTemplates = 4
    MaxCalls = 1
    Reentrant = TRUE
INVARIANTS
    Inv
    OtherRegistriesInv
    TemplatesReversible
PROPERTIES
    ExecuteReturnsOrLocksCross
    OperationsReturn
CHECK_DEADLOCK FALSE
