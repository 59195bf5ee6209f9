\* Forced requests that race: one acts on the leg it read long ago.
SPECIFICATION Spec
CONSTANTS
    Callers = {c1, c2}
    Drivers = {dr1}
    N = 3
    Kind <- MCKind3
    Drive <- MCDrive3
    Policies <- MCPolicies
    Requests <- MCForced
    Batches <- MCNoBatches
    HosActions <- MCHosActions
    None = None
    MaxAge = 1
    MaxCalls = 3
    MaxFaults = 0
PROPERTY AdvancesCurrentLeg
