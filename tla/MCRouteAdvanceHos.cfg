\* One request at a time, under a policy that limits the drive time.
SPECIFICATION Spec
CONSTANTS
    Callers = {c1}
    Drivers = {dr1}
    N = 3
    Kind <- MCKind3
    Drive <- MCDrive3
    Policies <- MCPoliciesHos
    Requests <- MCAsked
    Batches <- MCNoBatches
    HosActions <- MCHosActions
    None = None
    MaxAge = 1
    MaxCalls = 3
    MaxFaults = 0
INVARIANT HosLimitIsContinuous
