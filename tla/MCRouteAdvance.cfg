\* Two requests that race, with policies, driver events and failures, on a route that changes
\* hands between two drivers who take breaks.
SPECIFICATION Spec
CONSTANTS
    Callers = {c1, c2}
    Drivers = {dr1, dr2}
    N = 2
    Kind <- MCKind
    Drive <- MCDrive
    Policies <- MCPolicies
    Requests <- MCForced
    Batches <- MCBatches
    HosActions <- MCBreaks
    None = None
    MaxAge = 2
    MaxCalls = 2
    MaxFaults = 1
SYMMETRY Symmetry
INVARIANTS TypeOK NoLegSkipped UnavailableDriverBlocks
PROPERTY ImplementsProgress
