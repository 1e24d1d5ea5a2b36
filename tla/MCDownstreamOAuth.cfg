CONSTANTS
    dcr = dcr
    cimd = cimd
    r1 = r1
    Clients <- TwoClients
    Dynamic <- OneDynamic
    Requests <- OneRequest
    MaxAccess = 1
    MaxFlows = 1
    MaxPairs = 3
    MaxFaults = 1
SPECIFICATION Spec
CHECK_DEADLOCK FALSE

INVARIANT SpentStaysSpent
INVARIANT RevokedStaysOut
INVARIANT AdmissionIsExact
