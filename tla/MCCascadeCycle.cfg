SPECIFICATION Spec
CONSTANTS
    Entities = {1, 2, 3}
    Fields <- TwoFields
    Roles <- OneComposite
    Retained = {"part"}
    HasPII = {1, 2, 3}
    AccountHolders = {1, 2}
    OwnEntity = 1
    MaxRefs = 2
    MaxSelected = 1
    MaxDepth = 4
    MaxEdits = 0
    MaxFaults = 0
INVARIANT
    DeletionTerminatesOnCycles
CHECK_DEADLOCK FALSE
