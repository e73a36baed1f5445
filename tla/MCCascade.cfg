SPECIFICATION Spec
CONSTANTS
    Entities = {1, 2, 3}
    Fields <- TwoFields
    Roles <- AllRoles
    Retained = {"part"}
    HasPII = {1, 2, 3}
    AccountHolders = {1, 2}
    OwnEntity = 1
    MaxRefs = 3
    MaxSelected = 2
    MaxDepth = 4
    MaxEdits = 1
    MaxFaults = 1
INVARIANTS
    NoDanglingReferences
    UndoRestores
    NothingPersonalOverlooked
    AnonymizingTerminatesOnCycles
PROPERTY
    OnlyPartsAreDeleted
CONSTRAINT OneDisturbance
CHECK_DEADLOCK FALSE
