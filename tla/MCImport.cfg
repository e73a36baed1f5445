SPECIFICATION Spec
CONSTANTS
    c1 = c1
    e1 = e1
    e2 = e2
    l1 = l1
    l2 = l2
    t1 = t1
    File <- ThreeRecords
    Existing = {e1, e2}
    ByReference = {e2}
    Targets = {t1}
    Links = {l1, l2}
    Target <- SameTarget
    Indirect = {l2}
    Sizes <- SomeSizes
    MaxBytes = 3
    MaxDocuments = 2
    MaxEdits = 1
    MaxFaults = 1
INVARIANTS
    RequestsAreASplit
    StoredAreReported
    NextSaveFits
    StoredAreInHistory
    UndoneIsGone
PROPERTIES
    OthersChangesSurvive
CHECK_DEADLOCK FALSE
