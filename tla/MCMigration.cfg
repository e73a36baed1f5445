SPECIFICATION Spec
CONSTANTS
    t1 = t1
    t2 = t2
    Tabs = {t1, t2}
    MaxLoads = 4
    MaxEdits = 1
    MaxToggles = 2
    MaxDenied = 1
    MaxResets = 1
CONSTRAINTS Steady FewPages
SYMMETRY TabSymmetry
INVARIANTS
    NothingIsLost
    NothingIsForgotten
    CutOffTabsReload
PROPERTIES
    AdapterFits
CHECK_DEADLOCK FALSE
