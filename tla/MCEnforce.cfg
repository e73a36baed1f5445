SPECIFICATION Spec
CONSTANTS
    d1 = d1
    d2 = d2
    u1 = u1
    u2 = u2
    NoUser = NoUser
    Docs = {d1, d2}
    Users = {u1, u2}
    RuleSets <- AllRuleSets
    Scenarios <- AllScenarios
INVARIANTS
    AbilityFollowsRules
    UnknownRulesStayAsTheyWere
    EnforcedMeansEnforced
CHECK_DEADLOCK FALSE
