CONSTANTS
    p1 = p1
    p2 = p2
    m = m
    coder = coder
    writer = writer
    Providers = {p1, p2}
    Models = {m}
    Roles = {coder, writer}
    RoleOf <- MCRoleOf
    RulePool <- MCRulePool
    FirstRules <- MCFirstRules
    Seeds <- MCSeeds
    Overrides <- MCOverrides
    Project = "project"
    Agents = {a1}
    Limits = {2, 4}
    Configs <- MCConfigs
    Thresholds <- MCThresholds
    Unreadable = Unreadable
    MaxSpent = 1
    MaxOps = 2
    NULL = NULL
SPECIFICATION Spec
INVARIANTS
    RouteIsBest
    OutOfRotation
PROPERTY CriticalIsActedOn
CHECK_DEADLOCK FALSE
