SPECIFICATION FairSpec
CONSTANTS
    s1 = s1
    s2 = s2
    p1 = p1
    p2 = p2
    Server = {s1, s2}
    Plan = {p1, p2}
    Servers <- PlanServers
    First = s1
    Switchable = {s1}
    MaxFaults = 1
INVARIANTS
    AccessInvariant
    NoAccessWithoutPlan
    PlanGivesAccess
PROPERTIES
    DueExpires
