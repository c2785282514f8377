SPECIFICATION ScopeSpec
CONSTANTS
    q1 = q1
    q2 = q2
    Request = {q1, q2}
    Site = {s1, s2}
    Row = {i1, i2}
    Domain = {d1, d2}
    Served <- EveryRoute
    Dashboard = Dashboard
    Org = Org
    None = None
SYMMETRY Symmetry
INVARIANT ConfinedToSite
INVARIANT OneSubscription
