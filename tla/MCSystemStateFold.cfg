CONSTANTS
    s1 = s1
    s2 = s2
    s3 = s3
    s4 = s4
    p1 = p1
    p2 = p2
    n1 = n1
    n2 = n2
    a1 = a1
    None = None
    Sessions = {s1, s2, s3, s4}
    Plugins = {p1, p2}
    Tools = {n1, n2}
    Actions = {a1}
    MaxStrays = 1
    MaxHistory = 1
    MaxSpawned = 2

SPECIFICATION Spec
SYMMETRY MCSymmetry

INVARIANTS
    TypeOK
    SpawnAcyclic
    ToolOwnerLive
    RegistryExact
    CascadeExact

PROPERTIES
    HistoryKept
