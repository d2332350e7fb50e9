SPECIFICATION Spec
CONSTANTS
    Process = {p1}
    Draft = {d1}
    Item = {i1}
    MaxRevision = 2
    MaxTime = 2
    MaxRows = 6
    MaxDrift = 1
    MaxPurges = 1
    ContentDays = 1
    MetadataDays = 2
    Lifetime = 2
INVARIANTS
    SentOnce
