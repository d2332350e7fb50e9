\* Two raced activations, one of which is deactivated.
CONSTANTS
    c1 = c1
    c2 = c2
    e1 = e1
    p1 = p1
    p2 = p2
    NoConfig = NoConfig
    Process = {p1, p2}
    Job <- MCOperators
    Config = {c1}
    Configured = {c1}
    MaxRevision = 1
    Flagged = {}
    ExplicitId = {e1}
    MaxEdits = 0
    MaxTime = 3
    MaxSequence = 1
    DraftLifetime = 2
    Lifetime = 1
SPECIFICATION Spec
PROPERTIES DeactivationNeverWidens
