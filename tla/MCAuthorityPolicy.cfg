\* Two processes activate and revise, one of them approves and the other one sends;
\* one identifier may be chosen.
CONSTANTS
    c1 = c1
    c2 = c2
    e1 = e1
    p1 = p1
    p2 = p2
    NoConfig = NoConfig
    Process = {p1, p2}
    Job <- MCPolicySend
    Config = {c1, c2}
    Configured = {c1}
    MaxRevision = 2
    Flagged = {2}
    ExplicitId = {e1}
    MaxEdits = 1
    MaxTime = 1
    MaxSequence = 0
    DraftLifetime = 2
    Lifetime = 1
SPECIFICATION Spec
INVARIANTS SecretsAreReviewed ClaimsAreAuthorised
PROPERTIES DeactivationIsFinal ClaimSeesNow
