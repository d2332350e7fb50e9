\* Approvals and overrides that race with revisions, configuration changes and sends.
CONSTANTS
    c1 = c1
    c2 = c2
    e1 = e1
    p1 = p1
    p2 = p2
    NoConfig = NoConfig
    Process = {p1, p2}
    Job <- MCApproveSend
    Config = {c1, c2}
    Configured = {c1}
    MaxRevision = 2
    Flagged = {2}
    ExplicitId = {}
    MaxEdits = 2
    MaxTime = 3
    MaxSequence = 0
    DraftLifetime = 2
    Lifetime = 1
SPECIFICATION Spec
INVARIANTS ApprovalEvidence
