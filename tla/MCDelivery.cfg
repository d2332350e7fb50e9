\* Three senders, one of each kind, on two revisions with the same content hash.
CONSTANTS
    cli = cli
    runner = runner
    step = step
    c1 = c1
    c2 = c2
    a1 = a1
    a2 = a2
    e1 = e1
    NoContent = NoContent
    NoAuthority = NoAuthority
    Sender = {cli, runner, step}
    Kind <- MCKind
    MaxRevision = 2
    Content = {c1}
    Authority = {a1, a2}
    ExplicitId = {e1}
    MaxAttempts = 4
    MaxTransportAttempts = 3
SPECIFICATION Spec
INVARIANTS OneMessagePerNonce EvidenceSound AttemptChain TransportBudget
PROPERTIES OutcomeIsFinal
