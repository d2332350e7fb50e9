\* One revision: the abstract state machine, and progress of senders that do not die.
CONSTANTS
    cli = cli
    runner = runner
    step = step
    c1 = c1
    c2 = c2
    a1 = a1
    a2 = a2
    e1 = e1
    NoContent = NoContent
    NoAuthority = NoAuthority
    Sender = {cli, runner, step}
    Kind <- MCKind
    MaxRevision = 1
    Content = {c1}
    Authority = {a1}
    ExplicitId = {e1}
    MaxAttempts = 4
    MaxTransportAttempts = 3
SPECIFICATION FairSpec
PROPERTIES ClaimSettles ImplementsPromise
