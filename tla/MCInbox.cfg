\* Two concurrent fetches of a channel with two messages, pages of one.
CONSTANTS
    f1 = f1
    f2 = f2
    Fetcher = {f1, f2}
    MaxMessage = 2
    MaxVersion = 2
    Addressed <- MCAddressed
    PageSize = 1
    MaxPages = 2
    MaxPointChecks = 1
    MaxClock = 1
SYMMETRY Interchangeable
SPECIFICATION Spec
INVARIANTS NothingMissed EventsAreReal

