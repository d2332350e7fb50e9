\* Two commands, two drafts and revisions, an item that is edited and deleted.
CONSTANTS
    p1 = p1
    p2 = p2
    i1 = i1
    i2 = i2
    d1 = d1
    d2 = d2
    a = a
    b = b
    Process = {p1, p2}
    Item = {i1}
    Mark = {"acknowledged", "archived"}
    Draft = {d1, d2}
    Content = {a, b}
    NoDraft = NoDraft
    NoItem = NoItem
    MaxRevision = 2
    MaxTime = 1
    ContentDays = 1
SPECIFICATION Spec
SYMMETRY Interchangeable
INVARIANTS LinkedTogether ClaimedForShownTarget RepliedIsAccepted
