SPECIFICATION Spec
CONSTANTS
    MaxText = 3
    MaxLength = 7
    MaxExpiry = 1
    MaxEdits = 1
    MaxRaw = 3
INVARIANT CreatedLoads
CHECK_DEADLOCK FALSE
