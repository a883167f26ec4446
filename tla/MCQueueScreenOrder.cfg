SPECIFICATION Spec
CONSTANTS
    Interval = 2
    MaxDue = 1
    Movies = {a,b,c}
    MaxOutside = 0
    MaxEdits = 1
    MaxReorders = 2
INVARIANT ReorderedOrFailed
