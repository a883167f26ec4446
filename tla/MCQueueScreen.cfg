SPECIFICATION Spec
CONSTANTS
    Interval = 2
    MaxDue = 1
    Movies = {a,b}
    MaxOutside = 2
    MaxEdits = 2
    MaxReorders = 1
INVARIANTS TypeOK RowOpensItsMovie SavedOnce
PROPERTY LatestIsShown
