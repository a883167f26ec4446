SPECIFICATION Spec
CONSTANTS
    Dates = {1, 2, 3}
    Today = 1
    Titles = {jaws}
    None = None
    MaxActs = 3
INVARIANTS TypeOK BookmarksAgree PerformancesFresh
 
CHECK_DEADLOCK FALSE
