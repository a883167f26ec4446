SPECIFICATION Spec
CONSTANTS
    disc1 = disc1
    disc2 = disc2
    liked = liked
    loved = loved
    Unrated = Unrated
    None = None
    Views <- TwoViews
    Ratings <- MCRatings
    Unreliable = TRUE
    MaxForeign = 1
    MaxChanges = 3
    MaxUpdates = 2
    MaxCrashes = 1
INVARIANTS
    TypeOK
    NewestChangeShown
    FileHoldsServerRating
PROPERTIES
    ChangesAreReported
CHECK_DEADLOCK FALSE
