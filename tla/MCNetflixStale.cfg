SPECIFICATION Spec
CONSTANTS
    jaws = jaws
    alien = alien
    brazil = brazil
    view = view
    Movies <- MCMovies
    FirstQueue <- TwoMovies
    Views <- OneView
    Kinds <- Sessions
    Unreliable = FALSE
    MaxEtag = 3
    MaxForeign = 1
    MaxEdits = 1
    MaxRefreshes = 1
    MaxCrashes = 0
INVARIANTS
    SameEtagMeansUpToDate
CHECK_DEADLOCK FALSE
