SPECIFICATION Spec
CONSTANTS
    jaws = jaws
    alien = alien
    brazil = brazil
    view = view
    Movies <- MCMovies
    FirstQueue <- TwoMovies
    Views <- OneView
    Kinds <- Every
    Unreliable = TRUE
    MaxEtag = 4
    MaxForeign = 1
    MaxEdits = 2
    MaxRefreshes = 1
    MaxCrashes = 1
INVARIANTS
    TypeOK
    CopiesGenuineUnlessBlindOrOvertaken
    UpToDateUnlessBlindOvertakenOrTorn
PROPERTIES
    OnlyFailedSessionsGoBack
    EditsAreReported
CHECK_DEADLOCK FALSE
