SPECIFICATION UpdaterSpec
CONSTANTS
    jaws = jaws
    alien = alien
    details = details
    images = images
    urgent = urgent
    theaters = theaters
    scores = scores
    posters = posters
    websites = websites
    NoMovie = NoMovie
    Movies <- MCMovies
    Details = details
    Images = images
    Urgent <- MCUrgent
    Important <- MCImportant
    Threads <- MCThreads
    Caches <- MCCaches
    MaxSize = 1
    MaxCalls = 2
    MaxImportant = 2
INVARIANTS
    UpdaterTypeOK
    SleepersHaveAnImportantDownload
PROPERTIES
    ImplementsPriorityGate
    MoviesAreUpdated
    ShutdownEndsThreads
CHECK_DEADLOCK FALSE
