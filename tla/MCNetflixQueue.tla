--------------------------- MODULE MCNetflixQueue ---------------------------
EXTENDS NetflixQueue

CONSTANTS jaws, alien, brazil, view

MCMovies == {jaws, alien, brazil}
TwoMovies == <<jaws, alien>>
OneView == {view}
Sessions == {"reorder", "delete"}
Every == {"top", "add"} \cup Sessions
=============================================================================
