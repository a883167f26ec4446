--------------------------- MODULE MCSearchEngine ---------------------------
EXTENDS SearchEngine

CONSTANTS jaws, alien

MCValues == {jaws, alien}
=============================================================================
