SPECIFICATION Spec
CONSTANTS
    jaws = jaws
    alien = alien
    Values <- MCValues
    Empty = Empty
    NoRequest = NoRequest
    Parts = 2
    MaxRequests = 5
INVARIANTS
    TypeOK
    SearchingForText
    ResultsInOrder
PROPERTY
    ImplementsSearchBox
CHECK_DEADLOCK FALSE
