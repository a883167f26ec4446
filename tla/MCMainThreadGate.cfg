SPECIFICATION FileSpec
CONSTANTS
    main = main
    b1 = b1
    b2 = b2
    b3 = b3
    Background <- MCBackground
    Main <- main
    MaxCalls = 2
INVARIANTS
    FileTypeOK
    BackgroundExclusion
    NoLostSignal
PROPERTIES
    BackgroundYieldsToMain
    EveryCallGetsIn
CHECK_DEADLOCK FALSE
