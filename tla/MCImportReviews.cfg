SPECIFICATION FairSpec
CONSTANTS
    main = main
    inc = inc
    Files <- TwoFiles
    Targets <- OneTarget
    Rows <- TwoRows
    Identified <- Second
    Reviews <- OneFileReviews
    Faults = {"write", "reread"}
    MaxCommits = 2
    MaxOthers = 1
    MaxCrashes = 0
CHECK_DEADLOCK FALSE
INVARIANTS AllOrNothing
PROPERTIES CommitsEnd
