SPECIFICATION Spec
CONSTANTS
    main = main
    inc = inc
    Files <- TwoFiles
    Targets <- OneTarget
    Rows <- TwoRows
    Identified <- Second
    Reviews <- NoReviews
    Faults = {"write", "reread"}
    MaxCommits = 2
    MaxOthers = 2
    MaxCrashes = 1
CHECK_DEADLOCK FALSE
INVARIANTS NoDuplicates IdentifiedOnce RecordedRowsAreThere OthersEditsSurvive
