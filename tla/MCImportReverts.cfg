SPECIFICATION Spec
CONSTANTS
    main = main
    inc = inc
    Files <- TwoFiles
    Targets <- OneTarget
    Rows <- TwoRows
    Identified <- Second
    Reviews <- TwoFileReviews
    Faults = {}
    MaxCommits = 1
    MaxOthers = 1
    MaxCrashes = 0
CHECK_DEADLOCK FALSE
\* None of these holds: to see the counterexample of one, leave the others out.
INVARIANTS
    AllOrNothing
    OthersEditsSurvive
    WarnedEntriesAreThere
