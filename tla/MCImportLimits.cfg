SPECIFICATION Spec
CONSTANTS
    main = main
    inc = inc
    Files <- TwoFiles
    Targets <- OneTarget
    Rows <- TwoRows
    Identified <- Second
    Reviews <- NoReviews
    Faults = {"reread", "late"}
    MaxCommits = 2
    MaxOthers = 1
    MaxCrashes = 0
CHECK_DEADLOCK FALSE
\* None of these holds: to see the counterexample of one, leave the others out.
INVARIANTS
    RetryIsPossible
    IdentifiedNeverTwice
    RecordedRowsAreThere
