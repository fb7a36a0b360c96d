SPECIFICATION Spec
CONSTANTS
    Journals = {ja}
    Home = ja
    Files = {main, inc}
    Main = main
    Marks = {m1}
    Inodes = {i1, i2}
    Threads = {t1, t2}
    NoThread = NoThread
    Requests = {"edit", "conf"}
    MaxRequests = 2
    MaxExternal = 1
    MaxPanics = 1
SYMMETRY ThreadSymmetry
CHECK_DEADLOCK FALSE
\* None of these holds: to see the counterexample of one, leave the others out.
INVARIANTS
    ServedWasOnDisk
    RefusedBatchWroteNothing
