SPECIFICATION Spec
CONSTANTS
    Journals = {ja, jb}
    Home = ja
    Files = {main}
    Main = main
    Marks = {m1}
    Inodes = {i1, i2}
    Threads = {t1, t2}
    NoThread = NoThread
    Requests = {"edit", "open"}
    MaxRequests = 2
    MaxExternal = 0
    MaxPanics = 0
SYMMETRY ThreadSymmetry
CHECK_DEADLOCK FALSE
\* None of these holds: to see the counterexample of one, leave the others out.
INVARIANTS
    QuietServesTheEditors
    ServedPairsWithStorage
