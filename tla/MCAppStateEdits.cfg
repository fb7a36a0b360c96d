SPECIFICATION Spec
CONSTANTS
    Journals = {ja}
    Home = ja
    Files = {main, inc}
    Main = main
    Marks = {m1}
    Inodes = {i1, i2}
    Threads = {t1, t2}
    NoThread = NoThread
    Requests = {"edit", "reload", "conf"}
    MaxRequests = 4
    MaxExternal = 2
    MaxPanics = 0
SYMMETRY ThreadSymmetry
CHECK_DEADLOCK FALSE
INVARIANTS ServedWasOnDisk ServedIsTheEditors QuietEditorIsClean
PROPERTIES WritesOnlyTheRequest
