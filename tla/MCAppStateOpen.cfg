SPECIFICATION FairSpec
CONSTANTS
    Journals = {ja, jb}
    Home = ja
    Files = {main}
    Main = main
    Marks = {m1}
    Inodes = {i1, i2}
    Threads = {t1, t2}
    NoThread = NoThread
    Requests = {"edit", "reload", "conf", "open"}
    MaxRequests = 3
    MaxExternal = 2
    MaxPanics = 1
CHECK_DEADLOCK FALSE
PROPERTIES ImplementsService RequestsEnd
