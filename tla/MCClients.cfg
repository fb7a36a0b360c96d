SPECIFICATION ClientSpec
CONSTANTS
    Clientele = {"phone", "page"}
    Root = root
    Included = included
    Refreshers = {r1, r2}
    Clients = {c}
    Good = {t1, t2}
    Broken = {bad}
    Unbound = unbound
    NoOne = noone
    Unread = unread
    MaxEvents = 2
    HostSets = {{r1}, {r1, r2}}
    Filters = {f, g}
    Totals = {2, 4}
    Scrolls = {0, 3}
    MAX_BLOCKS = 3
    Null = Null
    Orders = {TRUE}
    Fallible = {"info", "summary", "block"}
    MaxEdits = 1
    MaxMoves = 1
CHECK_DEADLOCK FALSE
PROPERTIES EditingReturns LoneRefreshCatchesUp OrderlyPageCatchesUp
