SPECIFICATION ClientSpec
CONSTANTS
    Clientele = {"phone", "page"}
    Root = root
    Included = included
    Refreshers = {r1, r2}
    Clients = {c}
    Good = {t1, t2}
    Broken = {bad}
    Unbound = unbound
    NoOne = noone
    Unread = unread
    MaxEvents = 2
    HostSets = {{r1}, {r1, r2}}
    Filters = {f, g}
    Totals = {1, 2}
    Scrolls = {0}
    MAX_BLOCKS = 3
    Null = Null
    Orders = {FALSE}
    Fallible = {"info", "summary", "block"}
    MaxEdits = 1
    MaxMoves = 0
CHECK_DEADLOCK FALSE
\* Neither of these holds: to see the counterexample of one, leave the other out.
\* PageCatchesUp fails for an answer that is overtaken, as here, and, with
\* Orders = {TRUE} and MaxMoves = 1, for a summary or a block whose request failed.
PROPERTIES
    RefreshCatchesUp
    PageCatchesUp
