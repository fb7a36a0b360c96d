SPECIFICATION Spec
CONSTANTS
  Stages = {s1}
  Requests = {r1, r2}
  Names = {n1}
  Folders = {f1}
  Skips = {0}
  MaxLive = 1
  MaxRequests = 2
  MaxImports = 1
  Kinds = {"dry"}
  Overlap = TRUE
INVARIANTS RunsReadTheirOwn
CHECK_DEADLOCK FALSE
