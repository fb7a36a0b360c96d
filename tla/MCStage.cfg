SPECIFICATION Spec
CONSTANTS
  Stages = {s1, s2}
  Requests = {r1, r2}
  Names = {n1}
  Folders = {f1, f2}
  Skips = {0, 2}
  MaxLive = 1
  MaxRequests = 3
  MaxImports = 1
  Kinds = {"dry", "preview"}
  Overlap = FALSE
INVARIANTS RunsReadTheirOwn PreviewsCleanUp
CHECK_DEADLOCK FALSE
