CHECK_DEADLOCK FALSE
SPECIFICATION SiblingSpec
CONSTANTS
  Requests = {r1, r2}
  r1 = r1
  r2 = r2
  Main = main
  Part = part
  Table = table
  Rules = rules
  main = main
  part = part
  table = table
  rules = rules
  Lines = {1, 2}
  Values = {0, 1}
  Blank = 0
  Absent = absent
  absent = absent
  Nobody = nobody
  nobody = nobody
  Mixes <- Pairs
  MaxSaves = 2
  MaxOthers = 1
INVARIANTS IncludeHasItsFile EditorKnowsItsDisk
PROPERTIES ChangesWhatWasShown WritersEnd
