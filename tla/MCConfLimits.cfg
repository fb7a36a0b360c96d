SPECIFICATION ConfSpec
CONSTANTS
  Screens = {s1, s2}
  Journals = {a, b}
  Home = home
  Rests = {0, 1}
  NewRest = 1
  Empty = 0
  None = None
  Others = {a, home}
  MaxPuts = 1
  MaxConfOthers = 1
\* None of these holds: to see the counterexample of one, leave the others out.
PROPERTIES
    AutoCatchesUp
    NothingIsOverwritten
