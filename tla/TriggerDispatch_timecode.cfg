CONSTANTS
  c1 = c1
  c2 = c2
  c3 = c3
  l1 = l1
  l2 = l2
  n1 = n1
  Cue = {c1, c2, c3}
  List = {l1, l2}
  Note = {n1}
  Home <- TwoLists
  Bound <- OneNote
  Base = 2
  Pieces = 3
  MaxFrame = 2
  MaxActs = 3
  MaxChan = 2
SPECIFICATION Spec
CHECK_DEADLOCK FALSE
INVARIANTS
  NothingMissed
  RewindRearms
  WholeFramesAreRight
PROPERTIES
  OncePerPass
