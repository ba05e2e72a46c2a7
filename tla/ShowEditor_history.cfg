SPECIFICATION Spec
CONSTANTS
  l1 = l1
  l2 = l2
  List = {l1, l2}
  Project <- Shows
  FileGroups = {1, 2}
  FileCues = 3
  MaxCues = 3
  MaxUndo = 2
  MaxSelected = 1
  MaxBusy = 1
  MaxEdits = 3
  Operations = {"remove", "lists", "open"}
INVARIANTS HistoryIsBounded
PROPERTIES HistoryIsATimeline
