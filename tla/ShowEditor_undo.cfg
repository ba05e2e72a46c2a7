SPECIFICATION Spec
CONSTANTS
  l1 = l1
  l2 = l2
  List = {l1, l2}
  Project <- Shows
  FileGroups = {1, 2}
  FileCues = 3
  MaxCues = 5
  MaxUndo = 1
  MaxSelected = 2
  MaxBusy = 1
  MaxEdits = 2
  Operations = {"add", "lists"}
INVARIANTS UuidsAreUnique
