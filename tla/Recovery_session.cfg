SPECIFICATION FairSpec
CONSTANTS
  Show = {s1, s2}
  Untitled = Untitled
  NoSnapshot = NoSnapshot
  Operations = {"replace", "close", "restoreFails", "writeFails"}
  MaxEdits = 3
INVARIANTS TypeOK AutosaveIsCurrent
PROPERTIES UnsavedWorkReachesDisk PromptedSnapshotStays SnapshotMovesForward
