SPECIFICATION FairSpec
CONSTANTS
  c1 = c1
  c2 = c2
  c3 = c3
  c4 = c4
  c5 = c5
  NoCue = NoCue
  Cue = {c1, c2, c3, c4, c5}
  List = {1, 2}
  Home <- ControlHome
  InitialOrder <- ControlOrder
  Kind <- ControlKind
  Targets <- ControlTargetIds
  PostWait <- ControlPostWait
  Fragile = {c3}
  InitialModes = {"autoContinue"}
  Commands = {"go", "goCue", "pause", "resume", "stopCue"}
  MaxCommands = 3
INVARIANTS TypeOK TokensAreUnique
PROPERTIES ContinuationsResolve
