SPECIFICATION FairSpec
CONSTANTS
  c1 = c1
  c2 = c2
  c3 = c3
  c4 = c4
  c5 = c5
  NoCue = NoCue
  Cue = {c1, c2, c3, c4, c5}
  List = {1, 2}
  Home <- ActionHome
  InitialOrder <- ActionOrder
  Kind <- ActionKind
  Targets <- ActionTargets
  PostWait <- ActionPostWait
  Fragile = {c3}
  InitialModes = {"autoContinue", "autoFollow"}
  Commands = {"go", "goCue", "setMode", "toggleDisabled"}
  MaxCommands = 2
INVARIANTS OneHandOverPerRun
PROPERTIES MutexIsReleased NoHandOverAfterStop ImplementsLedger
