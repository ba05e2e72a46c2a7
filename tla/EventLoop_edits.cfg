SPECIFICATION Spec
CONSTANTS
  c1 = c1
  c2 = c2
  c3 = c3
  c4 = c4
  c5 = c5
  NoCue = NoCue
  Cue = {c1, c2, c3}
  List = {1}
  Home <- EditHome
  InitialOrder <- EditOrder
  Kind <- EditKind
  Targets <- EditTargets
  PostWait <- EditPostWait
  Fragile = {}
  InitialModes = {"autoContinue", "autoFollow"}
  Commands = {"go", "setPlayhead", "toggleDisabled", "move", "remove"}
  MaxCommands = 4
INVARIANTS FollowerKeepsPlan
