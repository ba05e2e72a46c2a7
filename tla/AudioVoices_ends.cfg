SPECIFICATION FairSpec
CONSTANTS
  a = a
  b = b
  v1 = v1
  v2 = v2
  NoVoice = NoVoice
  CueOrder <- OneCue
  Voice <- AllVoices
  AuxCue = {}
  StreamCue = {a}
  FadeCue = {a}
  LoopCue = {}
  RingCapacity = 2
  MaxCommands = 3
  MaxFaults = 1
CHECK_DEADLOCK FALSE
PROPERTIES EveryPlayEnds VoicesAreCollected
