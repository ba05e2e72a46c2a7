SPECIFICATION Spec
CONSTANTS
  a = a
  b = b
  v1 = v1
  v2 = v2
  NoVoice = NoVoice
  CueOrder <- TwoCues
  Voice <- AllVoices
  AuxCue = {b}
  StreamCue = {a}
  FadeCue = {a}
  LoopCue = {b}
  RingCapacity = 2
  MaxCommands = 3
  MaxFaults = 1
CHECK_DEADLOCK FALSE
SYMMETRY VoiceSymmetry
INVARIANTS StraysAreAccounted PausedIsSilent
