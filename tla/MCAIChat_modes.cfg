\* Two tabs, a message in each or two in one, and one failure.
SPECIFICATION Spec
CONSTANTS
  Modes = {"TTT", "TTS", "STT", "STS"}
  Tabs = {c1, c2}
  Bufs = {b1, b2}
  Models = {"small", "large"}
  FirstModel = "small"
  MaxCalls = 2
  MaxPieces = 1
  MaxChunks = 2
  MaxFaults = 1
SYMMETRY Symmetry
INVARIANTS
  TypeOK
  ContextIsTheTalk
  HeardIsOwn
  TextIsWhole
  AudioIsOwn
