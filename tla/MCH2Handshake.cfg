CONSTANTS
  PREFACE <- MCPreface
  SETTINGS <- MCSettings
  Others <- MCOthers
  Capacity = 3
SPECIFICATION Spec
INVARIANTS PrefaceTakenExactly
PROPERTIES HandshakeEnds
CHECK_DEADLOCK FALSE
