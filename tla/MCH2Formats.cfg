SPECIFICATION FormatsSpec
CONSTANTS
  Sendable <- MCSendable
  Paddings = {0, 1, 3}
  RawHeads <- MCRawHeads
  RawBodies <- MCRawBodies
  Pushes <- MCPushes
  MaxFrames = 2
INVARIANTS FramesRoundTrip BlocksDecode 
CHECK_DEADLOCK FALSE
