SPECIFICATION Spec
CONSTANTS
  MaxWindow = 8
  MaxFrame = 2
  MaxBuffer = 4
  DefaultWindow = 2
  Plans <- FlowPlans
  ClientCfg <- RoomyClientCfg
  ServerCfg <- RoomyServerCfg
  ClientSettings <- MCClientSettings
  ServerSettings <- MCServerSettings
  Windows <- MCWindows
  Careful = TRUE
INVARIANTS CapacityConserved  
CHECK_DEADLOCK FALSE
