SPECIFICATION Spec
CONSTANTS
  MaxWindow = 8
  MaxFrame = 2
  MaxBuffer = 4
  DefaultWindow = 2
  Plans <- LifePlans
  ClientCfg <- RoomyClientCfg
  ServerCfg <- RoomyServerCfg
  ClientSettings <- MCClientSettings
  ServerSettings <- MCServerSettings
  Windows <- MCWindows
  Careful = TRUE
INVARIANTS  NoLeak SlotsExact QuietAgree RetrySafe 
CHECK_DEADLOCK FALSE
