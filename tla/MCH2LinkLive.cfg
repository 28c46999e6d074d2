SPECIFICATION LiveSpec
CONSTANTS
  MaxWindow = 8
  MaxFrame = 2
  MaxBuffer = 4
  DefaultWindow = 2
  Plans <- LivePlans
  ClientCfg <- RoomyClientCfg
  ServerCfg <- RoomyServerCfg
  ClientSettings <- MCClientSettings
  ServerSettings <- MCServerSettings
  Windows <- MCWindows
  Careful = TRUE
PROPERTIES BodyArrives RequestResolves
CHECK_DEADLOCK FALSE
