SPECIFICATION FairSpec
CONSTANTS
  Homes = {{"light", "environment"}, {"airConditioner", "environment"}, {"curtain", "humidifier", "bathHeater"}}
  Removable = {"environment", "humidifier"}
  Delay = 1
  Override = 1
  Hold = 1
  Ambient = {240}
  Asked = {23, 31}
  Injected = {243}
  Positions = {0, 15}
  StorageFails = TRUE
  MaxTime = 1
  MaxCalls = 2
  MaxCommands = 2
  MaxFaults = 1
  MaxReadings = 1
INVARIANTS LitLightShines ChangesAreTold SceneIsTrue
PROPERTIES CurtainArrives EmptyRoomGoesDark RoomReachesTarget
CHECK_DEADLOCK FALSE
