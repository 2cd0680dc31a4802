SPECIFICATION Spec
CONSTANTS
  Homes = {{"light", "environment"}}
  Removable = {}
  Delay = 1
  Override = 1
  Hold = 0
  Ambient = {240}
  Asked = {}
  Injected = {240}
  Positions = {}
  StorageFails = FALSE
  MaxTime = 2
  MaxCalls = 4
  MaxCommands = 1
  MaxFaults = 0
  MaxReadings = 3
PROPERTIES OutAfterAbsence
CHECK_DEADLOCK FALSE
