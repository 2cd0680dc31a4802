SPECIFICATION Spec
CONSTANTS
  Clients = {c1, c2}
  Declarations <- MCDeclarations
  ForeignProofs <- MCForeignProofs
  BuiltIn = {"door"}
  NewRooms <- MCNewRooms
  Places = {"living", "entry"}
  PageSize = 1
  Touched = {"s1"}
  MaxLabels = 2
  MaxLog = 3
  MaxVersion = 2
  MaxRestarts = 1
  MaxFailures = 1
SYMMETRY Symmetry
INVARIANTS DevicesAreCertified RoomsDiffer LogExplainsRegistry RegisteredIsTold PagesAreComplete
PROPERTIES KeptAsRegistered
CHECK_DEADLOCK FALSE
