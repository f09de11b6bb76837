SPECIFICATION Spec
CHECK_DEADLOCK FALSE
CONSTANTS
  Kinds <- MCKinds
  Ports <- MCPorts
  Limit = 2
  MaxFrames = 3
  MaxNodes = 2
  MaxTotal = 3
  MaxUnread = 1
INVARIANTS
  TypeOK
  ShownIsOneFrame
  HistoriesAligned
  SelectedIsListed
  FedWhatIsShown
PROPERTIES
  NothingStaysUnread
