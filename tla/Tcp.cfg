SPECIFICATION TcpSpec
CONSTANTS
  MaxConnections = 2
  Clients = {"client", "current"}
  MaxBytes = 3
  Window = 3
  SendBuffer = 2
  SizeMod = 4
  WriteSizes = {1, 3}
  Sizes = {1, 2}
INVARIANTS RefsAreHandles PcbsHaveContexts ReceivedInOrder ConnectIsDecided AckedWriteReturns
CHECK_DEADLOCK FALSE
PROPERTY TaskGoesOn
