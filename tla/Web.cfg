SPECIFICATION WebSpec
CONSTANTS
  Requests <- MCRequests
  Routes <- MCRoutes
  Parse <- ParseRequest
  BufferLength = 2
  Lengths = {1, 3, 5}
  UnitSize = 2
  SendBuffer = 3
  SizeMod = 8
INVARIANTS HandlerSeesRequest ResponseSentOnce
PROPERTY RequestEnds
