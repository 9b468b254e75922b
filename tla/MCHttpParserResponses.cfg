\* A client's parser, streaming or not, reused for a second connection.
CONSTANTS
  HdrLen = 2
  SizeMod = 40
  Traffic <- ResponseTraffic
  OpenFlags <- ResponseFlags
  Bases = {0, 7}
  MaxOpens = 2
SPECIFICATION Spec
INVARIANTS TypeOK BufferBounds NoOverrun ContentInBuffer
PROPERTIES ImplementsDelivery
CHECK_DEADLOCK FALSE
