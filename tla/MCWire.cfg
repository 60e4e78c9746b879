SPECIFICATION MCSpec
CONSTANTS
  one = one
  two = two
  Slot = {one, two}
  Content <- MCContent
  MaxFrames = 3
  MaxBytes = 10
  Base = 6
  PointerSize = 2
  MAX_ALLOC_SIZE = 5
  Signature = 33
  Identity <- MCIdentity
  Args <- MCArgs
  BArgs <- MCBArgs
  Gossips <- MCGossips
  Strings <- MCStrings
  Statuses = {7}
  Leftovers = {0, 1}
  CacheSize = 6
  MaxSent = 2
  Ports <- MCPorts
  Endpoints <- MCEndpoints
  MaxEndpoints = 2
INVARIANTS TypesOK ContentSizeExact CodecTotal ReceivedAsSent AttachedAsAsked
SYMMETRY Alike
CHECK_DEADLOCK FALSE
