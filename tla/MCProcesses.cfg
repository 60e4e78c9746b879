SPECIFICATION PartsSpec
CONSTANTS
  NULL = NULL
  Types <- MCTypes
  Numbers = 2
  MaxWaiting = 1
  MaxPending = 1
  HEARTBEAT_LIVENESS = 2
  Heartbeat = 2
  Reconnect = 1
  Day = 4
  MaxOnWay = 2
  Threads = {"main", "other"}
  Objects = {"a", "b"}
  Limits = {1, 2}
  MaxStray = 1
  MaxListed = 2
  MaxContexts = 1
  MaxSlips = 2
  Datas <- MCDatas
  Filters <- MCFilters
  Intervals = {1, 2}
  MaxDatagrams = 1
  Hwm = 1
INVARIANTS TypesOK RelayedInOrder TableTrue CleanExit
PROPERTIES PausedSilent CommandsTaken RegainsBroker BeaconWorks
CHECK_DEADLOCK FALSE
