CONSTANTS
  recv_segment_reserve = 0
  recv_accumulator_max = 4
  RecvSetups <- MCRecvSetups
  HANDOFF_MARGIN = 2
  PARK_MARGIN = 1
  PARK_FLOOR = 0
  PARK_DRAIN_TICKS = 2
  ParkSetups <- MCParkSetups
  DISK_SEQ = 2
  DiskSetups <- MCDiskSetups
  OffloadSetups <- MCOffloadSetups
  MaxTime = 3
  TimerSetups <- MCTimerSetups
  UdpSetups <- MCUdpSetups
  SignalSetups <- MCSignalSetups
  h1 = h1
  h2 = h2
  id1 = id1
  NoId = NoId
  Count = 3
  SlotSize = 2
  Holders <- MCHolders
  Ids <- MCIds
SPECIFICATION MCSpec
INVARIANTS
  BuffersAccounted
  StreamIntact
  ReceiveServed
  MovesServed
  ResultsDelivered
  OffloadServed
  SleepsOnTime
  UdpExact
  SignalsReachTasks
  ReservationsBacked
PROPERTIES
  ProgressConserved
CHECK_DEADLOCK FALSE
