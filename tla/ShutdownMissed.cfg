CONSTANTS
  MaxConns = 1
  Capacity = 1
  StandaloneBit = 4
  SelfCancel = FALSE
  StaleCancel = FALSE
  MaxSpawns = 1
  MaxWakers = 1
  MaxWakes = 1
  s1 = s1
  s2 = s2
  Senders <- MCSenders
  Rx = rx
  ConnTasks <- NoConnTask
  ChannelCapacity = 1
  MaxSends = 2
  LaunchSetups <- NoTickTimeout
  MaxRegions = 1
  MaxWorkers = 1
SPECIFICATION MCFairSpec
PROPERTIES ThreadsEnd
CHECK_DEADLOCK FALSE
