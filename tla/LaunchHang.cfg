CONSTANTS
  MaxConns = 1
  Capacity = 1
  StandaloneBit = 4
  SelfCancel = FALSE
  StaleCancel = FALSE
  MaxSpawns = 1
  MaxWakers = 1
  MaxWakes = 1
  s1 = s1
  s2 = s2
  Senders <- MCSenders
  Rx = rx
  ConnTasks <- NoConnTask
  ChannelCapacity = 1
  MaxSends = 2
  LaunchSetups <- PanickingWorkers
  MaxRegions = 1
  MaxWorkers = 4
SPECIFICATION MCFairSpec
PROPERTIES LaunchReturns
CHECK_DEADLOCK FALSE
