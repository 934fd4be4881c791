CONSTANTS
  MaxConns = 1
  Capacity = 1
  StandaloneBit = 4
  SelfCancel = FALSE
  StaleCancel = FALSE
  MaxSpawns = 2
  MaxWakers = 1
  MaxWakes = 2
  s1 = s1
  s2 = s2
  Senders <- MCSenders
  Rx = rx
  ConnTasks <- OneConnTask
  ChannelCapacity = 2
  MaxSends = 3
  LaunchSetups <- MCLaunchSetups
  MaxRegions = 2
  MaxWorkers = 2
SPECIFICATION MCFairSpec
INVARIANTS NoLostWake SlabExact NothingLostOrReordered ReceiverNotForgotten RuntimeSound
PROPERTIES TasksRun RuntimeEnds ImplementsChannel
CHECK_DEADLOCK FALSE
