SPECIFICATION LifecycleSpec
CONSTANTS
  Statuses <- OkOrOverrange
  Outages = {"cut", "power"}
  CounterSize = 3
  SocketSize = 1
  QueueSize = 2
  Patience = 1
  Silence = 1
  Delay = 1
  BootTime = 3
  MaxTime = 6
  MaxRestarts = 1
INVARIANTS
  LifecycleTypeOK
  StampsExact
  GapIsExact
  OldSamplesDropped
  QuietUnlessActive
  ConfiguredMeansStreaming
  LatchTellsTruth
  LevelsAgree
  BaseOfThisRun
CHECK_DEADLOCK FALSE
