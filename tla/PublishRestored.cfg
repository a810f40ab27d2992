SPECIFICATION PromptSpec
CONSTANTS
  Statuses <- OkOnly
  Outages = {"cut"}
  CounterSize = 16
  SocketSize = 1
  QueueSize = 2
  Patience = 1
  Silence = 2
  Delay = 0
  BootTime = 3
  MaxTime = 10
  MaxRestarts = 0
PROPERTY RestoredMeansData
CHECK_DEADLOCK FALSE
