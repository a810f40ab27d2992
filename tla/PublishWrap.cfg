SPECIFICATION PromptSpec
CONSTANTS
  Statuses <- OkOnly
  Outages = {}
  CounterSize = 4
  SocketSize = 1
  QueueSize = 2
  Patience = 1
  Silence = 2
  Delay = 0
  BootTime = 3
  MaxTime = 10
  MaxRestarts = 0
PROPERTY StampsIncrease
CHECK_DEADLOCK FALSE
