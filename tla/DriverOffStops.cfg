\* streaming_off races a reconnection.
SPECIFICATION Spec
CONSTANTS
  main = main
  svc = svc
  u1 = u1
  u2 = u2
  NoThread = NoThread
  Answer = {"ok", "error"}
  Thread <- Alone
  Controller <- JustMain
  Commander <- Nobody
  Updater <- OneUpdater
  UserOp = {}
  AutoChoice = {TRUE}
  Outage = {"power", "cable", "drop"}
  BindMayFail = FALSE
PROPERTY OffStopsSensor
