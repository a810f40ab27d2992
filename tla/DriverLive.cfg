\* Liveness: the data comes back, streaming_on and streaming_off return.
SPECIFICATION FairSpec
CONSTANTS
  main = main
  svc = svc
  u1 = u1
  u2 = u2
  NoThread = NoThread
  Answer = {"ok", "error"}
  Thread <- NoUpdaterTwin
  Controller <- JustMain
  Commander <- JustSvc
  Updater <- OneUpdater
  UserOp = {"get"}
  AutoChoice = {TRUE}
  Outage = {"power"}
  BindMayFail = TRUE
INVARIANT LocksHeld
PROPERTIES Reconnects ControlReturns
