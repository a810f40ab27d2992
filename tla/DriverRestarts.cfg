\* Two update threads alive at once, ports that may fail to bind.
SPECIFICATION Spec
CONSTANTS
  main = main
  svc = svc
  u1 = u1
  u2 = u2
  NoThread = NoThread
  Answer = {"ok", "error"}
  Thread <- NoCommands
  Controller <- JustMain
  Commander <- Nobody
  Updater <- TwoUpdaters
  UserOp = {}
  AutoChoice = {TRUE, FALSE}
  Outage = {"drop"}
  BindMayFail = TRUE
SYMMETRY Symmetry
INVARIANTS TypeOK StreamCounted StreamingIsServed
PROPERTIES OffMeansOff StartedMeansStreaming
