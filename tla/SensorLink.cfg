SPECIFICATION Spec
CONSTANTS
  a = a
  b = b
  c1 = c1
  c2 = c2
  Client <- MCClient
  Conn <- MCConn
  Rate <- MCRate
  OtherRequest <- MCOtherRequest
  Stray <- MCStray
  SourceHost = TRUE
  MaxAir = 1
  QueueSize = 1
SYMMETRY Symmetry
INVARIANTS TypeOK AckedRateIsStreamed DeliveredDecodes
PROPERTIES AnswerMatchesRequest GetIsCurrent
