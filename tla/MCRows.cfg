CONSTANTS
  Worker <- TwoWorkers
  NoHost = NoHost
  SendFails = FALSE
  MaxLag = 2
  MaxHand = 1
  MaxMarkers = 4
  MaxUnread = 2
  MaxAttempts = 2
  EventsLost = TRUE
  MaxFaults = 1

SPECIFICATION Spec
CHECK_DEADLOCK FALSE

INVARIANTS
  RecordsKept

PROPERTIES
  LosesColourForCause
  InEmissionOrder
  SucceededIsShown
