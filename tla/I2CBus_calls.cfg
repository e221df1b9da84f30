SPECIFICATION FairSpec
CONSTANTS
  Tasks = {udp, tcp}
  NoTask = NoTask
  Calls <- MCCalls
  RETRY_COUNT = 2
INVARIANTS
  FrameIntact
  ReadsOwnRegister
  FreshMeasurement
PROPERTIES
  BusPromise
  CallsRunDown
  EveryCallEnds
