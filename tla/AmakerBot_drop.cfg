CONSTANTS
  IPs = {a}
  NoIP = NoIP
  Names = {n1}
  DefaultName = K10
  Commands = {"CMD_REGISTER", "CMD_HEARTBEAT", "MOTORS"}
  Transports = {"udp"}
  SendsMalformed = TRUE
  HeartbeatTimeout = 1
  ClockModulus = 16
  MaxTime = 3
  WatchdogWired = FALSE
SPECIFICATION FairSpec
PROPERTY DropStopsOutputs
