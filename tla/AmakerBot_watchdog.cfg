CONSTANTS
  IPs = {a}
  NoIP = NoIP
  Names = {n1}
  DefaultName = K10
  Commands = {"CMD_REGISTER", "CMD_UNREGISTER", "CMD_HEARTBEAT", "MOTORS"}
  Transports = {"udp", "ws"}
  SendsMalformed = FALSE
  HeartbeatTimeout = 0
  ClockModulus = 16
  MaxTime = 2
  WatchdogWired = TRUE
SPECIFICATION FairSpec
INVARIANT AlarmMeansSilence
PROPERTY SilenceStopsOutputs
