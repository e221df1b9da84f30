CONSTANTS
  IPs = {a, b}
  NoIP = NoIP
  Names = {n1}
  DefaultName = K10
  Commands = {"CMD_REGISTER", "CMD_UNREGISTER", "CMD_HEARTBEAT", "CMD_PING", "CMD_GET_NAME", "CMD_SET_NAME", "CMD_REBOOT", "UNKNOWN"}
  Transports = {"udp", "ws", "http"}
  SendsMalformed = TRUE
  HeartbeatTimeout = 0
  ClockModulus = 16
  MaxTime = 1
  WatchdogWired = FALSE
SPECIFICATION Spec
INVARIANT MasterKnowsToken
PROPERTY MasterHandover
PROPERTY RegistryPromise
