CONSTANTS
  Motors = {1, 2}
  HighBits = {5}
  Speeds <- MCSpeeds
  Tasks = {"udp", "tcp"}
  Lossy = TRUE
SPECIFICATION Spec
INVARIANT NoShootThrough
INVARIANT CacheMatches
