SPECIFICATION ScriptsSpec
CONSTANTS
  Clients = {c1, c2}
  Names = {"s", "bad"}
  ValidNames = {"s"}
  Chunks = {"a", "b", "big", "c", "nul"}
  SizeOf <- MCSizeOf
  NulChunks = {"nul"}
  Bodies <- MCBodies
  MaxBody = 2
  MaxCuts = 1
  Absent = Absent
  Unknown = Unknown
  NoBody = NoBody
INVARIANTS
  ScriptsTypeOK
  ServedAsPosted
