CONSTANTS
  Servos = {0}
  HighBits = {7}
  Angles <- MCAngles
  Speeds <- MCSpeeds
  Tasks = {udp, tcp}
  Lossy = TRUE
SYMMETRY TaskSymmetry
SPECIFICATION Spec
INVARIANT TypeOK
INVARIANT KnownPosition
PROPERTY IncrementIsRelative
