SPECIFICATION Spec
CONSTANTS
  K10 = {2}
  DFR = {3, 4}
  Colors = {0, 1}
  Levels = {0, 1}
  Paints <- MCPaints
  Masks <- MCMasks
  Asked = {0, 2}
  Tasks = {udp, tcp}
  Lossy = TRUE
INVARIANTS
  ShownAsCached
  ShownAsBoardCached
SYMMETRY MCSymmetry
