SPECIFICATION DashboardFairSpec
CONSTANTS
  Actions = {"A1", "F0"}
  Known = {"A1"}
  Samples <- MCSamples
  MaxArrivals = 2
INVARIANTS
  CountedUnlessRaced
  ShownWasCounted
  CountersReadable
PROPERTIES
  DashboardCatchesUp
