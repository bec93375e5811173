\* With every message that may be written.
SPECIFICATION Spec
CONSTANTS
  Threads <- AllThreads
  Period <- Periods
  Wrap = 2
  Watched = {"docker"}
  GroupOf <- OneUnit
  Kdump = "kdump"
  KernelFault = 4
  MaxCrashes = 0
PROPERTY ServiceStops
