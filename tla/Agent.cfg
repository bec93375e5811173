\* The daemon's life.
SPECIFICATION Spec
CONSTANTS
  Threads <- AllThreads
  Period <- Periods
  Wrap = 2
  Watched = {"docker"}
  GroupOf <- OneUnit
  Kdump = "kdump"
  KernelFault = 4
  MaxCrashes = 1
INVARIANTS
  TypeOK
  NoUseAfterFree
  PeriodKept
PROPERTIES
  AgentStops
  StatusFollowsUnit
  CrashesReported
