\* Crashes at any time, two auto-starts, deliberate reboots, power cuts.
\* With its power cuts, reboots and deployments used up the device may be quiet.
CHECK_DEADLOCK FALSE
SPECIFICATION FairSpec
CONSTANTS
  broken = broken
  flaky = flaky
  Workloads <- MCWorkloads
  Broken <- MCBroken
  NoWorkload = NoWorkload
  MaxUncleanStarts = 2
  ProvenTicks = 2
  MaxCuts = 1
  MaxReboots = 3
  MaxResets = 2
  MaxDeploys = 2
INVARIANTS
  TypeOK
  CrashLoopIsBounded
PROPERTIES
  SuppressedByUncleanResets
  AgentStaysUp
