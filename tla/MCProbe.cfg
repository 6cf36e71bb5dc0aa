\* Probes whose period is shorter than the two seconds stop waits.
SPECIFICATION Spec
CONSTANTS
  plain = plain
  failing = failing
  freezing = freezing
  ailing = ailing
  resetting = resetting
  quitting = quitting
  slow = slow
  stuck = stuck
  Artifacts <- MCPrompt
  Fault <- MCFault
  Period <- MCPeriod
  StopWait = 2
  ClockWrap = 16
  NoArtifact = NoArtifact
INVARIANTS
  TypeOK
  RunningIsTrue
  NoZombieTask
