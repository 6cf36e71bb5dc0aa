\* A probe with a period longer than stop waits.
SPECIFICATION Spec
CONSTANTS
  plain = plain
  failing = failing
  freezing = freezing
  ailing = ailing
  resetting = resetting
  quitting = quitting
  slow = slow
  stuck = stuck
  Artifacts <- MCAll
  Fault <- MCFault
  Period <- MCPeriod
  StopWait = 2
  ClockWrap = 16
  NoArtifact = NoArtifact
INVARIANTS
  NoZombieTask
