\* The Dual-OTA guard: the devices of MCDevice with one failed read.
SPECIFICATION Spec
CONSTANTS
  a0 = a0
  a1 = a1
  bad = bad
  w0 = w0
  w1 = w1
  junk = junk
  Images <- MCImages
  Kind <- MCKind
  Workloads <- MCWorkloads
  Runs <- MCRuns
  NoWorkload = NoWorkload
  FactoryAgent = a0
  InitImage = InitImage
  NoImage = NoImage
  Torn = Torn
  NoSlot = NoSlot
  MaxFaults = 1
  MaxPowerCuts = 0
PROPERTIES
  NewAgentRunsWorkload
