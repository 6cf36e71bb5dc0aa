\* Every kind of image, two mishaps of each sort.
SPECIFICATION Spec
CONSTANTS
  a0 = a0
  a1 = a1
  bad = bad
  w0 = w0
  w1 = w1
  junk = junk
  Images <- MCImages
  Kind <- MCKind
  Workloads <- MCWorkloads
  Runs <- MCRuns
  NoWorkload = NoWorkload
  FactoryAgent = a0
  InitImage = InitImage
  NoImage = NoImage
  Torn = Torn
  NoSlot = NoSlot
  MaxFaults = 2
  MaxPowerCuts = 2
INVARIANTS
  TypeOK
  StagedIsIntact
  NeverBricked
  InitNeverInProduction
  ReadyIsProvisioned
  OnlyConfirmedStays
  AgentRunsItsWorkload
PROPERTIES
  TrustedOnlyWhenFit
  ActiveIsConfirmed
  PromotionIsKept
  UpdatesAreAtomic
  EveryStepSettles
