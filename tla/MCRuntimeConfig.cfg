\* Pushes repeated over failed NVS operations, lost answers, link losses and resets.
SPECIFICATION FairSpec
CONSTANTS
  k1 = k1
  k2 = k2
  v = v
  Keys <- MCKeys
  ValidKeys <- MCKeys
  Values <- MCValues
  TooLong = TooLong
  NoValue = NoValue
  Encodable <- MCEncodable
  Ports <- MCPorts
  MaxGeneration = 2
  MaxFaults = 2
  MaxResets = 1
  MaxDrops = 1
INVARIANTS
  ConfigTypeOK
  ReportConfirmsPush
  GenerationNamesContent
PROPERTIES
  PushesAreAtomic
  PushSettles
  SavedIsEffective
  ReportsGoBackToBoot
