\* One failed read of the identity object, nothing else.
SPECIFICATION Spec
CONSTANTS
  k1 = k1
  k2 = k2
  v = v
  Keys <- MCKeys
  ValidKeys <- MCKeys
  Values <- MCValues
  TooLong = TooLong
  NoValue = NoValue
  Encodable <- MCEncodable
  Ports <- MCPorts
  MaxGeneration = 1
  MaxFaults = 1
  MaxResets = 0
  MaxDrops = 0
INVARIANTS
  ReportsOwnNode
