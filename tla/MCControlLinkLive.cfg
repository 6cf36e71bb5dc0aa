\* Does the agent report with a new token: two NVS failures, a reset.
SPECIFICATION FairSpec
CONSTANTS
  t0 = t0
  t1 = t1
  t2 = t2
  short = short
  Tokens <- MCTwoTokens
  ValidTokens <- MCTwoValidTokens
  NoToken = NoToken
  MaxFaults = 2
  MaxResets = 1
PROPERTIES
  NewTokenIsUsed
