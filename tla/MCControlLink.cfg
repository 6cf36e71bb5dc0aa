\* Rotations among three tokens, two NVS failures, a reset.
SPECIFICATION Spec
CONSTANTS
  t0 = t0
  t1 = t1
  t2 = t2
  short = short
  Tokens <- MCTokens
  ValidTokens <- MCValidTokens
  NoToken = NoToken
  MaxFaults = 2
  MaxResets = 1
INVARIANTS
  TypeOK
  CoreNeverLockedOut
  OneStaleReport
PROPERTIES
  RotationKeepsIdentity
  RotationIsAuthorized
