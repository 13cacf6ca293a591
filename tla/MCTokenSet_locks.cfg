SPECIFICATION FairSpec
CONSTANTS
  Clients = {c1, c2, c3}
  Keys = {k1}
  Values = {v1, v2, v3, v4}
  NoValue = NoValue
  MaxBacklog = 4
PROPERTIES ImplementsKeyLock CallEventuallyReturns
