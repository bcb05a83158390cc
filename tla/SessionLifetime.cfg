CONSTANTS
  TTL = 4
  MaxLosses = 3
  MaxIdle = 17
SPECIFICATION FairSpec
INVARIANT LifetimeInv
PROPERTY ActiveSessionIsKept
PROPERTY ExpiresUnlessForgetful
