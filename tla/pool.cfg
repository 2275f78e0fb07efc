SPECIFICATION FairSpec
CONSTANTS
  r1 = r1
  r2 = r2
  r3 = r3
  c1 = c1
  c2 = c2
  NoConnection = NoConnection
  Request = {r1, r2, r3}
  Connection = {c1, c2}
  MaxLosses = 1
INVARIANTS TypeOK NoConnectionLeaks IdleIsClean
PROPERTIES EveryUnitEnds ImplementsStore
