SPECIFICATION Spec
CONSTANTS
  User = {u1, u2}
  Limit = 1
  Millisecond = 2
  MaxClock = 2
  MaxMessages = 2
SYMMETRY Symmetry
INVARIANTS TypeOK HeardIsStored PagesDescend NothingMissed
