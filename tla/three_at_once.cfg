SPECIFICATION Spec
CONSTANTS
  u1 = u1
  u2 = u2
  u3 = u3
  e1 = e1
  r1 = r1
  r2 = r2
  r3 = r3
  Nobody = Nobody
  NoEvent = NoEvent
  User = {u1, u2, u3}
  Admin = {}
  Event = {e1}
  Request = {r1, r2, r3}
  MaxCapacity = 2
  Operation = {"create", "join", "leave", "remove"}
  MaxFailures = 0
  EventsHasActive = TRUE
  ChatServer = "Namespace"
SYMMETRY Symmetry
INVARIANTS OvershootBounded OpenTransactionHoldsRow LocksExclusive WaitsEnd
