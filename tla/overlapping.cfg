SPECIFICATION Spec
CONSTANTS
  u1 = u1
  u2 = u2
  e1 = e1
  r1 = r1
  r2 = r2
  Nobody = Nobody
  NoEvent = NoEvent
  User = {u1, u2}
  Admin = {u2}
  Event = {e1}
  Request = {r1, r2}
  MaxCapacity = 2
  Operation = {"create", "join", "leave", "remove", "invite", "answer", "message"}
  MaxFailures = 1
  EventsHasActive = TRUE
  ChatServer = "Namespace"
SYMMETRY Symmetry
INVARIANTS TypeOK NoOrphans GuestsWereInvited
