SPECIFICATION Spec
CONSTANTS
  Account = {a1, a2, a3}
  NoAccount = NoAccount
  Place = {p1}
  NoPlace = NoPlace
  Email = {root, mail}
  AdminEmail = root
  Request = {r1, r2}
  MaxEditions = 3
  MaxFailures = 1
SYMMETRY Symmetry
INVARIANTS TypeOK HoldersAreStored WrittenByOwner PlacesAreWhole
PROPERTY OwnersRemove
