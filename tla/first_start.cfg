SPECIFICATION Spec
CONSTANTS
  container = container
  make = make
  Migrator = {container, make}
  Container = container
  LastFile = 3
  Repeatable = {2}
  MaxFaults = 2
INVARIANTS FirstStartSucceeds
