SPECIFICATION FairSpec
CONSTANTS
  MaxRel = 3
  Migrations = {2}
  Wants = {0, 1}
  Breakages = {{2}}
  MaxFaults = 1
  MaxWrecks = 1
  MaxGuests = 1
INVARIANTS
    CurrentProven
    MigratedUp
PROPERTIES
    RestoreFits
    Converges
CHECK_DEADLOCK FALSE
