SPECIFICATION ManagerFairSpec
CONSTANTS
  Callers = {p1, p2}
  Registered = {1, 2}
  FirstRoles <- MCFirstRoles
  RoleSets = {{"entry_exit"}}
  GateOff = {1}
  MaxVersion = 1
  MaxPatches = 1
  MaxLeaks = 1
  StartMayRaise = TRUE
  Nobody = Nobody
INVARIANTS
  OneEngine
  ModeTellsScope
PROPERTY LockReleased
