SPECIFICATION Spec
CONSTANTS
  Tasks = {t1, t2}
  Addresses <- MCAlice
  Requests <- MCCrossingRequests
  MaxUsers = 1
  MaxManagers = 1
  MaxAccounts = 2
  MaxAssets = 4
  MaxDisconnects = 1
INVARIANT SomeoneGoesOn
PROPERTIES
  OnlyGetAccountBlocks
  HandlersDescend
CHECK_DEADLOCK FALSE
