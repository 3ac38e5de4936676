SPECIFICATION Spec
CONSTANTS
  Tasks = {t1, t2}
  Addresses <- MCAlice
  Requests <- MCAccountRequests
  MaxUsers = 1
  MaxManagers = 1
  MaxAccounts = 2
  MaxAssets = 0
  MaxDisconnects = 0
PROPERTY ReadsAnswered
CHECK_DEADLOCK FALSE
