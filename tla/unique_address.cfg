SPECIFICATION Spec
CONSTANTS
  Tasks = {t1, t2}
  Addresses <- MCAddresses
  Requests <- MCUserRequests
  MaxUsers = 2
  MaxManagers = 1
  MaxAccounts = 2
  MaxAssets = 0
  MaxDisconnects = 0
INVARIANT UniqueAddress
CHECK_DEADLOCK FALSE
