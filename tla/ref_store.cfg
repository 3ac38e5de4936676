SPECIFICATION Spec
CONSTANTS
  Tasks = {t1, t2}
  Addresses <- MCAddresses
  Requests <- MCRequests
  MaxUsers = 2
  MaxManagers = 1
  MaxAccounts = 2
  MaxAssets = 3
  MaxDisconnects = 1
INVARIANTS
  TypeOK
  AddressBook
  AccountsSupported
  CoinsConserved
  TransferAddressed
PROPERTY ImplementsCustody
CHECK_DEADLOCK FALSE
