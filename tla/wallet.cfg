SPECIFICATION WalletSpec
CONSTANTS
  OwnAddresses = {alice, carol}
  Recipients = {bob}
  Addresses <- MCAddresses
  ValidAddresses <- MCAddresses
  MaxAccounts = 3
  Holders <- MCHolders
  Subjects <- MCSubjects
  Lifetime = 1
  MaxCreds = 1
  MaxClock = 0
  ClassNames <- MCClassNames
  PropDeed = "PROP-DEED"
  Definitions <- MCDefinitions
  MaxTokens = 1
  MaxTxs = 3
  Uses <- SignOrOther
  Messages <- MCMessages
  DefaultMessage = "transfer"
  MaxSessions = 2
  MaxLost = 1
INVARIANTS
  WalletTypeOK
  Isolation
  SignedExactly
  VerdictFollows
  NewOwnerHonest
  HeldHonest
  MintOffered
VIEW WithoutReply
SYMMETRY OwnAddressSymmetry
CHECK_DEADLOCK FALSE
