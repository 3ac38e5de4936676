SPECIFICATION Spec
CONSTANTS
  Addresses <- MCAddresses
  ValidAddresses <- MCValidAddresses
  MaxAccounts = 2
  Holders <- MCHolders
  Subjects <- MCPlainSubjects
  Lifetime = 1
  MaxCreds = 2
  MaxClock = 1
  ClassNames <- MCClassNames
  PropDeed = "PROP-DEED"
  Definitions <- MCDefinitions
  MaxTokens = 2
  MaxTxs = 2
INVARIANT MintReceiptTracks
VIEW StoresAndAcceptance
CHECK_DEADLOCK FALSE
