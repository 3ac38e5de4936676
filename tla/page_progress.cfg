SPECIFICATION FairWalletSpec
CONSTANTS
  OwnAddresses = {alice}
  Recipients = {bob}
  Addresses <- MCAddresses
  ValidAddresses <- MCAddresses
  MaxAccounts = 2
  Holders <- MCHolders
  Subjects <- MCSubjects
  Lifetime = 1
  MaxCreds = 1
  MaxClock = 0
  ClassNames <- MCClassNames
  PropDeed = "PROP-DEED"
  Definitions <- MCDefinitions
  MaxTokens = 1
  MaxTxs = 2
  Uses <- SignOrOther
  Messages <- MCMessages
  DefaultMessage = "transfer"
  MaxSessions = 1
  MaxLost = 1
PROPERTY HandlersEnd
VIEW WithoutReply
CHECK_DEADLOCK FALSE
