SPECIFICATION Spec
CONSTANTS
  Addresses <- MCAddresses
  ValidAddresses <- MCValidAddresses
  MaxAccounts = 2
  Holders <- MCHolders
  Subjects <- MCPlainSubjects
  Lifetime = 1
  MaxCreds = 2
  MaxClock = 1
  ClassNames <- MCClassNames
  PropDeed = "PROP-DEED"
  Definitions <- MCDefinitions
  MaxTokens = 2
  MaxTxs = 3
INVARIANTS
  TypeOK
  AccountsKept
  OwnerIndex
  ChainLinked
  HeadMatches
  LedgerComplete
  ClassPolicyHolds
  ClaimsCommitted
  AcceptedMeansDone
  StaleCopyRejected
  SignatureOutlives
PROPERTIES
  AppendOnly
  ComplianceAtMint
  ImplementsRegistry
  InvalidForGood
  AuthorisationStable
VIEW StoresAndAcceptance
CHECK_DEADLOCK FALSE
