SPECIFICATION FairSpec
CONSTANTS
  LeafHashes <- MCLeafHashes
  Forgeries <- MCForgeries
  HashPair <- MCHashPair
INVARIANTS
  TypeOK
  ProofFolds
  TamperDetected
  ProofShort
  RootCommits
PROPERTIES
  ProofDelivered
  LoopsDescend
