SPECIFICATION CredentialsSpec
CONSTANTS
  Holders <- MCHolders
  Subjects <- MCSubjects
  Lifetime = 2
  MaxCreds = 1
  MaxClock = 1
INVARIANT SubjectIsHolder
CHECK_DEADLOCK FALSE
