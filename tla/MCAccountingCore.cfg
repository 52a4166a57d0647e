\* Two accepted entries out of all small ones.
SPECIFICATION BooksSpec
CONSTANTS
  Inputs <- AllEntries
  MaxAccepted = 2
INVARIANTS
  BooksTypeOK
  TrialBalances
  DeltasAddUp
  SameLinesSameForm
CHECK_DEADLOCK FALSE
