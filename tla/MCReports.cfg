\* Two entries over cash, payables, revenue and expenses, at two
\* instants, amounts read as numbers.
SPECIFICATION Spec
CONSTANTS
  Codes = {10, 20, 40, 50}
  Postings <- AllPostings
  Instants = {1, 2}
  MaxEntries = 2
  ExportLimit = 4
  WholeText = TRUE
  Precise = 4
  NoRow = NoRow
INVARIANTS
  TypeOK
  TrialBalanceHolds
  DriftIsBounded
  ReportsAgree
  StatementMatchesExport
CHECK_DEADLOCK FALSE
