\* Amounts as BigInt reads them.
SPECIFICATION Spec
CONSTANTS
  Codes = {10, 40}
  Postings <- Transfers
  Instants = {1}
  MaxEntries = 1
  ExportLimit = 3
  WholeText = FALSE
  Precise = 4
  NoRow = NoRow
INVARIANT ReportsAnswer
CHECK_DEADLOCK FALSE
