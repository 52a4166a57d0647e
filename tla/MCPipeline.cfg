\* Two workers over two events whose entries share their accounts, claimed one at a
\* time, with one crash or shutdown, a receiver and statements that fail.
SPECIFICATION Spec
CONSTANTS
  w1 = w1  w2 = w2  e1 = e1  e2 = e2  cash = cash  sales = sales
  l1 = l1  l2 = l2  l3 = l3  l4 = l4  None = None
  Workers = {w1, w2}
  Events <- TwoEvents
  EntryOfEvent <- TwoEntries
  Lines = {l1, l2, l3, l4}
  EntryOfLine <- TheEntryOfLine
  AccountOf <- TheAccountOf
  BatchSize = 1
  MaxAttempts = 1
  PruneThreshold = 2
  WebhookFails = TRUE
  MaxRestarts = 1
SYMMETRY WorkersAreAlike
INVARIANTS
  TypeOK
  PublishedIsCounted
  GivenUpIsWholeOrNothing
  NothingBeforeDelivery
PROPERTY
  ImplementsRelay
