\* Concurrent posts: a call, its retry and a foreign tenant's call with the same key,
\* and two calls that must be refused, over two connections.
SPECIFICATION FairSpec
CONSTANTS
  first = first  retry = retry  other = other
  crooked = crooked  stranger = stranger
  None = None
  Requests = {first, retry, other, crooked, stranger}
  Req <- Calls
  Accounts <- Chart
  MaxAmount = 3
  PoolMax = 2
INVARIANTS
  OneEntryPerKey
  AllOrNothing
  AnswersAreTrue
  BooksBalance
PROPERTIES
  ImplementsLedger
  EveryCallEnds
CHECK_DEADLOCK FALSE
