\* Liveness of two workers, one with publish() repaired and one as written, with a
\* failing database and one crash or shutdown, over two events claimed one at a time,
\* so that the younger waits behind one that keeps failing.
SPECIFICATION FairSpec
CONSTANTS
  w1 = w1  w2 = w2  entry1 = entry1  None = None
  Workers = {w1, w2}
  Events <- TwoEvents
  EntryOf <- EntryOf2
  BatchSize = 1
  MaxAttempts = 1
  PruneThreshold = 2
  Repaired = {w1}
  WebhookFails = FALSE
  DatabaseFails = TRUE
  MaxRestarts = 1
PROPERTY
  EventuallySettled
