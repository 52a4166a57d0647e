\* One worker with more failing events than its map's threshold, and nothing else that
\* fails or ends.
SPECIFICATION Spec
CONSTANTS
  w1 = w1  w2 = w2  entry1 = entry1  None = None
  Workers = {w1}
  Events <- TwoEvents
  EntryOf <- EntryOf2
  BatchSize = 2
  MaxAttempts = 2
  PruneThreshold = 1
  Repaired = {w1}
  WebhookFails = TRUE
  DatabaseFails = FALSE
  MaxRestarts = 0
PROPERTY
  FailuresRemembered
