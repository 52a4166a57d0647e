\* publish() as written: one worker, one event, nothing that fails.
SPECIFICATION Spec
CONSTANTS
  w1 = w1  w2 = w2  entry1 = entry1  None = None
  Workers = {w1}
  Events <- OneEvent
  EntryOf <- EntryOf1
  BatchSize = 1
  MaxAttempts = 5
  PruneThreshold = 1
  Repaired = {}
  WebhookFails = FALSE
  DatabaseFails = FALSE
  MaxRestarts = 0
INVARIANT
  HealthyIsNeverGivenUp
