\* Safety of two workers over two events: every race of claims, deliveries,
\* projections and updates, with a failing receiver, a failing database, and two
\* crashes or shutdowns.
SPECIFICATION Spec
CONSTANTS
  w1 = w1  w2 = w2  entry1 = entry1  None = None
  Workers = {w1, w2}
  Events <- TwoEvents
  EntryOf <- EntryOf2
  BatchSize = 2
  MaxAttempts = 1
  PruneThreshold = 1
  Repaired = {w1, w2}
  WebhookFails = TRUE
  DatabaseFails = TRUE
  MaxRestarts = 2
SYMMETRY WorkersAreAlike
INVARIANTS
  PublishedIsDone
  GivenUpAfterRetries
  BackoffRespected
PROPERTIES
  ImplementsLifecycle
  ForgottenOnlyWhenFull
