---------------------------- MODULE OutboxRelay -----------------------------
(***************************************************************************)
(* OutboxRelayService: each worker process polls the outbox_events table,  *)
(* claims a batch, and for each row in order publishes it, projects it and *)
(* remembers it; at the end of the batch it marks the rows it remembered.  *)
(* Failures are counted in the process's own memory.  The claim's row      *)
(* locks are gone before the first row is published, so several workers    *)
(* may hold the same row.                                                  *)
(*                                                                         *)
(* ProjectionService.project is one step here, seen from its caller; the   *)
(* module Projection takes it apart.  Time is the difference between a     *)
(* backoff that is running (waiting) and one that is over.                 *)
(***************************************************************************)
EXTENDS Naturals, FiniteSets

CONSTANTS
  Workers,           \* the relay processes
  Events,            \* outbox rows, numbered in the order of (created_at, id)
  EntryOf,           \* event -> the entry project() finds to project, or None
  None,
  BatchSize,         \* OUTBOX_BATCH_SIZE
  MaxAttempts,       \* OUTBOX_MAX_ATTEMPTS
  PruneThreshold,    \* MAP_PRUNE_THRESHOLD
  Repaired,          \* the workers whose publish has its parameter's name repaired;
                     \* the others run it as written
  WebhookFails,      \* the receiver may answer with an error, late, or not at all
  DatabaseFails,     \* a statement may throw
  MaxRestarts        \* bound on the times worker processes end

ASSUME OutboxRelayAssumption ==
  /\ Events \subseteq Nat
  /\ BatchSize \in Nat \ {0}
  /\ MaxAttempts \in Nat \ {0}
  /\ PruneThreshold \in Nat
  /\ Repaired \subseteq Workers
  /\ {WebhookFails, DatabaseFails} \subseteq BOOLEAN
  /\ MaxRestarts \in Nat

VARIABLES
  status,            \* outbox_events.status; "absent" before the API's COMMIT
  projected,         \* the entries in ledger_projection
  received,          \* history: the events the receiver has been handed
  failures,          \* history: failed tries of each event, all workers and lives
                     \* together, counted up to MaxAttempts + 1
  pc,                \* worker -> where its loop is
  running,           \* worker -> this.running, and its pool is open
  batch,             \* worker -> the claimed rows it has not finished
  okIds,             \* worker -> okIds
  attempts,          \* worker -> the backoff map: failures counted, 0 if no entry
  waiting,           \* worker -> the entries whose nextAttemptAt is still to come
  restarts           \* worker processes that have ended

database == <<status, projected, received, failures>>
memory == <<okIds, attempts, waiting>>
vars == <<status, projected, received, failures, pc, running, batch, okIds,
          attempts, waiting, restarts>>

Entries == {EntryOf[e] : e \in Events} \ {None}
NoAttempts == [e \in Events |-> 0]

Init ==
  /\ status = [e \in Events |-> "absent"]
  /\ projected = {}
  /\ received = {}
  /\ failures = NoAttempts
  /\ pc = [w \in Workers |-> "down"]
  /\ running = [w \in Workers |-> FALSE]
  /\ batch = [w \in Workers |-> {}]
  /\ okIds = [w \in Workers |-> {}]
  /\ attempts = [w \in Workers |-> NoAttempts]
  /\ waiting = [w \in Workers |-> {}]
  /\ restarts = 0
-----------------------------------------------------------------------------
\* The row the for loop is at: the first of the batch in claim order.
AtRow(w, e) == e \in batch[w] /\ \A f \in batch[w] : e <= f

\* Rows locked by another worker's claim transaction.
LockedByOthers(w) == UNION {batch[v] : v \in {u \in Workers \ {w} : pc[u] = "claim"}}

\* Faulty variant: rows in backoff are not excluded.
ClaimableInBackoff(w) == {e \in Events : status[e] = "pending"} \ LockedByOthers(w)

\* What the claim's SELECT may return rows of.
Claimable(w) ==
  {e \in Events : status[e] = "pending"} \ (waiting[w] \cup LockedByOthers(w))

\* ORDER BY created_at, id LIMIT batchSize.
FirstRows(S, n) ==
  {B \in SUBSET S : /\ Cardinality(B) <= n
                    /\ B = S \/ Cardinality(B) = n
                    /\ \A e \in B, f \in S \ B : e < f}

\* The backoff map once the events of S are deleted from it.
Forget(w, S) ==
  /\ attempts' = [attempts EXCEPT ![w] = [e \in Events |-> IF e \in S THEN 0 ELSE @[e]]]
  /\ waiting' = [waiting EXCEPT ![w] = @ \ S]

\* pruneResolved deletes every entry that is due, whatever became of its event.
Due(w) == {e \in Events : attempts[w][e] > 0} \ waiting[w]

\* A try of e has failed; handleFailure is next.
Failed(w, e) ==
  /\ pc' = [pc EXCEPT ![w] = "failed"]
  /\ failures' = [failures EXCEPT ![e] = IF @ > MaxAttempts THEN @ ELSE @ + 1]

\* A poll ends; the loop sleeps until the next.
EndPoll(w) ==
  /\ pc' = [pc EXCEPT ![w] = "idle"]
  /\ batch' = [batch EXCEPT ![w] = {}]
  /\ okIds' = [okIds EXCEPT ![w] = {}]
-----------------------------------------------------------------------------
(* Around the worker.                                                      *)

\* The API commits an entry and its event.
Enqueue(e) ==
  /\ status[e] = "absent"
  /\ status' = [status EXCEPT ![e] = "pending"]
  /\ UNCHANGED <<projected, received, failures, pc, running, batch, memory, restarts>>

\* A process boots: onModuleInit reaches the database, start() begins the loop
\* (ensureTables may fail: it is only logged).
Start(w) ==
  /\ pc[w] = "down"
  /\ pc' = [pc EXCEPT ![w] = "idle"]
  /\ running' = [running EXCEPT ![w] = TRUE]
  /\ UNCHANGED <<database, batch, memory, restarts>>

\* The process ends and takes its memory along.
Die(w) ==
  /\ pc' = [pc EXCEPT ![w] = "down"]
  /\ running' = [running EXCEPT ![w] = FALSE]
  /\ batch' = [batch EXCEPT ![w] = {}]
  /\ okIds' = [okIds EXCEPT ![w] = {}]
  /\ attempts' = [attempts EXCEPT ![w] = NoAttempts]
  /\ waiting' = [waiting EXCEPT ![w] = {}]
  /\ UNCHANGED database

\* The bound on crashes and shutdowns.
Interrupt == restarts < MaxRestarts /\ restarts' = restarts + 1

Crash(w) == running[w] /\ Interrupt /\ Die(w)

\* SIGTERM: onModuleDestroy of the relay and of the database service, which closes
\* the pool for every later connect or query.
Shutdown(w) ==
  /\ running[w]
  /\ Interrupt
  /\ running' = [running EXCEPT ![w] = FALSE]
  /\ UNCHANGED <<database, pc, batch, memory>>

\* pool.end() has resolved (no connection is checked out) and the process goes.
Exit(w) ==
  /\ pc[w] \notin {"down", "claim"}
  /\ ~running[w]
  /\ Die(w)
  /\ UNCHANGED restarts

\* nextAttemptAt passes.
Elapse(w, e) ==
  /\ e \in waiting[w]
  /\ waiting' = [waiting EXCEPT ![w] = @ \ {e}]
  /\ UNCHANGED <<database, pc, running, batch, okIds, attempts, restarts>>
-----------------------------------------------------------------------------
(* processOnce.                                                            *)

\* The claim's SELECT ... FOR UPDATE SKIP LOCKED; with no rows the poll is over.
Poll(w) ==
  /\ pc[w] = "idle"
  /\ running[w]
  /\ \E B \in FirstRows(Claimable(w), BatchSize) :
       /\ batch' = [batch EXCEPT ![w] = B]
       /\ pc' = [pc EXCEPT ![w] = IF B = {} THEN "idle" ELSE "claim"]
  /\ UNCHANGED <<database, running, memory, restarts>>

\* The claim's COMMIT: the locks go, the rows stay with the worker.
ClaimCommit(w) ==
  /\ pc[w] = "claim"
  /\ pc' = [pc EXCEPT ![w] = "publish"]
  /\ UNCHANGED <<database, running, batch, memory, restarts>>

\* The claim throws; the loop logs it and sleeps.
ClaimFails(w) ==
  /\ DatabaseFails
  /\ pc[w] = "claim"
  /\ EndPoll(w)
  /\ UNCHANGED <<database, running, attempts, waiting, restarts>>

\* publish() as written reads a name that is not bound: it throws before any
\* request is made.
PublishThrows(w, e) ==
  /\ pc[w] = "publish"
  /\ AtRow(w, e)
  /\ w \notin Repaired
  /\ Failed(w, e)
  /\ UNCHANGED <<status, projected, received, running, batch, memory, restarts>>

\* Faulty variant: the request is not awaited, and may never have left.
PublishWithoutAwait(w, e) ==
  /\ pc[w] = "publish"
  /\ AtRow(w, e)
  /\ w \in Repaired
  /\ \E R \in SUBSET {e} : received' = received \cup R
  /\ pc' = [pc EXCEPT ![w] = "project"]
  /\ UNCHANGED <<status, projected, failures, running, batch, memory, restarts>>

\* The receiver answers 2xx in time, or no receiver is configured and the event
\* is in the log.
PublishOk(w, e) ==
  /\ pc[w] = "publish"
  /\ AtRow(w, e)
  /\ w \in Repaired
  /\ received' = received \cup {e}
  /\ pc' = [pc EXCEPT ![w] = "project"]
  /\ UNCHANGED <<status, projected, failures, running, batch, memory, restarts>>

\* The receiver answers an error, or the timeout aborts the request: it may have
\* taken the event all the same.
PublishFails(w, e) ==
  /\ WebhookFails
  /\ pc[w] = "publish"
  /\ AtRow(w, e)
  /\ w \in Repaired
  /\ \E R \in SUBSET {e} : received' = received \cup R
  /\ Failed(w, e)
  /\ UNCHANGED <<status, projected, running, batch, memory, restarts>>

\* The relay's side of a project() that has returned: okIds.push, and the next row.
Remember(w, e) ==
  /\ pc[w] = "project"
  /\ AtRow(w, e)
  /\ okIds' = [okIds EXCEPT ![w] = @ \cup {e}]
  /\ batch' = [batch EXCEPT ![w] = @ \ {e}]
  /\ pc' = [pc EXCEPT ![w] = "publish"]
  /\ UNCHANGED <<status, received, failures, running, attempts, waiting, restarts>>

\* project() returns: the entry is in the read model, put there now or before, or
\* the event has none.  A call that has its connection goes on when the pool closes.
ProjectOk(w, e) ==
  /\ Remember(w, e)
  /\ projected' = projected \cup ({EntryOf[e]} \ {None})

\* Faulty variant: an error of project() is swallowed and the row remembered as done.
ProjectFailsUnnoticed(w, e) ==
  /\ pc[w] = "project"
  /\ AtRow(w, e)
  /\ ~running[w] \/ DatabaseFails
  /\ okIds' = [okIds EXCEPT ![w] = @ \cup {e}]
  /\ batch' = [batch EXCEPT ![w] = @ \ {e}]
  /\ pc' = [pc EXCEPT ![w] = "publish"]
  /\ UNCHANGED <<database, running, attempts, waiting, restarts>>

\* The relay's side of a project() that has thrown.
NoticeFailure(w, e) ==
  /\ pc[w] = "project"
  /\ AtRow(w, e)
  /\ Failed(w, e)
  /\ UNCHANGED <<status, received, running, batch, memory, restarts>>

\* project() throws: rolled back, or the connection was lost during its COMMIT; or
\* the pool is closed.
ProjectFails(w, e) ==
  /\ NoticeFailure(w, e)
  /\ \/ ~running[w] /\ UNCHANGED projected
     \/ /\ DatabaseFails
        /\ \E N \in SUBSET ({EntryOf[e]} \ {None}) : projected' = projected \cup N

\* Faulty variant: one counter per worker, shared by the events of its batch.
CountFailureOfBatch(w, e) ==
  /\ pc[w] = "failed"
  /\ AtRow(w, e)
  /\ attempts[w][e] < MaxAttempts
  /\ attempts' = [attempts EXCEPT ![w] =
                    [f \in Events |-> IF f \in batch[w] THEN attempts[w][e] + 1 ELSE @[f]]]
  /\ waiting' = [waiting EXCEPT ![w] = @ \cup {e}]
  /\ batch' = [batch EXCEPT ![w] = @ \ {e}]
  /\ pc' = [pc EXCEPT ![w] = "publish"]
  /\ UNCHANGED <<database, running, okIds, restarts>>

\* Faulty variant: the backoff is started anew without counting.
BackOffOnly(w, e) ==
  /\ pc[w] = "failed"
  /\ AtRow(w, e)
  /\ attempts[w][e] < MaxAttempts
  /\ waiting' = [waiting EXCEPT ![w] = @ \cup {e}]
  /\ batch' = [batch EXCEPT ![w] = @ \ {e}]
  /\ pc' = [pc EXCEPT ![w] = "publish"]
  /\ UNCHANGED <<database, running, okIds, attempts, restarts>>

\* handleFailure counts the failure and starts a backoff.
CountFailure(w, e) ==
  /\ pc[w] = "failed"
  /\ AtRow(w, e)
  /\ attempts[w][e] < MaxAttempts
  /\ attempts' = [attempts EXCEPT ![w][e] = @ + 1]
  /\ waiting' = [waiting EXCEPT ![w] = @ \cup {e}]
  /\ batch' = [batch EXCEPT ![w] = @ \ {e}]
  /\ pc' = [pc EXCEPT ![w] = "publish"]
  /\ UNCHANGED <<database, running, okIds, restarts>>

\* Faulty variant: the counter is dropped and the row left pending.
ForgetInsteadOfDeadLetter(w, e) ==
  /\ pc[w] = "failed"
  /\ AtRow(w, e)
  /\ attempts[w][e] = MaxAttempts
  /\ running[w]
  /\ Forget(w, {e})
  /\ batch' = [batch EXCEPT ![w] = @ \ {e}]
  /\ pc' = [pc EXCEPT ![w] = "publish"]
  /\ UNCHANGED <<database, running, okIds, restarts>>

\* handleFailure gives the event up: UPDATE ... SET status = 'dead_letter' WHERE ...
\* status = 'pending'.
DeadLetter(w, e) ==
  /\ pc[w] = "failed"
  /\ AtRow(w, e)
  /\ attempts[w][e] = MaxAttempts
  /\ running[w]
  /\ e \notin LockedByOthers(w)
  /\ status' = IF status[e] = "pending"
                 THEN [status EXCEPT ![e] = "dead_letter"] ELSE status
  /\ Forget(w, {e})
  /\ batch' = [batch EXCEPT ![w] = @ \ {e}]
  /\ pc' = [pc EXCEPT ![w] = "publish"]
  /\ UNCHANGED <<projected, received, failures, running, okIds, restarts>>

\* That UPDATE throws (it may have been done), and with it handleFailure and the
\* whole poll: the rest of the batch and okIds are dropped.
DeadLetterFails(w, e) ==
  /\ pc[w] = "failed"
  /\ AtRow(w, e)
  /\ attempts[w][e] = MaxAttempts
  /\ \/ ~running[w] /\ UNCHANGED status
     \/ /\ running[w] /\ DatabaseFails /\ e \notin LockedByOthers(w)
        /\ \E D \in SUBSET {e} :
             status' = [f \in Events |-> IF f \in D /\ status[f] = "pending"
                                           THEN "dead_letter" ELSE status[f]]
  /\ EndPoll(w)
  /\ UNCHANGED <<projected, received, failures, running, attempts, waiting, restarts>>

\* Faulty variant: without AND status = 'pending'.
SetPublishedWhatever(ids) ==
  status' = [e \in Events |-> IF e \in ids THEN "published" ELSE status[e]]

\* UPDATE ... SET status = 'published' ... WHERE id = ANY(ids) AND status = 'pending'.
SetPublished(ids) ==
  status' = [e \in Events |-> IF e \in ids /\ status[e] = "pending"
                                THEN "published" ELSE status[e]]

\* The batch is through: markPublished, and the map is pruned if it is large.
MarkPublished(w) ==
  /\ pc[w] = "publish"
  /\ batch[w] = {}
  /\ IF okIds[w] = {}
       THEN UNCHANGED status
       ELSE /\ running[w]
            /\ okIds[w] \cap LockedByOthers(w) = {}
            /\ SetPublished(okIds[w])
  /\ LET kept == {e \in Events : attempts[w][e] > 0} \ okIds[w]
     IN  Forget(w, okIds[w] \cup (IF Cardinality(kept) > PruneThreshold
                                    THEN Due(w) ELSE {}))
  /\ EndPoll(w)
  /\ UNCHANGED <<projected, received, failures, running, restarts>>

\* markPublished throws (the UPDATE may have been done): no entry leaves the map.
MarkFails(w) ==
  /\ pc[w] = "publish"
  /\ batch[w] = {}
  /\ okIds[w] # {}
  /\ \/ ~running[w] /\ UNCHANGED status
     \/ /\ running[w] /\ DatabaseFails /\ okIds[w] \cap LockedByOthers(w) = {}
        /\ \E ids \in {{}, okIds[w]} : SetPublished(ids)
  /\ EndPoll(w)
  /\ UNCHANGED <<projected, received, failures, running, attempts, waiting, restarts>>
-----------------------------------------------------------------------------
HandleRow(w, e) ==
  \/ PublishThrows(w, e) \/ PublishOk(w, e) \/ PublishFails(w, e)
  \/ ProjectOk(w, e) \/ ProjectFails(w, e)
  \/ CountFailure(w, e) \/ DeadLetter(w, e) \/ DeadLetterFails(w, e)

Next ==
  \/ \E e \in Events : Enqueue(e)
  \/ \E w \in Workers :
       \/ Start(w) \/ Crash(w) \/ Shutdown(w) \/ Exit(w)
       \/ Poll(w) \/ ClaimCommit(w) \/ ClaimFails(w)
       \/ MarkPublished(w) \/ MarkFails(w)
       \/ \E e \in Events : HandleRow(w, e) \/ Elapse(w, e)

Spec == Init /\ [][Next]_vars

\* What a process does on its own: it goes on with its loop, whatever becomes of its
\* statements, ends when it was told to and its pool is closed, and is restarted.
GoOn(w) ==
  \/ Start(w) \/ Exit(w)
  \/ Poll(w) \/ ClaimCommit(w) \/ ClaimFails(w)
  \/ MarkPublished(w) \/ MarkFails(w)
  \/ \E e \in Events : HandleRow(w, e)

\* Fairness: processes go on, backoffs pass, and the database does not for ever fail
\* the statements of one kind.  Nothing is assumed of the receiver.
Fairness ==
  /\ \A w \in Workers : WF_vars(GoOn(w)) /\ \A e \in Events : WF_vars(Elapse(w, e))
  /\ SF_vars(\E w \in Workers : ClaimCommit(w))
  /\ SF_vars(\E w \in Workers : okIds[w] # {} /\ MarkPublished(w))
  /\ SF_vars(\E w \in Workers, e \in Events : DeadLetter(w, e))

FairSpec == Spec /\ Fairness
-----------------------------------------------------------------------------
(* Correctness.                                                            *)

\* The type invariant.
TypeOK ==
  /\ status \in [Events -> {"absent", "pending", "published", "dead_letter"}]
  /\ projected \subseteq Entries
  /\ received \subseteq Events
  /\ failures \in [Events -> 0..(MaxAttempts + 1)]
  /\ pc \in [Workers -> {"down", "idle", "claim", "publish", "project", "failed"}]
  /\ running \in [Workers -> BOOLEAN]
  /\ batch \in [Workers -> SUBSET Events]
  /\ okIds \in [Workers -> SUBSET Events]
  /\ attempts \in [Workers -> [Events -> 0..MaxAttempts]]
  /\ waiting \in [Workers -> SUBSET Events]
  /\ restarts \in 0..MaxRestarts

\* No event is lost by being marked too early: a published event has been delivered
\* and its entry is in the read model, whatever crashes, lost answers and
\* overlapping claims came before (lines 124-143).
PublishedIsDone ==
  \A e \in Events : status[e] = "published" =>
    e \in received /\ EntryOf[e] \in projected \cup {None}

\* No event is given up early: a dead-lettered one has failed more often than
\* OUTBOX_MAX_ATTEMPTS, with restarts and other workers only ever adding tries
\* (lines 211-227).
GivenUpAfterRetries ==
  \A e \in Events : status[e] = "dead_letter" => failures[e] > MaxAttempts

\* While an event's backoff runs at a worker, that worker neither holds it in a
\* batch nor delivers it (lines 107-111 and 230).
BackoffRespected ==
  \A w \in Workers : batch[w] \cap waiting[w] = {}

\* Every stored event is settled: published, or given up as dead_letter, however the
\* workers crash, restart and race, as long as they come back (line 32).
EventuallySettled ==
  \A e \in Events : status[e] = "pending" ~> status[e] \in {"published", "dead_letter"}

\* A living worker forgets the failures of an unsettled event.
ForgetsUnsettled(w, e) ==
  /\ attempts[w][e] > 0
  /\ attempts'[w][e] = 0
  /\ pc'[w] # "down"
  /\ status'[e] = "pending"

\* The comment's claim: counters are lost with the process, so that a worker that
\* lives forgets settled events only (lines 35-36).  pruneResolved breaks it.
FailuresRemembered ==
  [][\A w \in Workers, e \in Events : ~ForgetsUnsettled(w, e)]_vars

\* What is left of it: a living worker forgets an unsettled event only when that
\* event's backoff is over and its map, without the events of the batch just marked,
\* is above the threshold (lines 147, 208, 226, 237-241).
ForgottenOnlyWhenFull ==
  [][\A w \in Workers, e \in Events : ForgetsUnsettled(w, e) =>
       /\ e \notin waiting[w]
       /\ Cardinality({f \in Events \ okIds[w] : attempts[w][f] > 0}) > PruneThreshold]_vars

\* Seen through the tables and the receiver, any number of workers behave as one
\* outbox: at-least-once delivery before publication, projection once and only
\* after delivery, final outcomes (lines 32-39, 201-221).
Lifecycle == INSTANCE OutboxLifecycle
ImplementsLifecycle == Lifecycle!Spec

\* The API's and the receiver's side of one healthy world: with no failing receiver
\* and no failing database an event is never given up (outbox.publisher.ts 46-51).
HealthyIsNeverGivenUp ==
  ~WebhookFails /\ ~DatabaseFails => \A e \in Events : status[e] # "dead_letter"
=============================================================================
