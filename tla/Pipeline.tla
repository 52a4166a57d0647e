------------------------------ MODULE Pipeline ------------------------------
(***************************************************************************)
(* The relay and the projection together: OutboxRelay, whose project() is  *)
(* one step, and Projection, whose callers are anybody, with the call      *)
(* processOnce makes for a delivered event between them.  A worker that is *)
(* at project() runs one call, whose statements interleave with everything *)
(* the other workers do; its outcome is what the relay goes on with.       *)
(***************************************************************************)
EXTENDS Naturals, FiniteSets

CONSTANTS
  Workers, Events, BatchSize, MaxAttempts, PruneThreshold, WebhookFails,
  MaxRestarts,                                 \* as in OutboxRelay
  Lines, AccountOf, None,                      \* as in Projection
  EntryOfEvent,      \* event -> its journal entry
  EntryOfLine        \* line -> its journal entry

VARIABLES
  status, received, failures, loop, running, batch, okIds, attempts, waiting,
  restarts,                                    \* OutboxRelay's, its pc named loop
  counted, call, entry, todo, at, version, returned,   \* Projection's, its pc named call
  projected          \* ledger_projection, which both speak of

relay == <<status, received, failures, loop, running, batch, okIds, attempts,
           waiting, restarts>>
calls == <<counted, call, entry, todo, at, version, returned>>
vars == <<relay, calls, projected>>

\* With the name in publish() repaired: as it is written, no event gets to project().
R == INSTANCE OutboxRelay
       WITH EntryOf <- EntryOfEvent, pc <- loop, Repaired <- Workers,
            DatabaseFails <- TRUE
P == INSTANCE Projection WITH EntryOf <- EntryOfLine, pc <- call

\* Events are those of postEntry, the only code that writes outbox_events (see Posting):
\* each names an entry that is in the journal with its lines.
ASSUME PipelineAssumption ==
  /\ R!OutboxRelayAssumption
  /\ P!ProjectionAssumption
  /\ \A e \in Events : EntryOfEvent[e] \in P!Entries

Init == R!Init /\ P!Init
-----------------------------------------------------------------------------
(* processOnce at projection.project(row).                                 *)

\* Faulty: project() is not awaited; the row counts as done when the call is made.
BeginWithoutAwait(w, e) ==
  /\ running[w]
  /\ P!Call(w, EntryOfEvent[e])
  /\ R!Remember(w, e)
  /\ UNCHANGED projected

\* The call is made, as long as the pool gives out connections.
Begin(w, e) ==
  /\ loop[w] = "project"
  /\ R!AtRow(w, e)
  /\ running[w]
  /\ P!Call(w, EntryOfEvent[e])
  /\ UNCHANGED relay

\* The pool is closed: project() throws at its first query.
Refused(w, e) ==
  /\ call[w] = "idle"
  /\ ~running[w]
  /\ R!NoticeFailure(w, e)
  /\ UNCHANGED <<calls, projected>>

\* A statement inside the call, while the loop awaits its outcome.
Continue(w) ==
  /\ P!Guard(w) \/ P!Insert(w) \/ P!Upsert(w)
  /\ call'[w] # "idle"
  /\ UNCHANGED relay

\* Faulty: a call that would have to wait for another worker's INSERT of the same
\* entry takes it for done.
ReturnWithoutWaiting(w, e) ==
  /\ \/ (P!Guard(w) \/ P!Insert(w) \/ P!Commit(w)) /\ call'[w] = "idle"
     \/ call[w] = "insert" /\ P!Blocked(w) /\ P!AlreadyProjected(w)
  /\ R!Remember(w, e)

\* The call returns true.
Return(w, e) ==
  /\ P!Guard(w) \/ P!Insert(w) \/ P!Commit(w)
  /\ call'[w] = "idle"
  /\ R!Remember(w, e)

\* Faulty: the catch of project() does not roll back.
ThrowWithoutRollback(w, e) ==
  /\ call[w] # "idle"
  /\ R!NoticeFailure(w, e)
  /\ UNCHANGED <<calls, projected>>

\* The call throws, and the catch of the row loop has it.
Throw(w, e) ==
  /\ P!StatementFails(w) \/ P!CommitFails(w) \/ P!DeadlockVictim(w)
  /\ R!NoticeFailure(w, e)
-----------------------------------------------------------------------------
(* Everything else is the relay's alone, except that a process that dies   *)
(* takes its open transaction along.                                       *)

Alone(A) == A /\ UNCHANGED calls

\* The server rolls back what the dead process had open; a COMMIT that has reached
\* it counts as answered before the crash.
Crash(w) ==
  /\ R!Crash(w)
  /\ IF call[w] = "idle" THEN UNCHANGED calls ELSE P!Throw(w)

\* pool.end() waits for the connection that is out.
Exit(w) == call[w] = "idle" /\ Alone(R!Exit(w))

Next ==
  \/ \E e \in Events : Alone(R!Enqueue(e))
  \/ \E w \in Workers :
       \/ Crash(w) \/ Exit(w) \/ Continue(w)
       \/ Alone(R!Start(w)) \/ Alone(R!Shutdown(w))
       \/ Alone(R!Poll(w)) \/ Alone(R!ClaimCommit(w)) \/ Alone(R!ClaimFails(w))
       \/ Alone(R!MarkPublished(w)) \/ Alone(R!MarkFails(w))
       \/ \E e \in Events :
            \/ Alone(R!PublishOk(w, e)) \/ Alone(R!PublishFails(w, e))
            \/ Begin(w, e) \/ Refused(w, e)
            \/ Return(w, e) \/ Throw(w, e)
            \/ Alone(R!CountFailure(w, e)) \/ Alone(R!DeadLetter(w, e))
            \/ Alone(R!DeadLetterFails(w, e)) \/ Alone(R!Elapse(w, e))

Spec == Init /\ [][Next]_vars
-----------------------------------------------------------------------------
(* Correctness.                                                            *)

\* The type invariant: a worker has a call open only while its loop is at the row
\* the call is for.
TypeOK ==
  /\ R!TypeOK
  /\ P!TypeOK
  /\ \A w \in Workers : call[w] # "idle" =>
       /\ loop[w] = "project"
       /\ \E e \in batch[w] : R!AtRow(w, e) /\ EntryOfEvent[e] = entry[w]

\* From the outbox to the balances: an event marked published has every line of its
\* entry in the balances, once, however often it was claimed, delivered and
\* projected, and whoever crashed in between (processOnce, lines 123-143).
PublishedIsCounted ==
  \A e \in Events, l \in Lines :
    status[e] = "published" /\ EntryOfLine[l] = EntryOfEvent[e] => counted[l] = 1

\* Given up does not mean undone, but never half done: of an event in dead_letter
\* either every line of its entry is in the balances, once, or none is (an earlier try,
\* or another worker's, may have projected it: handleFailure, line 223).
GivenUpIsWholeOrNothing ==
  \A e \in Events : status[e] = "dead_letter" =>
    \E n \in {0, 1} : \A l \in Lines : EntryOfLine[l] = EntryOfEvent[e] => counted[l] = n

\* The balances never show what the outside has not been handed: a line is counted
\* only after an event of its entry was delivered (publish comes first, line 125).
NothingBeforeDelivery ==
  \A l \in Lines : counted[l] > 0 =>
    \E e \in received : EntryOfEvent[e] = EntryOfLine[l]

\* The calls of project(), taken apart, are the single step OutboxRelay sees: when
\* one returns the entry is in the read model, when one throws it may be.
ImplementsRelay == R!Spec
=============================================================================
