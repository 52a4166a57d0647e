------------------------- MODULE OutboxRelayProofs --------------------------
(***************************************************************************)
(* For every number of workers, every set of events and every setting of   *)
(* the relay: the state stays well typed, a published event has been       *)
(* delivered and projected, a dead-lettered one has failed often enough,   *)
(* backoffs are respected, counters of unsettled events are forgotten by   *)
(* pruning a full map only, and the workers together implement the         *)
(* outbox's lifecycle.                                                     *)
(***************************************************************************)
EXTENDS OutboxRelay, TLAPS

\* A worker holds only stored rows.
HoldsStoredRows ==
  \A w \in Workers : \A e \in batch[w] \cup okIds[w] : status[e] # "absent"

\* What a worker remembers as done is done, and a row it projects is delivered.
RememberedIsDone ==
  \A w \in Workers :
    /\ \A e \in okIds[w] : e \in received /\ EntryOf[e] \in projected \cup {None}
    /\ \A e \in batch[w] : pc[w] = "project" /\ AtRow(w, e) => e \in received

\* A worker's counter never runs ahead of the failures there were; in handleFailure
\* the one at hand is not counted yet.
CountersAreBacked ==
  \A w \in Workers, e \in Events :
    /\ attempts[w][e] <= failures[e]
    /\ pc[w] = "failed" /\ AtRow(w, e) => attempts[w][e] < failures[e]

\* The inductive invariant.
IInv ==
  /\ TypeOK
  /\ HoldsStoredRows
  /\ RememberedIsDone
  /\ CountersAreBacked
  /\ PublishedIsDone
  /\ GivenUpAfterRetries
  /\ BackoffRespected
-----------------------------------------------------------------------------
\* The initial state.
LEMMA InitIInv == Init => IInv
  BY OutboxRelayAssumption
     DEF Init, NoAttempts, IInv, TypeOK, HoldsStoredRows, RememberedIsDone,
         CountersAreBacked, PublishedIsDone, GivenUpAfterRetries, BackoffRespected

\* Every step keeps the inductive invariant.
LEMMA NextIInv == IInv /\ [Next]_vars => IInv'
<1> SUFFICES ASSUME IInv, [Next]_vars PROVE IInv'
  OBVIOUS
<1> USE OutboxRelayAssumption
<1>1. ASSUME NEW e \in Events, Enqueue(e) PROVE IInv'
  <2> USE <1>1 DEF Enqueue, database, memory
  <2>1. TypeOK'
    BY DEF IInv, TypeOK
  <2>2. HoldsStoredRows'
    BY DEF IInv, TypeOK, HoldsStoredRows
  <2>3. RememberedIsDone'
    BY DEF IInv, TypeOK, RememberedIsDone, AtRow
  <2>4. CountersAreBacked'
    BY DEF IInv, TypeOK, CountersAreBacked, AtRow
  <2>5. PublishedIsDone'
    BY DEF IInv, TypeOK, PublishedIsDone
  <2>6. GivenUpAfterRetries'
    BY DEF IInv, TypeOK, GivenUpAfterRetries
  <2>7. BackoffRespected'
    BY DEF IInv, TypeOK, BackoffRespected
  <2> QED
    BY <2>1, <2>2, <2>3, <2>4, <2>5, <2>6, <2>7 DEF IInv
<1>2. ASSUME NEW w \in Workers, Start(w) PROVE IInv'
  <2> USE <1>2 DEF Start, database, memory
  <2>1. TypeOK'
    BY DEF IInv, TypeOK
  <2>2. HoldsStoredRows'
    BY DEF IInv, TypeOK, HoldsStoredRows
  <2>3. RememberedIsDone'
    BY DEF IInv, TypeOK, RememberedIsDone, AtRow
  <2>4. CountersAreBacked'
    BY DEF IInv, TypeOK, CountersAreBacked, AtRow
  <2>5. PublishedIsDone'
    BY DEF IInv, TypeOK, PublishedIsDone
  <2>6. GivenUpAfterRetries'
    BY DEF IInv, TypeOK, GivenUpAfterRetries
  <2>7. BackoffRespected'
    BY DEF IInv, TypeOK, BackoffRespected
  <2> QED
    BY <2>1, <2>2, <2>3, <2>4, <2>5, <2>6, <2>7 DEF IInv
<1>3. ASSUME NEW w \in Workers, Crash(w) PROVE IInv'
  <2> USE <1>3 DEF Crash, Die, Interrupt, NoAttempts, database, memory
  <2>1. TypeOK'
    BY DEF IInv, TypeOK
  <2>2. HoldsStoredRows'
    BY DEF IInv, TypeOK, HoldsStoredRows
  <2>3. RememberedIsDone'
    BY DEF IInv, TypeOK, RememberedIsDone, AtRow
  <2>4. CountersAreBacked'
    BY DEF IInv, TypeOK, CountersAreBacked, AtRow
  <2>5. PublishedIsDone'
    BY DEF IInv, TypeOK, PublishedIsDone
  <2>6. GivenUpAfterRetries'
    BY DEF IInv, TypeOK, GivenUpAfterRetries
  <2>7. BackoffRespected'
    BY DEF IInv, TypeOK, BackoffRespected
  <2> QED
    BY <2>1, <2>2, <2>3, <2>4, <2>5, <2>6, <2>7 DEF IInv
<1>4. ASSUME NEW w \in Workers, Shutdown(w) PROVE IInv'
  <2> USE <1>4 DEF Shutdown, Interrupt, database, memory
  <2>1. TypeOK'
    BY DEF IInv, TypeOK
  <2>2. HoldsStoredRows'
    BY DEF IInv, TypeOK, HoldsStoredRows
  <2>3. RememberedIsDone'
    BY DEF IInv, TypeOK, RememberedIsDone, AtRow
  <2>4. CountersAreBacked'
    BY DEF IInv, TypeOK, CountersAreBacked, AtRow
  <2>5. PublishedIsDone'
    BY DEF IInv, TypeOK, PublishedIsDone
  <2>6. GivenUpAfterRetries'
    BY DEF IInv, TypeOK, GivenUpAfterRetries
  <2>7. BackoffRespected'
    BY DEF IInv, TypeOK, BackoffRespected
  <2> QED
    BY <2>1, <2>2, <2>3, <2>4, <2>5, <2>6, <2>7 DEF IInv
<1>5. ASSUME NEW w \in Workers, Exit(w) PROVE IInv'
  <2> USE <1>5 DEF Exit, Die, NoAttempts, database, memory
  <2>1. TypeOK'
    BY DEF IInv, TypeOK
  <2>2. HoldsStoredRows'
    BY DEF IInv, TypeOK, HoldsStoredRows
  <2>3. RememberedIsDone'
    BY DEF IInv, TypeOK, RememberedIsDone, AtRow
  <2>4. CountersAreBacked'
    BY DEF IInv, TypeOK, CountersAreBacked, AtRow
  <2>5. PublishedIsDone'
    BY DEF IInv, TypeOK, PublishedIsDone
  <2>6. GivenUpAfterRetries'
    BY DEF IInv, TypeOK, GivenUpAfterRetries
  <2>7. BackoffRespected'
    BY DEF IInv, TypeOK, BackoffRespected
  <2> QED
    BY <2>1, <2>2, <2>3, <2>4, <2>5, <2>6, <2>7 DEF IInv
<1>6. ASSUME NEW w \in Workers, Poll(w) PROVE IInv'
  <2> USE <1>6 DEF Poll, FirstRows, Claimable, database, memory
  <2>1. TypeOK'
    BY DEF IInv, TypeOK
  <2>2. HoldsStoredRows'
    BY DEF IInv, TypeOK, HoldsStoredRows
  <2>3. RememberedIsDone'
    BY DEF IInv, TypeOK, RememberedIsDone, AtRow
  <2>4. CountersAreBacked'
    BY DEF IInv, TypeOK, CountersAreBacked, AtRow
  <2>5. PublishedIsDone'
    BY DEF IInv, TypeOK, PublishedIsDone
  <2>6. GivenUpAfterRetries'
    BY DEF IInv, TypeOK, GivenUpAfterRetries
  <2>7. BackoffRespected'
    <3>1. PICK B \in FirstRows(Claimable(w), BatchSize) : batch' = [batch EXCEPT ![w] = B]
      OBVIOUS
    <3>2. B \cap waiting[w] = {}
      BY <3>1
    <3> QED
      BY <3>1, <3>2 DEF IInv, TypeOK, BackoffRespected
  <2> QED
    BY <2>1, <2>2, <2>3, <2>4, <2>5, <2>6, <2>7 DEF IInv
<1>7. ASSUME NEW w \in Workers, ClaimCommit(w) PROVE IInv'
  <2> USE <1>7 DEF ClaimCommit, database, memory
  <2>1. TypeOK'
    BY DEF IInv, TypeOK
  <2>2. HoldsStoredRows'
    BY DEF IInv, TypeOK, HoldsStoredRows
  <2>3. RememberedIsDone'
    BY DEF IInv, TypeOK, RememberedIsDone, AtRow
  <2>4. CountersAreBacked'
    BY DEF IInv, TypeOK, CountersAreBacked, AtRow
  <2>5. PublishedIsDone'
    BY DEF IInv, TypeOK, PublishedIsDone
  <2>6. GivenUpAfterRetries'
    BY DEF IInv, TypeOK, GivenUpAfterRetries
  <2>7. BackoffRespected'
    BY DEF IInv, TypeOK, BackoffRespected
  <2> QED
    BY <2>1, <2>2, <2>3, <2>4, <2>5, <2>6, <2>7 DEF IInv
<1>8. ASSUME NEW w \in Workers, ClaimFails(w) PROVE IInv'
  <2> USE <1>8 DEF ClaimFails, EndPoll, database, memory
  <2>1. TypeOK'
    BY DEF IInv, TypeOK
  <2>2. HoldsStoredRows'
    BY DEF IInv, TypeOK, HoldsStoredRows
  <2>3. RememberedIsDone'
    BY DEF IInv, TypeOK, RememberedIsDone, AtRow
  <2>4. CountersAreBacked'
    BY DEF IInv, TypeOK, CountersAreBacked, AtRow
  <2>5. PublishedIsDone'
    BY DEF IInv, TypeOK, PublishedIsDone
  <2>6. GivenUpAfterRetries'
    BY DEF IInv, TypeOK, GivenUpAfterRetries
  <2>7. BackoffRespected'
    BY DEF IInv, TypeOK, BackoffRespected
  <2> QED
    BY <2>1, <2>2, <2>3, <2>4, <2>5, <2>6, <2>7 DEF IInv
<1>9. ASSUME NEW w \in Workers, MarkPublished(w) PROVE IInv'
  <2> USE <1>9 DEF MarkPublished, EndPoll, Forget, SetPublished, database, memory
  <2>1. TypeOK'
    BY DEF IInv, TypeOK
  <2>2. HoldsStoredRows'
    BY DEF IInv, TypeOK, HoldsStoredRows
  <2>3. RememberedIsDone'
    BY DEF IInv, TypeOK, RememberedIsDone, AtRow
  <2>4. CountersAreBacked'
    BY DEF IInv, TypeOK, CountersAreBacked, AtRow
  <2>5. PublishedIsDone'
    BY DEF IInv, TypeOK, PublishedIsDone, RememberedIsDone
  <2>6. GivenUpAfterRetries'
    BY DEF IInv, TypeOK, GivenUpAfterRetries
  <2>7. BackoffRespected'
    BY DEF IInv, TypeOK, BackoffRespected
  <2> QED
    BY <2>1, <2>2, <2>3, <2>4, <2>5, <2>6, <2>7 DEF IInv
<1>10. ASSUME NEW w \in Workers, MarkFails(w) PROVE IInv'
  <2> USE <1>10 DEF MarkFails, EndPoll, SetPublished, database, memory
  <2>1. TypeOK'
    BY DEF IInv, TypeOK
  <2>2. HoldsStoredRows'
    BY DEF IInv, TypeOK, HoldsStoredRows
  <2>3. RememberedIsDone'
    BY DEF IInv, TypeOK, RememberedIsDone, AtRow
  <2>4. CountersAreBacked'
    BY DEF IInv, TypeOK, CountersAreBacked, AtRow
  <2>5. PublishedIsDone'
    BY DEF IInv, TypeOK, PublishedIsDone, RememberedIsDone
  <2>6. GivenUpAfterRetries'
    BY DEF IInv, TypeOK, GivenUpAfterRetries
  <2>7. BackoffRespected'
    BY DEF IInv, TypeOK, BackoffRespected
  <2> QED
    BY <2>1, <2>2, <2>3, <2>4, <2>5, <2>6, <2>7 DEF IInv
<1>11. ASSUME NEW w \in Workers, NEW e \in Events, PublishThrows(w, e) PROVE IInv'
  <2> USE <1>11 DEF PublishThrows, Failed, database, memory
  <2>1. TypeOK'
    BY DEF IInv, TypeOK
  <2>2. HoldsStoredRows'
    BY DEF IInv, TypeOK, HoldsStoredRows
  <2>3. RememberedIsDone'
    BY DEF IInv, TypeOK, RememberedIsDone, AtRow
  <2>4. CountersAreBacked'
    BY DEF IInv, TypeOK, CountersAreBacked, AtRow
  <2>5. PublishedIsDone'
    BY DEF IInv, TypeOK, PublishedIsDone
  <2>6. GivenUpAfterRetries'
    BY DEF IInv, TypeOK, GivenUpAfterRetries
  <2>7. BackoffRespected'
    BY DEF IInv, TypeOK, BackoffRespected
  <2> QED
    BY <2>1, <2>2, <2>3, <2>4, <2>5, <2>6, <2>7 DEF IInv
<1>12. ASSUME NEW w \in Workers, NEW e \in Events, PublishOk(w, e) PROVE IInv'
  <2> USE <1>12 DEF PublishOk, database, memory
  <2>1. TypeOK'
    BY DEF IInv, TypeOK
  <2>2. HoldsStoredRows'
    BY DEF IInv, TypeOK, HoldsStoredRows
  <2>3. RememberedIsDone'
    BY DEF IInv, TypeOK, RememberedIsDone, AtRow
  <2>4. CountersAreBacked'
    BY DEF IInv, TypeOK, CountersAreBacked, AtRow
  <2>5. PublishedIsDone'
    BY DEF IInv, TypeOK, PublishedIsDone
  <2>6. GivenUpAfterRetries'
    BY DEF IInv, TypeOK, GivenUpAfterRetries
  <2>7. BackoffRespected'
    BY DEF IInv, TypeOK, BackoffRespected
  <2> QED
    BY <2>1, <2>2, <2>3, <2>4, <2>5, <2>6, <2>7 DEF IInv
<1>13. ASSUME NEW w \in Workers, NEW e \in Events, PublishFails(w, e) PROVE IInv'
  <2> USE <1>13 DEF PublishFails, Failed, database, memory
  <2>1. TypeOK'
    BY DEF IInv, TypeOK
  <2>2. HoldsStoredRows'
    BY DEF IInv, TypeOK, HoldsStoredRows
  <2>3. RememberedIsDone'
    BY DEF IInv, TypeOK, RememberedIsDone, AtRow
  <2>4. CountersAreBacked'
    BY DEF IInv, TypeOK, CountersAreBacked, AtRow
  <2>5. PublishedIsDone'
    BY DEF IInv, TypeOK, PublishedIsDone
  <2>6. GivenUpAfterRetries'
    BY DEF IInv, TypeOK, GivenUpAfterRetries
  <2>7. BackoffRespected'
    BY DEF IInv, TypeOK, BackoffRespected
  <2> QED
    BY <2>1, <2>2, <2>3, <2>4, <2>5, <2>6, <2>7 DEF IInv
<1>14. ASSUME NEW w \in Workers, NEW e \in Events, ProjectOk(w, e) PROVE IInv'
  <2> USE <1>14 DEF ProjectOk, Remember, Entries, database, memory
  <2>1. TypeOK'
    BY DEF IInv, TypeOK
  <2>2. HoldsStoredRows'
    <3>1. \A v \in Workers : batch'[v] \cup okIds'[v] \subseteq batch[v] \cup okIds[v]
      BY DEF IInv, TypeOK, AtRow
    <3> QED
      BY <3>1 DEF IInv, HoldsStoredRows
  <2>3. RememberedIsDone'
    BY DEF IInv, TypeOK, RememberedIsDone, AtRow
  <2>4. CountersAreBacked'
    BY DEF IInv, TypeOK, CountersAreBacked, AtRow
  <2>5. PublishedIsDone'
    BY DEF IInv, TypeOK, PublishedIsDone
  <2>6. GivenUpAfterRetries'
    BY DEF IInv, TypeOK, GivenUpAfterRetries
  <2>7. BackoffRespected'
    BY DEF IInv, TypeOK, BackoffRespected
  <2> QED
    BY <2>1, <2>2, <2>3, <2>4, <2>5, <2>6, <2>7 DEF IInv
<1>15. ASSUME NEW w \in Workers, NEW e \in Events, ProjectFails(w, e) PROVE IInv'
  <2> USE <1>15 DEF ProjectFails, NoticeFailure, Failed, Entries, database, memory
  <2>1. TypeOK'
    <3>1. projected' \subseteq Entries
      <4>1. projected' \subseteq projected \cup ({EntryOf[e]} \ {None})
        <5>1. CASE UNCHANGED projected
          BY <5>1
        <5>2. CASE \E N \in SUBSET ({EntryOf[e]} \ {None}) : projected' = projected \cup N
          BY <5>2
        <5> QED
          BY <5>1, <5>2
      <4> QED
        BY <4>1 DEF IInv, TypeOK
    <3>2. failures' \in [Events -> 0..(MaxAttempts + 1)]
      BY DEF IInv, TypeOK
    <3> QED
      BY <3>1, <3>2 DEF IInv, TypeOK
  <2>2. HoldsStoredRows'
    BY DEF IInv, TypeOK, HoldsStoredRows
  <2>3. RememberedIsDone'
    BY DEF IInv, TypeOK, RememberedIsDone, AtRow
  <2>4. CountersAreBacked'
    BY DEF IInv, TypeOK, CountersAreBacked, AtRow
  <2>5. PublishedIsDone'
    BY DEF IInv, TypeOK, PublishedIsDone
  <2>6. GivenUpAfterRetries'
    BY DEF IInv, TypeOK, GivenUpAfterRetries
  <2>7. BackoffRespected'
    BY DEF IInv, TypeOK, BackoffRespected
  <2> QED
    BY <2>1, <2>2, <2>3, <2>4, <2>5, <2>6, <2>7 DEF IInv
<1>16. ASSUME NEW w \in Workers, NEW e \in Events, CountFailure(w, e) PROVE IInv'
  <2> USE <1>16 DEF CountFailure, database, memory
  <2>1. TypeOK'
    BY DEF IInv, TypeOK
  <2>2. HoldsStoredRows'
    BY DEF IInv, TypeOK, HoldsStoredRows
  <2>3. RememberedIsDone'
    BY DEF IInv, TypeOK, RememberedIsDone, AtRow
  <2>4. CountersAreBacked'
    BY DEF IInv, TypeOK, CountersAreBacked, AtRow
  <2>5. PublishedIsDone'
    BY DEF IInv, TypeOK, PublishedIsDone
  <2>6. GivenUpAfterRetries'
    BY DEF IInv, TypeOK, GivenUpAfterRetries
  <2>7. BackoffRespected'
    BY DEF IInv, TypeOK, BackoffRespected
  <2> QED
    BY <2>1, <2>2, <2>3, <2>4, <2>5, <2>6, <2>7 DEF IInv
<1>17. ASSUME NEW w \in Workers, NEW e \in Events, DeadLetter(w, e) PROVE IInv'
  <2> USE <1>17 DEF DeadLetter, Forget, database, memory
  <2>1. TypeOK'
    BY DEF IInv, TypeOK
  <2>2. HoldsStoredRows'
    BY DEF IInv, TypeOK, HoldsStoredRows
  <2>3. RememberedIsDone'
    BY DEF IInv, TypeOK, RememberedIsDone, AtRow
  <2>4. CountersAreBacked'
    BY DEF IInv, TypeOK, CountersAreBacked, AtRow
  <2>5. PublishedIsDone'
    BY DEF IInv, TypeOK, PublishedIsDone
  <2>6. GivenUpAfterRetries'
    BY DEF IInv, TypeOK, GivenUpAfterRetries, CountersAreBacked, AtRow
  <2>7. BackoffRespected'
    BY DEF IInv, TypeOK, BackoffRespected
  <2> QED
    BY <2>1, <2>2, <2>3, <2>4, <2>5, <2>6, <2>7 DEF IInv
<1>18. ASSUME NEW w \in Workers, NEW e \in Events, DeadLetterFails(w, e) PROVE IInv'
  <2> USE <1>18 DEF DeadLetterFails, EndPoll, database, memory
  <2>1. TypeOK'
    BY DEF IInv, TypeOK
  <2>2. HoldsStoredRows'
    BY DEF IInv, TypeOK, HoldsStoredRows
  <2>3. RememberedIsDone'
    BY DEF IInv, TypeOK, RememberedIsDone, AtRow
  <2>4. CountersAreBacked'
    BY DEF IInv, TypeOK, CountersAreBacked, AtRow
  <2>5. PublishedIsDone'
    BY DEF IInv, TypeOK, PublishedIsDone
  <2>6. GivenUpAfterRetries'
    BY DEF IInv, TypeOK, GivenUpAfterRetries, CountersAreBacked, AtRow
  <2>7. BackoffRespected'
    BY DEF IInv, TypeOK, BackoffRespected
  <2> QED
    BY <2>1, <2>2, <2>3, <2>4, <2>5, <2>6, <2>7 DEF IInv
<1>19. ASSUME NEW w \in Workers, NEW e \in Events, Elapse(w, e) PROVE IInv'
  <2> USE <1>19 DEF Elapse, database, memory
  <2>1. TypeOK'
    BY DEF IInv, TypeOK
  <2>2. HoldsStoredRows'
    BY DEF IInv, TypeOK, HoldsStoredRows
  <2>3. RememberedIsDone'
    BY DEF IInv, TypeOK, RememberedIsDone, AtRow
  <2>4. CountersAreBacked'
    BY DEF IInv, TypeOK, CountersAreBacked, AtRow
  <2>5. PublishedIsDone'
    BY DEF IInv, TypeOK, PublishedIsDone
  <2>6. GivenUpAfterRetries'
    BY DEF IInv, TypeOK, GivenUpAfterRetries
  <2>7. BackoffRespected'
    BY DEF IInv, TypeOK, BackoffRespected
  <2> QED
    BY <2>1, <2>2, <2>3, <2>4, <2>5, <2>6, <2>7 DEF IInv
<1>20. CASE UNCHANGED vars
  BY <1>20 DEF vars, IInv, TypeOK, HoldsStoredRows, RememberedIsDone, AtRow,
               CountersAreBacked, PublishedIsDone, GivenUpAfterRetries, BackoffRespected
<1> QED
  BY <1>1, <1>2, <1>3, <1>4, <1>5, <1>6, <1>7, <1>8, <1>9, <1>10, <1>11, <1>12, <1>13, <1>14, <1>15, <1>16, <1>17, <1>18, <1>19, <1>20 DEF Next, HandleRow
-----------------------------------------------------------------------------
\* The inductive invariant holds throughout.
THEOREM Invariance == Spec => []IInv
<1>1. Init => IInv
  BY InitIInv
<1>2. IInv /\ [Next]_vars => IInv'
  BY NextIInv
<1> QED
  BY <1>1, <1>2, PTL DEF Spec

\* Tables, worker memory and counters are well typed; in particular no counter of a
\* worker passes OUTBOX_MAX_ATTEMPTS (outbox-relay.service.ts 104-242).
THEOREM RelayTypeCorrect == Spec => []TypeOK
<1>1. IInv => TypeOK
  BY DEF IInv
<1> QED
  BY <1>1, Invariance, PTL

\* A published event has been delivered and its entry projected, for any number of
\* workers, crashes, lost answers and overlapping claims (lines 122-143).
THEOREM RelayPublishedIsDone == Spec => []PublishedIsDone
<1>1. IInv => PublishedIsDone
  BY DEF IInv
<1> QED
  BY <1>1, Invariance, PTL

\* A dead-lettered event has failed more than OUTBOX_MAX_ATTEMPTS times (lines 211-227).
THEOREM RelayGivesUpLate == Spec => []GivenUpAfterRetries
<1>1. IInv => GivenUpAfterRetries
  BY DEF IInv
<1> QED
  BY <1>1, Invariance, PTL

\* No worker delivers an event whose backoff it is waiting for (lines 107-111, 230).
THEOREM RelayRespectsBackoff == Spec => []BackoffRespected
<1>1. IInv => BackoffRespected
  BY DEF IInv
<1> QED
  BY <1>1, Invariance, PTL
-----------------------------------------------------------------------------
(* What a worker remembers.                                                *)

\* Only pruning takes more than the events just marked published out of a map, and it
\* takes none whose backoff is running.
LEMMA PrunedWhenFull ==
  ASSUME IInv, NEW w \in Workers, MarkPublished(w), NEW e \in Events,
         ForgetsUnsettled(w, e)
  PROVE  /\ e \notin waiting[w]
         /\ Cardinality({f \in Events \ okIds[w] : attempts[w][f] > 0}) > PruneThreshold
<1> DEFINE kept == {f \in Events : attempts[w][f] > 0} \ okIds[w]
           full == Cardinality(kept) > PruneThreshold
           out == okIds[w] \cup (IF full THEN Due(w) ELSE {})
<1>1. Forget(w, out)
  BY DEF MarkPublished
<1>2. e \in out
  <2>1. attempts \in [Workers -> [Events -> 0..MaxAttempts]]
    BY DEF IInv, TypeOK
  <2> HIDE DEF out
  <2>2. e \notin out => attempts'[w][e] = attempts[w][e]
    BY <1>1, <2>1 DEF Forget
  <2> QED
    BY <2>2 DEF ForgetsUnsettled
<1>3. e \notin okIds[w]
  <2> SUFFICES ASSUME e \in okIds[w] PROVE FALSE
    OBVIOUS
  <2>1. SetPublished(okIds[w])
    BY DEF MarkPublished
  <2>2. status'[e] # "pending"
    BY <2>1 DEF SetPublished
  <2> QED
    BY <2>2 DEF ForgetsUnsettled
<1>4. full /\ e \in Due(w)
  <2> HIDE DEF full
  <2> QED
    BY <1>2, <1>3
<1>5. kept = {f \in Events \ okIds[w] : attempts[w][f] > 0}
  OBVIOUS
<1> QED
  BY <1>4, <1>5 DEF Due

\* Where the counters of unsettled events go at a step.
LEMMA CountersMove ==
  ASSUME IInv, [Next]_vars,
         NEW v \in Workers, NEW f \in Events, ForgetsUnsettled(v, f)
  PROVE  /\ f \notin waiting[v]
         /\ Cardinality({g \in Events \ okIds[v] : attempts[v][g] > 0}) > PruneThreshold
<1> USE DEF ForgetsUnsettled
<1>0. /\ attempts \in [Workers -> [Events -> Nat]]
      /\ status \in [Events -> {"absent", "pending", "published", "dead_letter"}]
      /\ pc \in [Workers -> {"down", "idle", "claim", "publish", "project", "failed"}]
  BY OutboxRelayAssumption DEF IInv, TypeOK
<1>1. attempts' # attempts
  OBVIOUS
<1>2. ASSUME NEW w \in Workers, Die(w)
      PROVE  FALSE
  <2>1. pc'[w] = "down" /\ (v # w => attempts'[v] = attempts[v])
    BY <1>0, <1>2 DEF Die
  <2> QED
    BY <2>1
<1>3. ASSUME NEW w \in Workers, NEW e \in Events, CountFailure(w, e)
      PROVE  FALSE
  <2>1. attempts'[v][f] = attempts[v][f] \/ attempts'[v][f] = attempts[v][f] + 1
    BY <1>0, <1>3 DEF CountFailure
  <2>2. attempts[v][f] \in Nat
    BY <1>0
  <2> QED
    BY <2>1, <2>2
<1>4. ASSUME NEW w \in Workers, NEW e \in Events, DeadLetter(w, e)
      PROVE  FALSE
  <2>1. v = w /\ f = e
    BY <1>0, <1>4 DEF DeadLetter, Forget
  <2> QED
    BY <1>0, <1>4, <2>1 DEF DeadLetter
<1>5. ASSUME NEW w \in Workers, MarkPublished(w)
      PROVE  v = w
  BY <1>0, <1>5 DEF MarkPublished, Forget
<1>6. \/ attempts' = attempts
      \/ \E w \in Workers : \/ Die(w) \/ MarkPublished(w)
                             \/ \E e \in Events : CountFailure(w, e) \/ DeadLetter(w, e)
  <2>1. ASSUME NEW w \in Workers, NEW e \in Events, HandleRow(w, e)
        PROVE  attempts' = attempts \/ CountFailure(w, e) \/ DeadLetter(w, e)
    BY <2>1 DEF HandleRow, PublishThrows, PublishOk, PublishFails, ProjectOk, ProjectFails,
                Remember, NoticeFailure, DeadLetterFails, memory
  <2>2. ASSUME NEW w \in Workers,
               \/ Start(w) \/ Shutdown(w) \/ Poll(w) \/ ClaimCommit(w) \/ ClaimFails(w)
               \/ MarkFails(w) \/ \E e \in Events : Elapse(w, e)
        PROVE  attempts' = attempts
    BY <2>2 DEF Start, Shutdown, Poll, ClaimCommit, ClaimFails, MarkFails, Elapse, memory
  <2>3. ASSUME NEW w \in Workers, Crash(w) \/ Exit(w)
        PROVE  Die(w)
    BY <2>3 DEF Crash, Exit
  <2>4. ASSUME NEW e \in Events, Enqueue(e)
        PROVE  attempts' = attempts
    BY <2>4 DEF Enqueue, memory
  <2>5. CASE UNCHANGED vars
    BY <2>5 DEF vars
  <2> QED
    BY <2>1, <2>2, <2>3, <2>4, <2>5 DEF Next
<1> QED
  BY <1>1, <1>2, <1>3, <1>4, <1>5, <1>6, PrunedWhenFull

\* A worker that lives on forgets the failures of an unsettled event only by pruning a
\* map above its threshold, and then of no event whose backoff runs (lines 147, 208,
\* 226, 237-241): handleFailure, markPublished and every failing statement keep them.
THEOREM RelayForgetsOnlyWhenFull == Spec => ForgottenOnlyWhenFull
<1>1. IInv /\ [Next]_vars =>
        [\A w \in Workers, e \in Events : ForgetsUnsettled(w, e) =>
           /\ e \notin waiting[w]
           /\ Cardinality({f \in Events \ okIds[w] : attempts[w][f] > 0})
                > PruneThreshold]_vars
  BY CountersMove
<1> QED
  BY <1>1, Invariance, PTL DEF Spec, ForgottenOnlyWhenFull
-----------------------------------------------------------------------------
\* The UPDATE of markPublished publishes delivered and projected events only.
LEMMA SetPublishedRefines ==
  ASSUME IInv, NEW w \in Workers, NEW ids \in SUBSET okIds[w], SetPublished(ids),
         UNCHANGED <<received, projected>>
  PROVE  Lifecycle!Next
<1> DEFINE S == {e \in ids : status[e] = "pending"}
<1>1. S \in SUBSET Events
  BY DEF IInv, TypeOK
<1>2. \A e \in S : /\ status[e] = "pending"
                   /\ e \in received
                   /\ EntryOf[e] \in projected \cup {None}
  BY DEF IInv, RememberedIsDone
<1>3. status' = [e \in Events |-> IF e \in S THEN "published" ELSE status[e]]
  BY DEF SetPublished
<1>4. Lifecycle!Publish(S)
  BY <1>2, <1>3 DEF Lifecycle!Publish
<1> QED
  BY <1>1, <1>4 DEF Lifecycle!Next

\* project() brings the entry of a delivered event into the read model, or nothing.
LEMMA ProjectionRefines ==
  ASSUME IInv, NEW w \in Workers, NEW e \in Events, pc[w] = "project", AtRow(w, e),
         NEW N \in SUBSET ({EntryOf[e]} \ {None}), projected' = projected \cup N,
         UNCHANGED <<status, received>>
  PROVE  Lifecycle!Next \/ UNCHANGED projected
<1>1. CASE N \subseteq projected
  BY <1>1
<1>2. CASE ~(N \subseteq projected)
  <2>1. N = {EntryOf[e]} /\ EntryOf[e] \in Entries \ projected
    BY <1>2 DEF Entries
  <2>2. e \in received
    BY DEF IInv, RememberedIsDone, AtRow
  <2>3. Lifecycle!Project(e)
    BY <2>1, <2>2 DEF Lifecycle!Project, Lifecycle!Entries, Entries
  <2> QED
    BY <2>3 DEF Lifecycle!Next
<1> QED
  BY <1>1, <1>2

\* Every step of a worker is a step of the lifecycle, or none.
LEMMA StepRefines == IInv /\ [Next]_vars => [Lifecycle!Next]_<<status, received, projected>>
<1> SUFFICES ASSUME IInv, [Next]_vars
             PROVE  Lifecycle!Next \/ UNCHANGED <<status, received, projected>>
  OBVIOUS
<1>1. ASSUME NEW e \in Events, Enqueue(e) PROVE Lifecycle!Next
  BY <1>1 DEF Enqueue, Lifecycle!Next, Lifecycle!Enqueue
<1>2. ASSUME NEW w \in Workers,
             \/ Start(w) \/ Crash(w) \/ Shutdown(w) \/ Exit(w)
             \/ Poll(w) \/ ClaimCommit(w) \/ ClaimFails(w)
      PROVE  UNCHANGED <<status, received, projected>>
  BY <1>2 DEF Start, Crash, Shutdown, Exit, Die, Poll, ClaimCommit, ClaimFails, database
<1>3. ASSUME NEW w \in Workers, NEW e \in Events,
             Elapse(w, e) \/ PublishThrows(w, e) \/ CountFailure(w, e)
      PROVE  UNCHANGED <<status, received, projected>>
  BY <1>3 DEF Elapse, PublishThrows, CountFailure, database
<1>4. ASSUME NEW w \in Workers, NEW e \in Events, PublishOk(w, e) \/ PublishFails(w, e)
      PROVE  Lifecycle!Next \/ UNCHANGED <<status, received, projected>>
  <2>1. status[e] # "absent"
    BY <1>4 DEF PublishOk, PublishFails, AtRow, IInv, HoldsStoredRows
  <2>2. received' = received \/ received' = received \cup {e}
    <3>1. CASE PublishOk(w, e)
      BY <3>1 DEF PublishOk
    <3>2. CASE PublishFails(w, e)
      <4>1. PICK R \in SUBSET {e} : received' = received \cup R
        BY <3>2 DEF PublishFails
      <4> QED
        BY <4>1
    <3> QED
      BY <1>4, <3>1, <3>2
  <2>3. UNCHANGED <<status, projected>>
    BY <1>4 DEF PublishOk, PublishFails
  <2>4. received' = received \cup {e} => Lifecycle!Deliver(e)
    BY <2>1, <2>3 DEF Lifecycle!Deliver
  <2> QED
    BY <2>2, <2>3, <2>4 DEF Lifecycle!Next
<1>5. ASSUME NEW w \in Workers, NEW e \in Events, ProjectOk(w, e)
      PROVE  Lifecycle!Next \/ UNCHANGED <<status, received, projected>>
  BY <1>5, ProjectionRefines DEF ProjectOk, Remember
<1>6. ASSUME NEW w \in Workers, NEW e \in Events, ProjectFails(w, e)
      PROVE  Lifecycle!Next \/ UNCHANGED <<status, received, projected>>
  <2>1. PICK N \in SUBSET ({EntryOf[e]} \ {None}) : projected' = projected \cup N
    <3>1. CASE UNCHANGED projected
      <4>1. {} \in SUBSET ({EntryOf[e]} \ {None}) /\ projected' = projected \cup {}
        BY <3>1
      <4> QED
        BY <4>1
    <3>2. CASE ~UNCHANGED projected
      BY <1>6, <3>2 DEF ProjectFails, NoticeFailure
    <3> QED
      BY <3>1, <3>2
  <2> QED
    BY <1>6, <2>1, ProjectionRefines DEF ProjectFails, NoticeFailure
<1>7. ASSUME NEW w \in Workers, NEW e \in Events,
             DeadLetter(w, e) \/ DeadLetterFails(w, e)
      PROVE  Lifecycle!Next \/ UNCHANGED <<status, received, projected>>
  <2>1. UNCHANGED <<received, projected>>
    BY <1>7 DEF DeadLetter, DeadLetterFails
  <2>2. \/ status' = status
        \/ status[e] = "pending" /\ status' = [status EXCEPT ![e] = "dead_letter"]
    <3>1. CASE DeadLetter(w, e)
      BY <3>1 DEF DeadLetter
    <3>2. CASE DeadLetterFails(w, e) /\ ~UNCHANGED status
      <4>1. PICK D \in SUBSET {e} :
              status' = [f \in Events |-> IF f \in D /\ status[f] = "pending"
                                            THEN "dead_letter" ELSE status[f]]
        BY <3>2 DEF DeadLetterFails
      <4>2. D = {e} \/ D = {}
        OBVIOUS
      <4> QED
        BY <4>1, <4>2 DEF IInv, TypeOK
    <3> QED
      BY <1>7, <3>1, <3>2
  <2>3. CASE status[e] = "pending" /\ status' = [status EXCEPT ![e] = "dead_letter"]
    BY <2>1, <2>3 DEF Lifecycle!Next, Lifecycle!GiveUp
  <2> QED
    BY <2>1, <2>2, <2>3
<1>8. ASSUME NEW w \in Workers, MarkPublished(w) \/ MarkFails(w)
      PROVE  Lifecycle!Next \/ UNCHANGED <<status, received, projected>>
  <2>1. UNCHANGED <<received, projected>>
    BY <1>8 DEF MarkPublished, MarkFails
  <2>2. \/ UNCHANGED status
        \/ \E ids \in SUBSET okIds[w] : SetPublished(ids)
    <3>1. CASE MarkPublished(w)
      BY <3>1 DEF MarkPublished
    <3>2. CASE MarkFails(w)
      BY <3>2 DEF MarkFails
    <3> QED
      BY <1>8, <3>1, <3>2
  <2> QED
    BY <2>1, <2>2, SetPublishedRefines
<1>9. CASE UNCHANGED vars
  BY <1>9 DEF vars
<1> QED
  BY <1>1, <1>2, <1>3, <1>4, <1>5, <1>6, <1>7, <1>8, <1>9 DEF Next, HandleRow

\* Any number of relay workers implement the outbox's lifecycle: at-least-once
\* delivery before publication, projection once and after delivery, final outcomes
\* (outbox-relay.service.ts 29-40 and 104-235).
THEOREM RelayImplementsLifecycle == Spec => ImplementsLifecycle
<1>1. Init => Lifecycle!Init
  BY DEF Init, Lifecycle!Init
<1>2. IInv /\ [Next]_vars => [Lifecycle!Next]_<<status, received, projected>>
  BY StepRefines
<1> QED
  BY <1>1, <1>2, Invariance, PTL DEF Spec, ImplementsLifecycle, Lifecycle!Spec
=============================================================================
