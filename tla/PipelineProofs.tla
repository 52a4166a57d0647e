--------------------------- MODULE PipelineProofs ---------------------------
(***************************************************************************)
(* The relay and the projection composed: with the calls of project()      *)
(* taken apart the workers still implement the relay of OutboxRelay, and   *)
(* their calls are behaviours of Projection, so that what is proved of     *)
(* each holds of both together; from the two, what neither says alone: a   *)
(* published event is counted, a given-up one is whole or not there.       *)
(***************************************************************************)
EXTENDS Pipeline, TLAPS

\* The components' theorems, at this module's constants and variables.
RP == INSTANCE OutboxRelayProofs
        WITH EntryOf <- EntryOfEvent, pc <- loop, Repaired <- Workers,
             DatabaseFails <- TRUE
PP == INSTANCE ProjectionProofs WITH EntryOf <- EntryOfLine, pc <- call

\* A call is for the row its worker's loop is at.
CallsAreForRows ==
  \A w \in Workers : call[w] # "idle" =>
    /\ loop[w] = "project"
    /\ \E e \in batch[w] : R!AtRow(w, e) /\ EntryOfEvent[e] = entry[w]

\* The read model holds entries of delivered events only.
ProjectedIsDelivered == \A n \in projected : \E e \in received : EntryOfEvent[e] = n

\* The inductive invariant.
IInv ==
  /\ RP!IInv
  /\ PP!IInv
  /\ CallsAreForRows
  /\ ProjectedIsDelivered
-----------------------------------------------------------------------------
(* A component and the module of its proofs say the same.                  *)

LEMMA SameRelay ==
  /\ RP!OutboxRelayAssumption
  /\ RP!Init = R!Init /\ [RP!Next]_RP!vars = [R!Next]_R!vars
  /\ RP!TypeOK = R!TypeOK /\ RP!PublishedIsDone = R!PublishedIsDone
<1>1. RP!OutboxRelayAssumption
  BY PipelineAssumption DEF R!OutboxRelayAssumption, RP!OutboxRelayAssumption
<1>2. /\ RP!Init = R!Init
      /\ RP!TypeOK = R!TypeOK /\ RP!PublishedIsDone = R!PublishedIsDone
  BY DEF RP!Init, R!Init, RP!NoAttempts, R!NoAttempts,
         RP!TypeOK, R!TypeOK, RP!Entries, R!Entries,
         RP!PublishedIsDone, R!PublishedIsDone
<1>3. RP!Next = R!Next
  BY DEF RP!Next, R!Next, RP!Enqueue, R!Enqueue, RP!Start, R!Start, RP!Crash, R!Crash,
         RP!Shutdown, R!Shutdown, RP!Exit, R!Exit, RP!Poll, R!Poll,
         RP!ClaimCommit, R!ClaimCommit, RP!ClaimFails, R!ClaimFails,
         RP!MarkPublished, R!MarkPublished, RP!MarkFails, R!MarkFails,
         RP!HandleRow, R!HandleRow, RP!Elapse, R!Elapse,
         RP!PublishThrows, R!PublishThrows, RP!PublishOk, R!PublishOk,
         RP!PublishFails, R!PublishFails, RP!ProjectOk, R!ProjectOk,
         RP!ProjectFails, R!ProjectFails, RP!CountFailure, R!CountFailure,
         RP!DeadLetter, R!DeadLetter, RP!DeadLetterFails, R!DeadLetterFails,
         RP!Remember, R!Remember, RP!NoticeFailure, R!NoticeFailure,
         RP!AtRow, R!AtRow, RP!LockedByOthers, R!LockedByOthers,
         RP!Claimable, R!Claimable, RP!FirstRows, R!FirstRows, RP!Forget, R!Forget,
         RP!Due, R!Due, RP!Failed, R!Failed, RP!EndPoll, R!EndPoll, RP!Die, R!Die,
         RP!Interrupt, R!Interrupt, RP!SetPublished, R!SetPublished,
         RP!database, R!database, RP!memory, R!memory, RP!NoAttempts, R!NoAttempts,
         RP!Cardinality, R!Cardinality
<1> QED
  BY <1>1, <1>2, <1>3 DEF RP!vars, R!vars

LEMMA SameProjection ==
  /\ PP!ProjectionAssumption
  /\ PP!Init = P!Init /\ [PP!Next]_PP!vars = [P!Next]_P!vars
  /\ PP!TypeOK = P!TypeOK
<1>1. PP!ProjectionAssumption
  BY PipelineAssumption
     DEF P!ProjectionAssumption, PP!ProjectionAssumption, P!Entries, PP!Entries
<1>2. PP!Init = P!Init /\ PP!TypeOK = P!TypeOK
  BY DEF PP!Init, P!Init, PP!NoLines, P!NoLines,
         PP!TypeOK, P!TypeOK, PP!Entries, P!Entries
<1>3. PP!Next = P!Next
  BY DEF PP!Next, P!Next, PP!Call, P!Call, PP!Step, P!Step, PP!Guard, P!Guard,
         PP!Insert, P!Insert, PP!Upsert, P!Upsert, PP!Commit, P!Commit,
         PP!CommitFails, P!CommitFails, PP!StatementFails, P!StatementFails,
         PP!DeadlockVictim, P!DeadlockVictim, PP!InDeadlock, P!InDeadlock,
         PP!WaitsFor, P!WaitsFor, PP!Blocked, P!Blocked, PP!Locks, P!Locks,
         PP!Inserted, P!Inserted, PP!Throw, P!Throw, PP!Leave, P!Leave,
         PP!AlreadyProjected, P!AlreadyProjected, PP!GoOn, P!GoOn,
         PP!Install, P!Install, PP!LinesOf, P!LinesOf, PP!Entries, P!Entries,
         PP!tables, P!tables, PP!NoLines, P!NoLines
<1> QED
  BY <1>1, <1>2, <1>3 DEF PP!vars, P!vars
-----------------------------------------------------------------------------
(* Each step is a step of the relay, and one of the projection.            *)

\* A worker is at one row at a time: the one its call is for.
LEMMA TheRow ==
  ASSUME IInv, NEW w \in Workers, call[w] # "idle", NEW e \in Events, R!AtRow(w, e)
  PROVE  entry[w] = EntryOfEvent[e] /\ entry[w] # None /\ loop[w] = "project"
<1>1. PICK f \in batch[w] : R!AtRow(w, f) /\ EntryOfEvent[f] = entry[w]
  BY DEF IInv, CallsAreForRows
<1>2. e <= f /\ f <= e /\ e \in Nat /\ f \in Nat
  BY <1>1, PipelineAssumption, SameRelay
     DEF R!AtRow, R!OutboxRelayAssumption, IInv, RP!IInv, R!TypeOK
<1>3. e = f
  BY <1>2
<1>4. entry[w] \in P!Entries
  BY SameProjection DEF IInv, PP!IInv, PP!LoopShape, PP!Entries, P!Entries
<1> QED
  BY <1>1, <1>3, <1>4, PipelineAssumption
     DEF P!ProjectionAssumption, IInv, CallsAreForRows

\* What the end of a call does to the read model.
LEMMA CallEnds ==
  ASSUME IInv, NEW w \in Workers,
         \/ P!Guard(w) \/ P!Insert(w) \/ P!Upsert(w) \/ P!Commit(w)
         \/ P!CommitFails(w) \/ P!StatementFails(w) \/ P!DeadlockVictim(w)
  PROVE  /\ call[w] # "idle"
         /\ projected' \in {projected, projected \cup {entry[w]}}
         /\ P!Guard(w) \/ P!Insert(w) \/ P!Upsert(w) =>
              projected' = projected /\ (call'[w] = "idle" => entry[w] \in projected)
         /\ P!Commit(w) => projected' = projected \cup {entry[w]}
<1>1. call \in [Workers -> {"idle", "guard", "insert", "upsert", "commit"}]
  BY SameProjection DEF IInv, PP!IInv, P!TypeOK
<1>2. P!Guard(w) \/ P!Insert(w) \/ P!Upsert(w) =>
        /\ call[w] # "idle" /\ projected' = projected
        /\ call'[w] = "idle" => entry[w] \in projected
  BY <1>1 DEF P!Guard, P!Insert, P!Upsert, P!AlreadyProjected, P!GoOn, P!tables
<1>3. P!Commit(w) => call[w] # "idle" /\ projected' = projected \cup {entry[w]}
  BY DEF P!Commit, P!Install
<1>4. P!CommitFails(w) =>
        call[w] # "idle" /\ projected' \in {projected, projected \cup {entry[w]}}
  BY DEF P!CommitFails, P!Install, P!tables
<1>5. P!StatementFails(w) => call[w] # "idle" /\ projected' = projected
  BY DEF P!StatementFails, P!Throw, P!tables
<1>6. P!DeadlockVictim(w) => call[w] # "idle" /\ projected' = projected
  BY DEF P!DeadlockVictim, P!InDeadlock, P!WaitsFor, P!Throw, P!tables
<1> QED
  BY <1>2, <1>3, <1>4, <1>5, <1>6

\* Every step is a step of the relay, which sees a call only when it ends.
LEMMA RelaySteps ==
  ASSUME IInv, [Next]_vars
  PROVE  [R!Next]_R!vars
<1> USE DEF R!vars, relay
<1>1. ASSUME NEW w \in Workers, NEW e \in Events,
             Return(w, e)
      PROVE  R!ProjectOk(w, e)
  <2>1. R!Remember(w, e) /\ R!AtRow(w, e)
    BY <1>1 DEF Return, R!Remember
  <2>2. call[w] # "idle" /\ projected' = projected \cup {entry[w]}
    BY <1>1, CallEnds DEF Return
  <2>3. entry[w] = EntryOfEvent[e] /\ entry[w] # None
    BY <2>1, <2>2, TheRow
  <2> QED
    BY <2>1, <2>2, <2>3 DEF R!ProjectOk
<1>2. ASSUME NEW w \in Workers, NEW e \in Events,
             Refused(w, e) \/ Throw(w, e)
      PROVE  R!ProjectFails(w, e)
  <2>1. CASE Refused(w, e)
    BY <2>1 DEF Refused, R!ProjectFails
  <2>2. CASE Throw(w, e)
    <3>1. R!NoticeFailure(w, e) /\ R!AtRow(w, e)
      BY <2>2 DEF Throw, R!NoticeFailure
    <3>2. call[w] # "idle" /\ projected' \in {projected, projected \cup {entry[w]}}
      BY <2>2, CallEnds DEF Throw
    <3>3. entry[w] = EntryOfEvent[e] /\ entry[w] # None
      BY <3>1, <3>2, TheRow
    <3>4. \E N \in SUBSET ({EntryOfEvent[e]} \ {None}) : projected' = projected \cup N
      <4>1. CASE projected' = projected
        <5> WITNESS {} \in SUBSET ({EntryOfEvent[e]} \ {None})
        <5> QED
          BY <4>1
      <4>2. CASE projected' = projected \cup {entry[w]}
        <5>1. {EntryOfEvent[e]} \in SUBSET ({EntryOfEvent[e]} \ {None})
          BY <3>3
        <5> QED
          BY <3>3, <4>2, <5>1
      <4> QED
        BY <3>2, <4>1, <4>2
    <3> QED
      BY <3>1, <3>4 DEF R!ProjectFails
  <2> QED
    BY <1>2, <2>1, <2>2
<1>3. ASSUME NEW w \in Workers, NEW e \in Events, Begin(w, e)
      PROVE  UNCHANGED R!vars
  BY <1>3 DEF Begin, P!Call, P!tables
<1>4. ASSUME NEW w \in Workers, Continue(w)
      PROVE  UNCHANGED R!vars
  BY <1>4, CallEnds DEF Continue
<1>5. CASE UNCHANGED vars
  BY <1>5 DEF vars
<1> QED
  BY <1>1, <1>2, <1>3, <1>4, <1>5 DEF Next, Alone, Crash, Exit, R!Next, R!HandleRow

\* The relay's own steps leave the read model alone.
LEMMA AloneSteps ==
  ASSUME NEW w, NEW e,
         \/ R!Enqueue(e) \/ R!Start(w) \/ R!Crash(w) \/ R!Shutdown(w) \/ R!Exit(w)
         \/ R!Elapse(w, e) \/ R!Poll(w) \/ R!ClaimCommit(w) \/ R!ClaimFails(w)
         \/ R!PublishThrows(w, e) \/ R!PublishOk(w, e) \/ R!PublishFails(w, e)
         \/ R!CountFailure(w, e) \/ R!DeadLetter(w, e) \/ R!DeadLetterFails(w, e)
         \/ R!MarkPublished(w) \/ R!MarkFails(w)
  PROVE  UNCHANGED projected
  BY DEF R!Enqueue, R!Start, R!Crash, R!Shutdown, R!Exit, R!Elapse, R!Poll,
         R!ClaimCommit, R!ClaimFails, R!PublishThrows, R!PublishOk, R!PublishFails,
         R!CountFailure, R!DeadLetter, R!DeadLetterFails, R!MarkPublished, R!MarkFails,
         R!Die, R!database

\* Every step is a step of the projection, or none of its.
LEMMA ProjectionSteps ==
  ASSUME IInv, [Next]_vars
  PROVE  [P!Next]_P!vars
<1> USE DEF P!vars, calls
<1>1. ASSUME NEW w \in Workers, NEW e \in Events, Begin(w, e)
      PROVE  P!Next
  <2>1. EntryOfEvent[e] \in P!Entries
    BY <1>1, PipelineAssumption DEF Begin, R!Entries
  <2> QED
    BY <1>1, <2>1 DEF Begin, P!Next
<1>2. ASSUME NEW w \in Workers, NEW e \in Events, Continue(w) \/ Return(w, e) \/ Throw(w, e)
      PROVE  P!Next
  BY <1>2 DEF Continue, Return, Throw, P!Next, P!Step
<1>3. ASSUME NEW w \in Workers, Continue(w)
      PROVE  P!Next
  BY <1>3 DEF Continue, P!Next, P!Step
<1>4. ASSUME NEW w \in Workers, Crash(w)
      PROVE  [P!Next]_P!vars
  <2>1. UNCHANGED projected
    BY <1>4, AloneSteps DEF Crash
  <2>2. CASE call[w] = "idle"
    BY <1>4, <2>1, <2>2 DEF Crash
  <2>3. CASE call[w] \in {"guard", "insert", "upsert"}
    BY <1>4, <2>3 DEF Crash, P!StatementFails, P!Next
  <2>4. CASE call[w] = "commit"
    BY <1>4, <2>4 DEF Crash, P!Throw, P!CommitFails, P!Step, P!Next
  <2>5. call[w] \in {"idle", "guard", "insert", "upsert", "commit"}
    BY SameProjection DEF IInv, PP!IInv, P!TypeOK
  <2> QED
    BY <2>2, <2>3, <2>4, <2>5
<1>5. ASSUME NEW w \in Workers, NEW e \in Events, Refused(w, e)
      PROVE  UNCHANGED P!vars
  BY <1>5 DEF Refused
<1>6. ASSUME NEW w, NEW e,
             \/ Alone(R!Enqueue(e)) \/ Exit(w) \/ Alone(R!Start(w))
             \/ Alone(R!Shutdown(w)) \/ Alone(R!Elapse(w, e)) \/ Alone(R!Poll(w))
             \/ Alone(R!ClaimCommit(w)) \/ Alone(R!ClaimFails(w))
             \/ Alone(R!PublishOk(w, e))
             \/ Alone(R!PublishFails(w, e)) \/ Alone(R!CountFailure(w, e))
             \/ Alone(R!DeadLetter(w, e)) \/ Alone(R!DeadLetterFails(w, e))
             \/ Alone(R!MarkPublished(w)) \/ Alone(R!MarkFails(w))
      PROVE  UNCHANGED P!vars
  BY <1>6, AloneSteps DEF Alone, Exit
<1>7. CASE UNCHANGED vars
  BY <1>7 DEF vars
<1> QED
  BY <1>1, <1>2, <1>3, <1>4, <1>5, <1>6, <1>7 DEF Next

-----------------------------------------------------------------------------
(* The link between the two is kept.                                       *)

\* A worker of the relay changes nobody's place in the loop but its own; when it is
\* at project() it stays there unless the call ends or the process does.
LEMMA PlacesKept ==
  ASSUME IInv, NEW w, NEW e,
         \/ R!Enqueue(e) \/ R!Start(w) \/ R!Shutdown(w) \/ R!Elapse(w, e) \/ R!Poll(w)
         \/ R!ClaimCommit(w) \/ R!ClaimFails(w)
         \/ R!PublishOk(w, e) \/ R!PublishFails(w, e)
         \/ R!CountFailure(w, e) \/ R!DeadLetter(w, e) \/ R!DeadLetterFails(w, e)
         \/ R!MarkPublished(w) \/ R!MarkFails(w)
  PROVE  \A v \in Workers : loop[v] = "project" =>
           loop'[v] = "project" /\ batch'[v] = batch[v]
<1>1. /\ loop \in [Workers -> {"down", "idle", "claim", "publish", "project", "failed"}]
      /\ batch \in [Workers -> SUBSET Events]
  BY SameRelay DEF IInv, RP!IInv, R!TypeOK
<1> QED
  BY <1>1 DEF R!Enqueue, R!Start, R!Shutdown, R!Elapse, R!Poll,
         R!ClaimCommit, R!ClaimFails, R!PublishOk, R!PublishFails,
         R!CountFailure, R!DeadLetter, R!DeadLetterFails, R!MarkPublished, R!MarkFails,
         R!Failed, R!EndPoll

LEMMA OthersPlacesKept ==
  ASSUME IInv, NEW w, NEW e,
         R!Crash(w) \/ R!Exit(w) \/ R!Remember(w, e) \/ R!NoticeFailure(w, e)
  PROVE  \A v \in Workers \ {w} : loop'[v] = loop[v] /\ batch'[v] = batch[v]
<1>1. /\ loop \in [Workers -> {"down", "idle", "claim", "publish", "project", "failed"}]
      /\ batch \in [Workers -> SUBSET Events]
  BY SameRelay DEF IInv, RP!IInv, R!TypeOK
<1> QED
  BY <1>1 DEF R!Crash, R!Exit, R!Die, R!Remember, R!NoticeFailure, R!Failed, R!memory

\* A call changes nothing of the others, and keeps its entry until it ends.
LEMMA CallsKept ==
  ASSUME IInv, NEW w \in Workers,
         \/ P!Guard(w) \/ P!Insert(w) \/ P!Upsert(w) \/ P!Commit(w) \/ P!Throw(w)
         \/ P!CommitFails(w) \/ P!StatementFails(w) \/ P!DeadlockVictim(w)
  PROVE  /\ \A v \in Workers \ {w} : call'[v] = call[v] /\ entry'[v] = entry[v]
         /\ call'[w] # "idle" => entry'[w] = entry[w]
         /\ \/ P!Throw(w) \/ P!CommitFails(w) \/ P!StatementFails(w)
            \/ P!DeadlockVictim(w)
            => call'[w] = "idle"
<1>1. /\ call \in [Workers -> {"idle", "guard", "insert", "upsert", "commit"}]
      /\ entry \in [Workers -> P!Entries \cup {None}]
  BY SameProjection DEF IInv, PP!IInv, P!TypeOK
<1>2. P!Leave(w) => /\ \A v \in Workers \ {w} : call'[v] = call[v] /\ entry'[v] = entry[v]
                    /\ call'[w] = "idle"
  BY <1>1 DEF P!Leave
<1>3. P!Guard(w) \/ P!Insert(w) \/ P!Upsert(w) => P!Leave(w) \/
        /\ \A v \in Workers \ {w} : call'[v] = call[v]
        /\ entry' = entry
  BY <1>1 DEF P!Guard, P!Insert, P!Upsert, P!AlreadyProjected, P!GoOn
<1>4. \/ P!Commit(w) \/ P!Throw(w) \/ P!CommitFails(w) \/ P!StatementFails(w)
      \/ P!DeadlockVictim(w)
      => P!Leave(w)
  BY DEF P!Commit, P!Throw, P!CommitFails, P!StatementFails, P!DeadlockVictim
<1> QED
  BY <1>2, <1>3, <1>4

LEMMA LinkStep ==
  ASSUME IInv, [Next]_vars
  PROVE  CallsAreForRows'
<1> USE DEF relay, calls
<1>1. ASSUME NEW w, NEW e,
             \/ R!Enqueue(e) \/ R!Start(w) \/ R!Shutdown(w) \/ R!Elapse(w, e) \/ R!Poll(w)
             \/ R!ClaimCommit(w) \/ R!ClaimFails(w)
             \/ R!PublishOk(w, e) \/ R!PublishFails(w, e)
             \/ R!CountFailure(w, e) \/ R!DeadLetter(w, e) \/ R!DeadLetterFails(w, e)
             \/ R!MarkPublished(w) \/ R!MarkFails(w),
             UNCHANGED calls
      PROVE  CallsAreForRows'
  BY <1>1, PlacesKept DEF IInv, CallsAreForRows, R!AtRow
<1>2. ASSUME NEW w \in Workers, Exit(w)
      PROVE  CallsAreForRows'
  BY <1>2, OthersPlacesKept DEF IInv, CallsAreForRows, R!AtRow, Exit, Alone
<1>3. ASSUME NEW w \in Workers, Crash(w)
      PROVE  CallsAreForRows'
  <2>1. /\ \A v \in Workers \ {w} : call'[v] = call[v] /\ entry'[v] = entry[v]
        /\ call'[w] = "idle"
    BY <1>3, CallsKept DEF Crash
  <2> QED
    BY <1>3, <2>1, OthersPlacesKept DEF IInv, CallsAreForRows, R!AtRow, Crash
<1>4. ASSUME NEW w \in Workers, NEW e \in Events, Begin(w, e)
      PROVE  CallsAreForRows'
  <2>1. /\ call \in [Workers -> {"idle", "guard", "insert", "upsert", "commit"}]
        /\ entry \in [Workers -> P!Entries \cup {None}]
    BY SameProjection DEF IInv, PP!IInv, P!TypeOK
  <2>2. /\ \A v \in Workers \ {w} : call'[v] = call[v] /\ entry'[v] = entry[v]
        /\ entry'[w] = EntryOfEvent[e]
    BY <1>4, <2>1 DEF Begin, P!Call
  <2> QED
    BY <1>4, <2>2 DEF IInv, CallsAreForRows, R!AtRow, Begin
<1>5. ASSUME NEW w \in Workers, Continue(w)
      PROVE  CallsAreForRows'
  <2>1. call[w] # "idle" /\ UNCHANGED relay /\ call'[w] # "idle"
    BY <1>5, CallEnds DEF Continue
  <2>2. \A v \in Workers : entry'[v] = entry[v] /\ (v # w => call'[v] = call[v])
    BY <1>5, <2>1, CallsKept DEF Continue
  <2> QED
    BY <2>1, <2>2 DEF IInv, CallsAreForRows, R!AtRow
<1>6. ASSUME NEW w \in Workers, NEW e \in Events, Return(w, e) \/ Throw(w, e)
      PROVE  CallsAreForRows'
  <2>1. /\ \A v \in Workers \ {w} : call'[v] = call[v] /\ entry'[v] = entry[v]
        /\ call'[w] = "idle"
    BY <1>6, CallsKept DEF Return, Throw
  <2>2. R!Remember(w, e) \/ R!NoticeFailure(w, e)
    BY <1>6 DEF Return, Throw
  <2> QED
    BY <2>1, <2>2, OthersPlacesKept DEF IInv, CallsAreForRows, R!AtRow
<1>7. ASSUME NEW w \in Workers, NEW e \in Events, Refused(w, e)
      PROVE  CallsAreForRows'
  <2>1. call[w] = "idle"
    BY <1>7, TheRow DEF Refused, R!Remember
  <2>2. (R!Remember(w, e) \/ R!NoticeFailure(w, e)) /\ UNCHANGED calls
    BY <1>7 DEF Refused
  <2> QED
    BY <2>1, <2>2, OthersPlacesKept DEF IInv, CallsAreForRows, R!AtRow
<1>8. CASE UNCHANGED vars
  BY <1>8 DEF vars, IInv, CallsAreForRows, R!AtRow
<1> QED
  BY <1>1, <1>2, <1>3, <1>4, <1>5, <1>6, <1>7, <1>8 DEF Next, Alone

\* A step of the relay projects what is delivered.
LEMMA DeliveredStep ==
  ASSUME IInv, [R!Next]_R!vars
  PROVE  ProjectedIsDelivered'
<1>1. received \subseteq received'
  <2>1. ASSUME NEW w, NEW e,
               R!PublishThrows(w, e) \/ R!PublishOk(w, e) \/ R!PublishFails(w, e)
        PROVE  received \subseteq received'
    BY <2>1 DEF R!PublishThrows, R!PublishOk, R!PublishFails
  <2>2. ASSUME NEW w, NEW e,
               \/ R!ProjectOk(w, e) \/ R!ProjectFails(w, e) \/ R!CountFailure(w, e)
               \/ R!DeadLetter(w, e) \/ R!DeadLetterFails(w, e)
        PROVE  UNCHANGED received
    BY <2>2 DEF R!ProjectOk, R!ProjectFails, R!Remember, R!NoticeFailure,
                R!CountFailure, R!DeadLetter, R!DeadLetterFails, R!database
  <2>3. ASSUME NEW w, NEW e,
               \/ R!Enqueue(e) \/ R!Start(w) \/ R!Crash(w) \/ R!Shutdown(w)
               \/ R!Exit(w) \/ R!Elapse(w, e)
        PROVE  UNCHANGED received
    BY <2>3 DEF R!Enqueue, R!Start, R!Crash, R!Shutdown, R!Exit, R!Die, R!Elapse,
                R!database
  <2>4. ASSUME NEW w,
               \/ R!Poll(w) \/ R!ClaimCommit(w) \/ R!ClaimFails(w)
               \/ R!MarkPublished(w) \/ R!MarkFails(w)
        PROVE  UNCHANGED received
    BY <2>4 DEF R!Poll, R!ClaimCommit, R!ClaimFails, R!MarkPublished, R!MarkFails,
                R!database
  <2> QED
    BY <2>1, <2>2, <2>3, <2>4 DEF R!Next, R!HandleRow, R!vars
<1>2. ASSUME NEW w \in Workers, NEW e \in Events, R!AtRow(w, e), loop[w] = "project"
      PROVE  e \in received
  BY <1>2 DEF IInv, RP!IInv, RP!RememberedIsDone, RP!AtRow, R!AtRow
<1>3. ASSUME NEW w \in Workers, NEW e \in Events,
             R!ProjectOk(w, e) \/ R!ProjectFails(w, e)
      PROVE  projected' \subseteq projected \cup {EntryOfEvent[e]} /\ e \in received
  <2>1. R!AtRow(w, e) /\ loop[w] = "project"
    BY <1>3 DEF R!ProjectOk, R!ProjectFails, R!Remember, R!NoticeFailure
  <2>2. projected' \subseteq projected \cup {EntryOfEvent[e]}
    BY <1>3 DEF R!ProjectOk, R!ProjectFails
  <2> QED
    BY <1>2, <2>1, <2>2
<1>4. \/ UNCHANGED projected
      \/ \E w \in Workers, e \in Events : R!ProjectOk(w, e) \/ R!ProjectFails(w, e)
  BY AloneSteps DEF R!Next, R!HandleRow, R!vars
<1> QED
  BY <1>1, <1>3, <1>4 DEF IInv, ProjectedIsDelivered

LEMMA InitIInv == Init => IInv
<1> SUFFICES ASSUME Init PROVE IInv
  OBVIOUS
<1>1. RP!IInv /\ PP!IInv
  BY RP!InitIInv, PP!InitIInv, SameRelay, SameProjection DEF Init
<1>2. CallsAreForRows /\ ProjectedIsDelivered
  BY DEF Init, P!Init, CallsAreForRows, ProjectedIsDelivered
<1> QED
  BY <1>1, <1>2 DEF IInv

LEMMA NextIInv == IInv /\ [Next]_vars => IInv' /\ [R!Next]_R!vars /\ [P!Next]_P!vars
<1> SUFFICES ASSUME IInv, [Next]_vars
             PROVE  IInv' /\ [R!Next]_R!vars /\ [P!Next]_P!vars
  OBVIOUS
<1>1. [R!Next]_R!vars /\ [P!Next]_P!vars
  BY RelaySteps, ProjectionSteps
<1>2. RP!IInv'
  BY <1>1, RP!NextIInv, SameRelay DEF IInv
<1>3. PP!IInv'
  BY <1>1, PP!NextIInv, SameProjection DEF IInv
<1> QED
  BY <1>1, <1>2, <1>3, LinkStep, DeliveredStep DEF IInv

THEOREM Invariance == Spec => []IInv
  BY InitIInv, NextIInv, PTL DEF Spec
-----------------------------------------------------------------------------
\* With project() taken apart, the workers still implement the relay.
THEOREM PipelineImplementsRelay == Spec => ImplementsRelay
<1>1. Init => R!Init
  BY DEF Init
<1> QED
  BY <1>1, NextIInv, Invariance, PTL DEF Spec, ImplementsRelay, R!Spec

\* The relay's calls are a behaviour of Projection: what is proved for callers who
\* may be anybody holds for the callers there are.
THEOREM PipelineImplementsProjection == Spec => P!Spec
<1>1. Init => P!Init
  BY DEF Init
<1> QED
  BY <1>1, NextIInv, Invariance, PTL DEF Spec, P!Spec

\* Both components' state is well typed, and a call is for the row at hand.
THEOREM PipelineTypeCorrect == Spec => []TypeOK
<1>1. IInv => TypeOK
  <2> SUFFICES ASSUME IInv PROVE TypeOK
    OBVIOUS
  <2>1. R!TypeOK /\ P!TypeOK
    BY SameRelay, SameProjection DEF IInv, RP!IInv, PP!IInv
  <2> QED
    BY <2>1 DEF IInv, CallsAreForRows, TypeOK
<1> QED
  BY <1>1, Invariance, PTL

\* A published event has every line of its entry in the balances, once.
THEOREM PipelinePublishedIsCounted == Spec => []PublishedIsCounted
<1>1. IInv => PublishedIsCounted
  <2> SUFFICES ASSUME IInv, NEW e \in Events, NEW l \in Lines,
                      status[e] = "published", EntryOfLine[l] = EntryOfEvent[e]
               PROVE  counted[l] = 1
    BY DEF PublishedIsCounted
  <2>1. EntryOfEvent[e] \in projected \cup {None}
    BY DEF IInv, RP!IInv, RP!PublishedIsDone
  <2>2. EntryOfLine[l] # None
    BY PipelineAssumption DEF P!ProjectionAssumption, P!Entries
  <2>3. counted[l] = IF EntryOfLine[l] \in projected THEN 1 ELSE 0
    BY DEF IInv, PP!IInv, PP!CountedExactlyOnce
  <2> QED
    BY <2>1, <2>2, <2>3
<1> QED
  BY <1>1, Invariance, PTL

\* A dead-lettered event's entry is in the balances whole, or not at all.
THEOREM PipelineGivenUpIsWhole == Spec => []GivenUpIsWholeOrNothing
<1>1. IInv => GivenUpIsWholeOrNothing
  <2> SUFFICES ASSUME IInv, NEW e \in Events
               PROVE  \E n \in {0, 1} : \A l \in Lines :
                        EntryOfLine[l] = EntryOfEvent[e] => counted[l] = n
    BY DEF GivenUpIsWholeOrNothing
  <2>1. \A l \in Lines : counted[l] = IF EntryOfLine[l] \in projected THEN 1 ELSE 0
    BY DEF IInv, PP!IInv, PP!CountedExactlyOnce
  <2>2. CASE EntryOfEvent[e] \in projected
    BY <2>1, <2>2
  <2>3. CASE EntryOfEvent[e] \notin projected
    BY <2>1, <2>3
  <2> QED
    BY <2>2, <2>3
<1> QED
  BY <1>1, Invariance, PTL

\* No line is counted before an event of its entry has been delivered.
THEOREM PipelineDeliversFirst == Spec => []NothingBeforeDelivery
<1>1. IInv => NothingBeforeDelivery
  <2> SUFFICES ASSUME IInv, NEW l \in Lines, counted[l] > 0
               PROVE  \E e \in received : EntryOfEvent[e] = EntryOfLine[l]
    BY DEF NothingBeforeDelivery
  <2>1. EntryOfLine[l] \in projected
    BY DEF IInv, PP!IInv, PP!CountedExactlyOnce
  <2> QED
    BY <2>1 DEF IInv, ProjectedIsDelivered
<1> QED
  BY <1>1, Invariance, PTL
=============================================================================
