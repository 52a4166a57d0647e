-------------------------- MODULE ProjectionProofs --------------------------
(***************************************************************************)
(* For every number of workers and every set of entries, lines and         *)
(* accounts: the state stays well typed, every line of a projected entry   *)
(* is counted exactly once, true is returned of projected entries only,    *)
(* and the projection implements the abstract read model.                  *)
(***************************************************************************)
EXTENDS Projection, TLAPS

\* Where each worker is in the loop over its entry's lines.
LoopShape ==
  \A w \in Workers :
    /\ pc[w] # "idle" => entry[w] \in Entries /\ todo[w] \subseteq LinesOf(entry[w])
    /\ pc[w] \in {"guard", "insert"} => todo[w] = LinesOf(entry[w])
    /\ pc[w] = "upsert" => at[w] \in todo[w]
    /\ pc[w] = "commit" => todo[w] = {}

\* At most one transaction has inserted an entry, and then it is not committed yet.
OneInserter ==
  \A w \in Inserted :
    /\ entry[w] \notin projected
    /\ \A v \in Inserted : entry[v] = entry[w] => v = w

\* No two transactions have written the same account row.
LocksAreExclusive ==
  \A w, v \in Workers : w # v => Locks(w) \cap Locks(v) = {}

\* A transaction's version of a row it has locked holds the committed entries' lines
\* and those of its own that the loop is past.
VersionsAreExact ==
  \A w \in Workers, l \in Lines :
    AccountOf[l] \in Locks(w) =>
      version[w][l] = IF EntryOf[l] \in projected \/ l \in LinesOf(entry[w]) \ todo[w]
                        THEN 1 ELSE 0

\* The inductive invariant.
IInv ==
  /\ TypeOK
  /\ LoopShape
  /\ OneInserter
  /\ LocksAreExclusive
  /\ VersionsAreExact
  /\ CountedExactlyOnce
  /\ TrueMeansProjected
-----------------------------------------------------------------------------
\* The initial state.
LEMMA InitIInv == Init => IInv
  BY ProjectionAssumption
     DEF Init, NoLines, IInv, TypeOK, LoopShape, OneInserter, LocksAreExclusive,
         VersionsAreExact, CountedExactlyOnce, TrueMeansProjected, Inserted, Locks

\* The end of a call that commits nothing leaves the tables as exact as they were.
LEMMA LeaveIInv ==
  ASSUME IInv, NEW w \in Workers, Leave(w), UNCHANGED tables,
         returned' \subseteq projected, returned' \subseteq Entries
  PROVE  IInv'
<1> USE DEF tables
<1>1. /\ pc'[w] = "idle"
      /\ \A v \in Workers \ {w} : /\ pc'[v] = pc[v] /\ entry'[v] = entry[v]
                                  /\ todo'[v] = todo[v] /\ at'[v] = at[v]
                                  /\ version'[v] = version[v]
  BY DEF IInv, TypeOK, Leave
<1>2. Inserted' = Inserted \ {w}
  BY <1>1 DEF Inserted
<1>3. Locks(w)' = {} /\ \A v \in Workers \ {w} : Locks(v)' = Locks(v)
  BY <1>1, <1>2 DEF Locks
<1>4. TypeOK'
  BY DEF IInv, TypeOK, Leave, NoLines
<1>5. LoopShape'
  BY <1>1 DEF IInv, LoopShape
<1>6. OneInserter'
  BY <1>1, <1>2 DEF IInv, OneInserter, Inserted
<1>7. LocksAreExclusive'
  BY <1>3 DEF IInv, LocksAreExclusive
<1>8. VersionsAreExact'
  BY <1>1, <1>3 DEF IInv, VersionsAreExact
<1>9. CountedExactlyOnce' /\ TrueMeansProjected'
  BY DEF IInv, CountedExactlyOnce, TrueMeansProjected
<1> QED
  BY <1>4, <1>5, <1>6, <1>7, <1>8, <1>9 DEF IInv

\* A worker that finds the entry projected leaves.
LEMMA AlreadyProjectedIInv ==
  ASSUME IInv, NEW w \in Workers, pc[w] # "idle", entry[w] \in projected,
         AlreadyProjected(w)
  PROVE  IInv'
  BY LeaveIInv DEF IInv, TypeOK, TrueMeansProjected, AlreadyProjected

\* A call that throws leaves.
LEMMA ThrowIInv ==
  ASSUME IInv, NEW w \in Workers, Throw(w)
  PROVE  IInv'
  BY LeaveIInv DEF IInv, TypeOK, TrueMeansProjected, Throw

\* What COMMIT installs is exact.
LEMMA InstallIInv ==
  ASSUME IInv, NEW w \in Workers, pc[w] = "commit", Install(w), Leave(w),
         returned' \subseteq returned \cup {entry[w]}
  PROVE  IInv'
<1>1. /\ pc'[w] = "idle"
      /\ \A v \in Workers \ {w} : /\ pc'[v] = pc[v] /\ entry'[v] = entry[v]
                                  /\ todo'[v] = todo[v] /\ at'[v] = at[v]
                                  /\ version'[v] = version[v]
  BY DEF IInv, TypeOK, Leave
<1>2. Inserted' = Inserted \ {w} /\ w \in Inserted
  BY <1>1 DEF Inserted
<1>3. Locks(w)' = {} /\ \A v \in Workers \ {w} : Locks(v)' = Locks(v)
  BY <1>1, <1>2 DEF Locks
<1>4. entry[w] \in Entries /\ projected' = projected \cup {entry[w]}
  BY DEF IInv, LoopShape, Install
<1>5. \A l \in Lines : EntryOf[l] = entry[w] => AccountOf[l] \in Locks(w)
  BY <1>2 DEF IInv, LoopShape, Locks, LinesOf
<1>6. TypeOK'
  <2>1. counted' \in [Lines -> Nat]
    BY DEF IInv, TypeOK, Install
  <2> QED
    BY <1>4, <2>1 DEF IInv, TypeOK, Leave, NoLines
<1>7. LoopShape'
  BY <1>1 DEF IInv, LoopShape
<1>8. OneInserter'
  BY <1>1, <1>2, <1>4 DEF IInv, OneInserter, Inserted
<1>9. LocksAreExclusive'
  BY <1>3 DEF IInv, LocksAreExclusive
<1>10. VersionsAreExact'
  <2> SUFFICES ASSUME NEW v \in Workers, NEW l \in Lines, AccountOf[l] \in Locks(v)'
               PROVE  version'[v][l] = IF \/ EntryOf[l] \in projected'
                                          \/ l \in LinesOf(entry'[v]) \ todo'[v]
                                         THEN 1 ELSE 0
    BY DEF VersionsAreExact, LinesOf
  <2>1. v # w /\ AccountOf[l] \in Locks(v)
    BY <1>3
  <2>2. EntryOf[l] # entry[w]
    BY <1>5, <2>1 DEF IInv, LocksAreExclusive
  <2> QED
    BY <1>1, <1>4, <2>1, <2>2 DEF IInv, VersionsAreExact
<1>11. CountedExactlyOnce'
  <2> SUFFICES ASSUME NEW l \in Lines
               PROVE  counted'[l] = IF EntryOf[l] \in projected' THEN 1 ELSE 0
    BY DEF CountedExactlyOnce
  <2>1. CASE AccountOf[l] \in Locks(w)
    <3>1. counted'[l] = version[w][l]
      BY <2>1 DEF Install
    <3>2. todo[w] = {}
      BY DEF IInv, LoopShape
    <3> QED
      BY <1>4, <2>1, <3>1, <3>2 DEF IInv, VersionsAreExact, LinesOf
  <2>2. CASE AccountOf[l] \notin Locks(w)
    BY <1>4, <1>5, <2>2 DEF IInv, CountedExactlyOnce, Install
  <2> QED
    BY <2>1, <2>2
<1>12. TrueMeansProjected'
  BY <1>4 DEF IInv, TrueMeansProjected
<1> QED
  BY <1>6, <1>7, <1>8, <1>9, <1>10, <1>11, <1>12 DEF IInv

\* A step of the loop, to the remaining lines L of the entry, keeps the shape.
LEMMA GoOnShape ==
  ASSUME IInv, NEW w \in Workers, NEW L, L \subseteq LinesOf(entry[w]),
         pc[w] # "idle", GoOn(w, L), UNCHANGED entry
  PROVE  /\ LoopShape'
         /\ pc' \in [Workers -> {"idle", "guard", "insert", "upsert", "commit"}]
         /\ todo' \in [Workers -> SUBSET Lines]
         /\ at' \in [Workers -> Lines \cup {None}]
         /\ pc'[w] \in {"upsert", "commit"} /\ todo'[w] = L
         /\ \A v \in Workers \ {w} : /\ pc'[v] = pc[v] /\ todo'[v] = todo[v]
                                     /\ at'[v] = at[v]
<1>1. L \subseteq Lines
  BY DEF LinesOf
<1>2. CASE L = {}
  <2>1. /\ todo' = [todo EXCEPT ![w] = {}] /\ pc' = [pc EXCEPT ![w] = "commit"]
        /\ at' = [at EXCEPT ![w] = None]
    BY <1>2 DEF GoOn
  <2>2. /\ pc'[w] = "commit" /\ todo'[w] = {}
        /\ \A v \in Workers \ {w} : /\ pc'[v] = pc[v] /\ todo'[v] = todo[v]
                                    /\ at'[v] = at[v]
    BY <2>1 DEF IInv, TypeOK
  <2>3. LoopShape'
    BY <2>2 DEF IInv, LoopShape
  <2>4. /\ pc' \in [Workers -> {"idle", "guard", "insert", "upsert", "commit"}]
        /\ todo' \in [Workers -> SUBSET Lines]
        /\ at' \in [Workers -> Lines \cup {None}]
    BY <2>1 DEF IInv, TypeOK
  <2> QED
    BY <1>2, <2>2, <2>3, <2>4
<1>3. CASE L # {}
  <2>1. PICK l \in L : at' = [at EXCEPT ![w] = l]
    BY <1>3 DEF GoOn
  <2>2. pc' = [pc EXCEPT ![w] = "upsert"]
    BY <1>3 DEF GoOn
  <2>3. todo' = [todo EXCEPT ![w] = L]
    BY DEF GoOn
  <2>4. /\ pc'[w] = "upsert" /\ todo'[w] = L /\ at'[w] = l
        /\ \A v \in Workers \ {w} : /\ pc'[v] = pc[v] /\ todo'[v] = todo[v]
                                    /\ at'[v] = at[v]
    BY <2>1, <2>2, <2>3 DEF IInv, TypeOK
  <2>5. LoopShape'
    BY <2>1, <2>4 DEF IInv, LoopShape, LinesOf
  <2>6. at' \in [Workers -> Lines \cup {None}]
    BY <1>1, <2>1 DEF IInv, TypeOK
  <2>7. /\ pc' \in [Workers -> {"idle", "guard", "insert", "upsert", "commit"}]
        /\ todo' \in [Workers -> SUBSET Lines]
    BY <1>1, <2>2, <2>3 DEF IInv, TypeOK
  <2> QED
    BY <2>4, <2>5, <2>6, <2>7
<1> QED
  BY <1>2, <1>3

\* The insert of an entry nobody else has inserted.
LEMMA InsertIInv ==
  ASSUME IInv, NEW w \in Workers, Insert(w)
  PROVE  IInv'
<1>1. CASE entry[w] \in projected
  BY <1>1, AlreadyProjectedIInv DEF Insert
<1>2. CASE entry[w] \notin projected
  <2> USE DEF tables
  <2>1. /\ pc[w] = "insert" /\ ~Blocked(w) /\ GoOn(w, todo[w])
        /\ UNCHANGED <<tables, entry, version, returned>>
    BY <1>2 DEF Insert
  <2>2. todo[w] = LinesOf(entry[w])
    BY <2>1 DEF IInv, LoopShape
  <2>3. /\ LoopShape'
        /\ pc' \in [Workers -> {"idle", "guard", "insert", "upsert", "commit"}]
        /\ todo' \in [Workers -> SUBSET Lines]
        /\ at' \in [Workers -> Lines \cup {None}]
        /\ pc'[w] \in {"upsert", "commit"} /\ todo'[w] = LinesOf(entry[w])
        /\ \A v \in Workers \ {w} : /\ pc'[v] = pc[v] /\ todo'[v] = todo[v]
                                    /\ at'[v] = at[v]
    BY <2>1, <2>2, GoOnShape
  <2>4. Inserted' = Inserted \cup {w} /\ w \notin Inserted
    BY <2>1, <2>3 DEF Inserted
  <2>5. \A v \in Inserted : entry[v] # entry[w]
    BY <2>1, <2>4 DEF Blocked, WaitsFor, Inserted
  <2>6. Locks(w)' = {} /\ \A v \in Workers \ {w} : Locks(v)' = Locks(v)
    BY <2>1, <2>3, <2>4 DEF Locks, LinesOf
  <2>7. TypeOK'
    BY <2>1, <2>3 DEF IInv, TypeOK
  <2>8. OneInserter'
    BY <1>2, <2>1, <2>4, <2>5 DEF IInv, OneInserter
  <2>9. LocksAreExclusive'
    BY <2>6 DEF IInv, LocksAreExclusive
  <2>10. VersionsAreExact'
    BY <2>1, <2>3, <2>6 DEF IInv, VersionsAreExact, LinesOf
  <2>11. CountedExactlyOnce' /\ TrueMeansProjected'
    BY <2>1 DEF IInv, CountedExactlyOnce, TrueMeansProjected
  <2> QED
    BY <2>3, <2>7, <2>8, <2>9, <2>10, <2>11 DEF IInv
<1> QED
  BY <1>1, <1>2

\* The upsert of a line into a row nobody else has locked.
LEMMA UpsertIInv ==
  ASSUME IInv, NEW w \in Workers, Upsert(w)
  PROVE  IInv'
<1> USE DEF tables
<1> DEFINE l == at[w]
           base(k) == IF AccountOf[k] = AccountOf[l] /\ AccountOf[l] \notin Locks(w)
                        THEN counted[k] ELSE version[w][k]
<1>1. /\ pc[w] = "upsert" /\ ~Blocked(w) /\ GoOn(w, todo[w] \ {l})
      /\ version' = [version EXCEPT ![w] =
                       [k \in Lines |-> IF k = l THEN base(k) + 1 ELSE base(k)]]
      /\ UNCHANGED <<tables, entry, returned>>
  BY DEF Upsert
<1>2. /\ entry[w] \in Entries /\ todo[w] \subseteq LinesOf(entry[w])
      /\ l \in todo[w] /\ l \in Lines /\ EntryOf[l] = entry[w] /\ l # None
  BY <1>1, ProjectionAssumption DEF IInv, LoopShape, LinesOf
<1>3. /\ LoopShape'
      /\ pc' \in [Workers -> {"idle", "guard", "insert", "upsert", "commit"}]
      /\ todo' \in [Workers -> SUBSET Lines]
      /\ at' \in [Workers -> Lines \cup {None}]
      /\ pc'[w] \in {"upsert", "commit"} /\ todo'[w] = todo[w] \ {l}
      /\ \A v \in Workers \ {w} : /\ pc'[v] = pc[v] /\ todo'[v] = todo[v]
                                  /\ at'[v] = at[v]
  BY <1>1, <1>2, GoOnShape
<1>4. Inserted' = Inserted /\ w \in Inserted
  BY <1>1, <1>3 DEF Inserted
<1>5. Locks(w)' = Locks(w) \cup {AccountOf[l]}
  BY <1>1, <1>2, <1>3, <1>4 DEF Locks, LinesOf
<1>6. \A v \in Workers \ {w} : Locks(v)' = Locks(v) /\ AccountOf[l] \notin Locks(v)
  BY <1>1, <1>2, <1>3, <1>4 DEF Locks, LinesOf, Blocked, WaitsFor
<1>7. \A k \in Lines : base(k) \in Nat
  BY <1>2 DEF IInv, TypeOK
<1>8. \A k \in Lines : version'[w][k] = IF k = l THEN base(k) + 1 ELSE base(k)
  BY <1>1 DEF IInv, TypeOK
<1>9. \A v \in Workers \ {w} : version'[v] = version[v]
  BY <1>1 DEF IInv, TypeOK
<1>10. TypeOK'
  <2>1. version' \in [Workers -> [Lines -> Nat]]
    BY <1>1, <1>7 DEF IInv, TypeOK
  <2> QED
    BY <1>1, <1>3, <2>1 DEF IInv, TypeOK
<1>11. OneInserter'
  BY <1>1, <1>4 DEF IInv, OneInserter
<1>12. LocksAreExclusive'
  BY <1>5, <1>6 DEF IInv, LocksAreExclusive
<1>13. VersionsAreExact'
  <2> SUFFICES ASSUME NEW v \in Workers, NEW k \in Lines, AccountOf[k] \in Locks(v)'
               PROVE  version'[v][k] = IF \/ EntryOf[k] \in projected
                                          \/ k \in LinesOf(entry[v]) \ todo'[v]
                                         THEN 1 ELSE 0
    BY <1>1 DEF VersionsAreExact, LinesOf
  <2>1. CASE v # w
    BY <1>3, <1>6, <1>9, <2>1 DEF IInv, VersionsAreExact
  <2>2. CASE v = w
    <3>1. base(k) = IF \/ EntryOf[k] \in projected
                       \/ k \in LinesOf(entry[w]) \ todo[w]
                      THEN 1 ELSE 0
      <4>1. CASE AccountOf[k] \in Locks(w)
        <5>1. base(k) = version[w][k]
          BY <4>1
        <5> QED
          BY <4>1, <5>1 DEF IInv, VersionsAreExact
      <4>2. CASE AccountOf[k] \notin Locks(w)
        <5>1. AccountOf[k] = AccountOf[l]
          BY <1>5, <2>2, <4>2
        <5>2. k \notin LinesOf(entry[w]) \ todo[w]
          BY <1>4, <4>2 DEF Locks
        <5> QED
          BY <4>2, <5>1, <5>2 DEF IInv, CountedExactlyOnce
      <4> QED
        BY <4>1, <4>2
    <3>2. EntryOf[l] \notin projected
      BY <1>2, <1>4 DEF IInv, OneInserter
    <3>3. k \in LinesOf(entry[w]) \ todo'[w]
            <=> k = l \/ k \in LinesOf(entry[w]) \ todo[w]
      BY <1>2, <1>3
    <3> HIDE DEF base
    <3> QED
      BY <1>2, <1>8, <2>2, <3>1, <3>2, <3>3
  <2> QED
    BY <2>1, <2>2
<1>14. CountedExactlyOnce' /\ TrueMeansProjected'
  BY <1>1 DEF IInv, CountedExactlyOnce, TrueMeansProjected
<1> QED
  BY <1>3, <1>10, <1>11, <1>12, <1>13, <1>14 DEF IInv

\* The begin of a call.
LEMMA CallIInv ==
  ASSUME IInv, NEW w \in Workers, NEW n \in Entries, Call(w, n)
  PROVE  IInv'
<1> USE DEF tables
<1>1. /\ pc[w] = "idle" /\ pc'[w] = "guard" /\ entry'[w] = n /\ todo'[w] = LinesOf(n)
      /\ \A v \in Workers \ {w} : pc'[v] = pc[v] /\ entry'[v] = entry[v]
                                  /\ todo'[v] = todo[v]
      /\ UNCHANGED <<tables, at, version, returned>>
  BY DEF IInv, TypeOK, Call
<1>2. Inserted' = Inserted /\ w \notin Inserted
  BY <1>1 DEF Inserted
<1>3. \A v \in Workers : Locks(v)' = Locks(v)
  BY <1>1, <1>2 DEF Locks
<1>4. TypeOK'
  BY <1>1 DEF IInv, TypeOK, Call, LinesOf
<1>5. LoopShape'
  BY <1>1 DEF IInv, LoopShape
<1>6. OneInserter'
  BY <1>1, <1>2 DEF IInv, OneInserter, Inserted
<1>7. LocksAreExclusive'
  BY <1>3 DEF IInv, LocksAreExclusive
<1>8. VersionsAreExact'
  BY <1>1, <1>2, <1>3 DEF IInv, VersionsAreExact, Locks
<1>9. CountedExactlyOnce' /\ TrueMeansProjected'
  BY <1>1 DEF IInv, CountedExactlyOnce, TrueMeansProjected
<1> QED
  BY <1>4, <1>5, <1>6, <1>7, <1>8, <1>9 DEF IInv

\* The guard of an entry that is not projected.
LEMMA GuardIInv ==
  ASSUME IInv, NEW w \in Workers, Guard(w)
  PROVE  IInv'
<1>1. CASE entry[w] \in projected
  BY <1>1, AlreadyProjectedIInv DEF Guard
<1>2. CASE entry[w] \notin projected
  <2> USE DEF tables
  <2>1. /\ pc[w] = "guard" /\ pc'[w] = "insert"
        /\ \A v \in Workers \ {w} : pc'[v] = pc[v]
        /\ pc' \in [Workers -> {"idle", "guard", "insert", "upsert", "commit"}]
        /\ UNCHANGED <<tables, entry, todo, at, version, returned>>
    BY <1>2 DEF IInv, TypeOK, Guard
  <2>2. Inserted' = Inserted
    BY <2>1 DEF Inserted
  <2>3. \A v \in Workers : Locks(v)' = Locks(v)
    BY <2>1, <2>2 DEF Locks
  <2>4. TypeOK'
    BY <2>1 DEF IInv, TypeOK
  <2>5. LoopShape'
    BY <2>1 DEF IInv, LoopShape
  <2>6. OneInserter' /\ LocksAreExclusive'
    BY <2>1, <2>2, <2>3 DEF IInv, OneInserter, LocksAreExclusive
  <2>7. VersionsAreExact'
    BY <2>1, <2>3 DEF IInv, VersionsAreExact
  <2>8. CountedExactlyOnce' /\ TrueMeansProjected'
    BY <2>1 DEF IInv, CountedExactlyOnce, TrueMeansProjected
  <2> QED
    BY <2>4, <2>5, <2>6, <2>7, <2>8 DEF IInv
<1> QED
  BY <1>1, <1>2

\* A commit whose answer is lost has happened or has not.
LEMMA CommitFailsIInv ==
  ASSUME IInv, NEW w \in Workers, CommitFails(w)
  PROVE  IInv'
<1>1. CASE Install(w)
  <2>1. pc[w] = "commit" /\ Leave(w) /\ returned' \subseteq returned \cup {entry[w]}
    BY DEF CommitFails
  <2> QED
    BY <1>1, <2>1, InstallIInv
<1>2. CASE UNCHANGED tables
  <2>1. /\ Leave(w) /\ UNCHANGED tables
        /\ returned' \subseteq projected /\ returned' \subseteq Entries
    BY <1>2 DEF CommitFails, IInv, TypeOK, TrueMeansProjected
  <2> QED
    BY <2>1, LeaveIInv
<1> QED
  BY <1>1, <1>2 DEF CommitFails

\* Every step keeps the inductive invariant.
LEMMA NextIInv == IInv /\ [Next]_vars => IInv'
<1> SUFFICES ASSUME IInv, [Next]_vars PROVE IInv'
  OBVIOUS
<1>1. ASSUME NEW w \in Workers, NEW n \in Entries, Call(w, n) PROVE IInv'
  BY <1>1, CallIInv
<1>2. ASSUME NEW w \in Workers, Guard(w) PROVE IInv'
  BY <1>2, GuardIInv
<1>3. ASSUME NEW w \in Workers, Insert(w) PROVE IInv'
  BY <1>3, InsertIInv
<1>4. ASSUME NEW w \in Workers, Upsert(w) PROVE IInv'
  BY <1>4, UpsertIInv
<1>5. ASSUME NEW w \in Workers, Commit(w) PROVE IInv'
  BY <1>5, InstallIInv DEF Commit
<1>6. ASSUME NEW w \in Workers, CommitFails(w) PROVE IInv'
  BY <1>6, CommitFailsIInv
<1>7. ASSUME NEW w \in Workers, StatementFails(w) \/ DeadlockVictim(w) PROVE IInv'
  BY <1>7, ThrowIInv DEF StatementFails, DeadlockVictim
<1>8. CASE UNCHANGED vars
  <2> USE <1>8 DEF vars, tables
  <2>1. Inserted' = Inserted
    BY DEF Inserted
  <2>2. \A w \in Workers : Locks(w)' = Locks(w)
    BY <2>1 DEF Locks
  <2>3. TypeOK' /\ LoopShape'
    BY DEF IInv, TypeOK, LoopShape
  <2>4. OneInserter' /\ LocksAreExclusive'
    BY <2>1, <2>2 DEF IInv, OneInserter, LocksAreExclusive
  <2>5. VersionsAreExact'
    BY <2>2 DEF IInv, VersionsAreExact
  <2>6. CountedExactlyOnce' /\ TrueMeansProjected'
    BY DEF IInv, CountedExactlyOnce, TrueMeansProjected
  <2> QED
    BY <2>3, <2>4, <2>5, <2>6 DEF IInv
<1> QED
  BY <1>1, <1>2, <1>3, <1>4, <1>5, <1>6, <1>7, <1>8 DEF Next, Step

\* The inductive invariant holds throughout.
THEOREM Invariance == Spec => []IInv
  BY InitIInv, NextIInv, PTL DEF Spec
-----------------------------------------------------------------------------
\* The state is always well typed, and no worker outside project() keeps a
\* transaction open (lines 118-187).
THEOREM ProjectionTypeCorrect == Spec => []TypeOK
<1>1. IInv => TypeOK
  BY DEF IInv
<1> QED
  BY <1>1, Invariance, PTL

\* Every line of a projected entry is in its account's balance exactly once, and no
\* other line is, whatever the workers, the entries and the accounts they share.
THEOREM ProjectionCountsOnce == Spec => []CountedExactlyOnce
<1>1. IInv => CountedExactlyOnce
  BY DEF IInv
<1> QED
  BY <1>1, Invariance, PTL

\* Where project() has returned true, the entry is in the read model.
THEOREM ProjectionTellsTheTruth == Spec => []TrueMeansProjected
<1>1. IInv => TrueMeansProjected
  BY DEF IInv
<1> QED
  BY <1>1, Invariance, PTL
-----------------------------------------------------------------------------
\* What a commit does to the tables is one step of the abstract read model.
LEMMA InstallApplies ==
  ASSUME IInv, IInv', NEW w \in Workers, pc[w] = "commit", Install(w)
  PROVE  Model!Next
<1>1. entry[w] \in Entries /\ entry[w] \notin projected
  BY DEF IInv, LoopShape, OneInserter, Inserted
<1>2. projected' = projected \cup {entry[w]}
  BY DEF Install
<1>3. counted' = [l \in Lines |-> IF EntryOf[l] = entry[w] THEN counted[l] + 1
                                                           ELSE counted[l]]
  <2>1. \A l \in Lines : counted[l] = IF EntryOf[l] \in projected THEN 1 ELSE 0
    BY DEF IInv, CountedExactlyOnce
  <2>2. \A l \in Lines : counted'[l] = IF EntryOf[l] \in projected' THEN 1 ELSE 0
    BY DEF IInv, CountedExactlyOnce
  <2>3. counted' \in [Lines -> Nat]
    BY DEF IInv, TypeOK
  <2>4. \A l \in Lines : counted'[l] = IF EntryOf[l] = entry[w] THEN counted[l] + 1
                                                                ELSE counted[l]
    BY <1>1, <1>2, <2>1, <2>2
  <2> QED
    BY <2>3, <2>4
<1> QED
  BY <1>1, <1>2, <1>3 DEF Model!Next, Model!Apply, Entries

\* The projection implements the abstract read model: whatever the interleaving of
\* the statements and the failures, each change of the two tables is the whole of
\* one entry that was in neither.
THEOREM ProjectionImplementsReadModel == Spec => ImplementsReadModel
<1>1. Init => Model!Init
  BY DEF Init, Model!Init, NoLines
<1>2. IInv /\ IInv' /\ [Next]_vars => [Model!Next]_<<projected, counted>>
  <2> SUFFICES ASSUME IInv, IInv', [Next]_vars
               PROVE  Model!Next \/ UNCHANGED <<projected, counted>>
    OBVIOUS
  <2>1. ASSUME NEW w \in Workers, NEW n \in Entries, Call(w, n)
        PROVE  UNCHANGED <<projected, counted>>
    BY <2>1 DEF Call, tables
  <2>2. ASSUME NEW w \in Workers, Guard(w) PROVE UNCHANGED <<projected, counted>>
    BY <2>2 DEF Guard, AlreadyProjected, tables
  <2>3. ASSUME NEW w \in Workers, Insert(w) PROVE UNCHANGED <<projected, counted>>
    BY <2>3 DEF Insert, AlreadyProjected, tables
  <2>4. ASSUME NEW w \in Workers, Upsert(w) PROVE UNCHANGED <<projected, counted>>
    BY <2>4 DEF Upsert, tables
  <2>5. ASSUME NEW w \in Workers, Commit(w) PROVE Model!Next
    BY <2>5, InstallApplies DEF Commit
  <2>6. ASSUME NEW w \in Workers, CommitFails(w)
        PROVE  Model!Next \/ UNCHANGED <<projected, counted>>
    BY <2>6, InstallApplies DEF CommitFails, tables
  <2>7. ASSUME NEW w \in Workers, StatementFails(w) \/ DeadlockVictim(w)
        PROVE  UNCHANGED <<projected, counted>>
    BY <2>7 DEF StatementFails, DeadlockVictim, Throw, tables
  <2>8. CASE UNCHANGED vars
    BY <2>8 DEF vars, tables
  <2> QED
    BY <2>1, <2>2, <2>3, <2>4, <2>5, <2>6, <2>7, <2>8 DEF Next, Step
<1> QED
  BY <1>1, <1>2, Invariance, PTL DEF Spec, ImplementsReadModel, Model!Spec
=============================================================================
