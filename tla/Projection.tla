----------------------------- MODULE Projection -----------------------------
(***************************************************************************)
(* ProjectionService.project: one PostgreSQL transaction that enters a     *)
(* journal entry into ledger_projection and adds its lines to              *)
(* account_balances.  Relay workers run it concurrently, for the same      *)
(* entry or for entries that share accounts, and call it again for an      *)
(* entry that is delivered again.                                          *)
(*                                                                         *)
(* READ COMMITTED with row locks: an INSERT waits for an uncommitted row   *)
(* of the same key, an upsert for the account row another transaction has  *)
(* written, and the server aborts a transaction of a waiting cycle.        *)
(*                                                                         *)
(* A balance is modelled by what was added to it: how often each line.     *)
(***************************************************************************)
EXTENDS Naturals

CONSTANTS
  Workers,           \* the relay processes
  Lines,             \* the lines of the committed journal entries
  EntryOf,           \* line -> its entry
  AccountOf,         \* line -> the account_balances row it is added to
  None

Entries == {EntryOf[l] : l \in Lines}
LinesOf(n) == {l \in Lines : EntryOf[l] = n}

ASSUME ProjectionAssumption == None \notin Lines \cup Entries

VARIABLES
  projected,         \* ledger_projection: the committed entries
  counted,           \* account_balances: line -> how often it has been added
  pc,                \* worker -> where project() is
  entry,             \* worker -> the entry it projects, or None
  todo,              \* worker -> the lines its loop has not upserted yet
  at,                \* worker -> the line its loop is at, or None
  version,           \* worker -> its uncommitted versions of the rows it locks
  returned           \* history: entries for which project() has returned true

tables == <<projected, counted>>
vars == <<projected, counted, pc, entry, todo, at, version, returned>>

NoLines == [l \in Lines |-> 0]

Init ==
  /\ projected = {}
  /\ counted = NoLines
  /\ pc = [w \in Workers |-> "idle"]
  /\ entry = [w \in Workers |-> None]
  /\ todo = [w \in Workers |-> {}]
  /\ at = [w \in Workers |-> None]
  /\ version = [w \in Workers |-> NoLines]
  /\ returned = {}
-----------------------------------------------------------------------------
(* The server's locks.                                                     *)

\* Transactions whose INSERT INTO ledger_projection is not committed yet.
Inserted == {w \in Workers : pc[w] \in {"upsert", "commit"}}

\* The account rows a transaction has written.
Locks(w) == IF w \in Inserted THEN {AccountOf[l] : l \in LinesOf(entry[w]) \ todo[w]}
                              ELSE {}

\* v has to end before w's statement can proceed.
WaitsFor(w, v) ==
  /\ v # w
  /\ \/ pc[w] = "insert" /\ v \in Inserted /\ entry[v] = entry[w]
     \/ pc[w] = "upsert" /\ at[w] # None /\ AccountOf[at[w]] \in Locks(v)

Blocked(w) == \E v \in Workers : WaitsFor(w, v)

\* w is part of a cycle of waiting transactions.
InDeadlock(w) ==
  \E C \in SUBSET Workers :
    /\ w \in C
    /\ \A v \in C : \E u \in C : WaitsFor(v, u)
    /\ \A u \in C : \E v \in C : WaitsFor(v, u)
-----------------------------------------------------------------------------
(* The pieces of a call.                                                   *)

\* The call is over; its transaction, if any, has ended.
Leave(w) ==
  /\ pc' = [pc EXCEPT ![w] = "idle"]
  /\ entry' = [entry EXCEPT ![w] = None]
  /\ todo' = [todo EXCEPT ![w] = {}]
  /\ at' = [at EXCEPT ![w] = None]
  /\ version' = [version EXCEPT ![w] = NoLines]

\* ROLLBACK, and true to the caller: the entry is there already.
AlreadyProjected(w) ==
  /\ Leave(w)
  /\ returned' = returned \cup {entry[w]}
  /\ UNCHANGED tables

\* ROLLBACK, and the error to the caller.
Throw(w) == Leave(w) /\ UNCHANGED <<tables, returned>>

\* The loop goes to another of the lines L, in whatever order the SELECT without
\* ORDER BY gave them, or ends.
GoOn(w, L) ==
  /\ todo' = [todo EXCEPT ![w] = L]
  /\ IF L = {}
       THEN /\ pc' = [pc EXCEPT ![w] = "commit"]
            /\ at' = [at EXCEPT ![w] = None]
       ELSE /\ pc' = [pc EXCEPT ![w] = "upsert"]
            /\ \E l \in L : at' = [at EXCEPT ![w] = l]

\* What COMMIT makes of the tables.
Install(w) ==
  /\ projected' = projected \cup {entry[w]}
  /\ counted' = [l \in Lines |-> IF AccountOf[l] \in Locks(w) THEN version[w][l]
                                                              ELSE counted[l]]
-----------------------------------------------------------------------------
(* One action per statement of project().                                  *)

\* The relay calls project() for a delivered event; the entry and its lines, which
\* never change once committed, are read before the transaction begins.
Call(w, n) ==
  /\ pc[w] = "idle"
  /\ pc' = [pc EXCEPT ![w] = "guard"]
  /\ entry' = [entry EXCEPT ![w] = n]
  /\ todo' = [todo EXCEPT ![w] = LinesOf(n)]
  /\ UNCHANGED <<tables, at, version, returned>>

\* BEGIN; SELECT entry_id FROM ledger_projection.
Guard(w) ==
  /\ pc[w] = "guard"
  /\ IF entry[w] \in projected
       THEN AlreadyProjected(w)
       ELSE /\ pc' = [pc EXCEPT ![w] = "insert"]
            /\ UNCHANGED <<tables, entry, todo, at, version, returned>>

\* Faulty: goes on when no row comes back, trusting the guard.
InsertRegardless(w) ==
  /\ pc[w] = "insert"
  /\ ~Blocked(w)
  /\ GoOn(w, todo[w])
  /\ UNCHANGED <<tables, entry, version, returned>>

\* INSERT INTO ledger_projection ... ON CONFLICT DO NOTHING RETURNING: waits for an
\* uncommitted row of the same entry; no row comes back if there is a committed one.
Insert(w) ==
  /\ pc[w] = "insert"
  /\ ~Blocked(w)
  /\ IF entry[w] \in projected
       THEN AlreadyProjected(w)
       ELSE /\ GoOn(w, todo[w])
            /\ UNCHANGED <<tables, entry, version, returned>>

\* Faulty: the statement is sent over the pool, outside the transaction.
UpsertOverPool(w) ==
  /\ pc[w] = "upsert"
  /\ counted' = [counted EXCEPT ![at[w]] = @ + 1]
  /\ version' = [v \in Workers |-> counted']
  /\ GoOn(w, todo[w] \ {at[w]})
  /\ UNCHANGED <<projected, entry, returned>>

\* INSERT INTO account_balances ... ON CONFLICT DO UPDATE: waits for the account's
\* row, then adds the line to the row's newest version.
Upsert(w) ==
  /\ pc[w] = "upsert"
  /\ ~Blocked(w)
  /\ LET l == at[w]
         base(k) == IF AccountOf[k] = AccountOf[l] /\ AccountOf[l] \notin Locks(w)
                      THEN counted[k] ELSE version[w][k]
     IN  /\ version' = [version EXCEPT ![w] =
                          [k \in Lines |-> IF k = l THEN base(k) + 1 ELSE base(k)]]
         /\ GoOn(w, todo[w] \ {l})
  /\ UNCHANGED <<tables, entry, returned>>

Commit(w) ==
  /\ pc[w] = "commit"
  /\ Install(w)
  /\ Leave(w)
  /\ returned' = returned \cup {entry[w]}

\* Faulty: the two tables are committed one after the other.
CommitFailsBetween(w) ==
  /\ pc[w] = "commit"
  /\ \/ UNCHANGED tables
     \/ projected' = projected \cup {entry[w]} /\ UNCHANGED counted
     \/ Install(w)
  /\ Leave(w)
  /\ UNCHANGED returned

\* Faulty: the catch swallows the error, and the relay hears that all is well.
CommitFailsUnnoticed(w) ==
  /\ pc[w] = "commit"
  /\ UNCHANGED tables \/ Install(w)
  /\ Leave(w)
  /\ returned' = returned \cup {entry[w]}

\* COMMIT throws: the connection was lost, with or without the commit done.
CommitFails(w) ==
  /\ pc[w] = "commit"
  /\ UNCHANGED tables \/ Install(w)
  /\ Leave(w)
  /\ UNCHANGED returned

\* A read, the connect or an earlier statement throws, or the process dies there.
StatementFails(w) ==
  /\ pc[w] \in {"guard", "insert", "upsert"}
  /\ Throw(w)

\* Faulty: the loop catches the error and retries the statement, its locks kept.
DeadlockRetried(w) == InDeadlock(w) /\ UNCHANGED vars

\* The server breaks a deadlock by failing the statement of one of its members.
DeadlockVictim(w) == InDeadlock(w) /\ Throw(w)

\* A call runs until it returns or throws.
Step(w) ==
  Guard(w) \/ Insert(w) \/ Upsert(w) \/ Commit(w) \/ CommitFails(w) \/ DeadlockVictim(w)

Next ==
  \E w \in Workers : \/ \E n \in Entries : Call(w, n)
                     \/ Step(w) \/ StatementFails(w)

Spec == Init /\ [][Next]_vars

\* A call goes on, the server's deadlock detector runs, and a transaction that waits
\* for a row is not overtaken for ever: the server keeps a queue for every lock.
FairSpec ==
  /\ Spec
  /\ \A w \in Workers : WF_vars(Step(w)) /\ SF_vars(Insert(w)) /\ SF_vars(Upsert(w))
-----------------------------------------------------------------------------
(* Correctness.                                                            *)

\* The type invariant; a worker outside project() has no transaction.
TypeOK ==
  /\ projected \subseteq Entries
  /\ counted \in [Lines -> Nat]
  /\ pc \in [Workers -> {"idle", "guard", "insert", "upsert", "commit"}]
  /\ entry \in [Workers -> Entries \cup {None}]
  /\ todo \in [Workers -> SUBSET Lines]
  /\ at \in [Workers -> Lines \cup {None}]
  /\ version \in [Workers -> [Lines -> Nat]]
  /\ returned \subseteq Entries
  /\ \A w \in Workers : pc[w] = "idle" => /\ entry[w] = None
                                         /\ todo[w] = {}
                                         /\ at[w] = None

\* Delivered any number of times, to any number of workers at once, cut off at any
\* statement: every line of a projected entry is in its account's balance exactly
\* once, and no other line is (lines 117-177).
CountedExactlyOnce ==
  \A l \in Lines : counted[l] = IF EntryOf[l] \in projected THEN 1 ELSE 0

\* Where project() has returned true, the entry is in the read model, so that the
\* relay may mark its event (lines 130, 155, 179).
TrueMeansProjected == returned \subseteq projected

\* Every call returns or throws: no wait for a row lasts for ever.
EveryCallReturns == \A w \in Workers : pc[w] # "idle" ~> pc[w] = "idle"

\* Seen through its two tables, the projection applies entries whole and once.
Model == INSTANCE ReadModel
ImplementsReadModel == Model!Spec
=============================================================================
