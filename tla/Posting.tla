------------------------------ MODULE Posting -------------------------------
(***************************************************************************)
(* LedgerService.postEntry of the API: each call is one PostgreSQL         *)
(* transaction of several statements, and calls run concurrently against   *)
(* the same tables.  READ COMMITTED: a statement sees what has committed   *)
(* when it starts, a call's own rows become visible together at COMMIT.    *)
(*                                                                         *)
(* The entry a call inserts gets a fresh uuid, so it is identified with    *)
(* the call.  A client's retry is another call with the same tenant and    *)
(* key.                                                                    *)
(***************************************************************************)
EXTENDS Integers, Sequences, FiniteSets, Functions

CONSTANTS
  Requests,      \* the calls of postEntry that clients may send
  Req,           \* Req[r]: the dto, a record of tenant, key and lines
  Accounts,      \* the accounts table: pairs of tenant and code
  MaxAmount,     \* the largest amount NUMERIC(20,4) holds
  PoolMax,       \* connections in the API's pool
  None           \* no row, no answer

Line == [account : STRING, amount : Nat, direction : {"debit", "credit"},
         currency : STRING]

\* What a call returns or throws.
Answers == [status : {"posted", "bad_request", "conflict", "error"},
            id : Requests \cup {None}, cached : BOOLEAN]

ASSUME PostingAssumption ==
  /\ \A r \in Requests : Req[r].lines \in Seq(Line)
  /\ MaxAmount \in Nat
  /\ PoolMax \in Nat \ {0}
  /\ None \notin Requests \cup Answers

VARIABLES
  pc,            \* call -> where postEntry is
  staged,        \* call -> the rows its open transaction has inserted
  entries,       \* journal_entries: the calls whose entry is committed
  lines,         \* journal_lines: call -> the committed lines of its entry
  keys,          \* idempotency_keys: slot -> the entry, or None
  outbox,        \* outbox_events: the entries with a committed event
  answer         \* call -> the HTTP answer, or None

tables == <<entries, lines, keys, outbox>>
vars == <<pc, staged, entries, lines, keys, outbox, answer>>

\* The primary key of idempotency_keys.
Slot(r) == <<Req[r].tenant, Req[r].key>>
Slots == {Slot(r) : r \in Requests}

\* The rows of one open transaction: which single rows, and which lines.
Rows == [entry : BOOLEAN, lines : Seq(Line), key : BOOLEAN, outbox : BOOLEAN]
NoRows == [entry |-> FALSE, lines |-> <<>>, key |-> FALSE, outbox |-> FALSE]

\* The statement each call is at, from BEGIN to COMMIT.
InTransaction == {"lookup", "entry", "lines", "key", "outbox", "commit"}
Open == {r \in Requests : pc[r] \in InTransaction}

Posted(e, cached) == [status |-> "posted", id |-> e, cached |-> cached]
Failed(status) == [status |-> status, id |-> None, cached |-> FALSE]

Init ==
  /\ pc = [r \in Requests |-> "unsent"]
  /\ staged = [r \in Requests |-> NoRows]
  /\ entries = {}
  /\ lines = [r \in Requests |-> <<>>]
  /\ keys = [s \in Slots |-> None]
  /\ outbox = {}
  /\ answer = [r \in Requests |-> None]
-----------------------------------------------------------------------------
(* The pieces of a call.                                                   *)

\* Faulty variant: the direction of a line is not looked at.
TotalOfBothSides(ls, direction) == SumFunction([i \in DOMAIN ls |-> ls[i].amount])

\* The sum of one side of an entry, as validateBalance and the trigger form it.
Total(ls, direction) ==
  SumFunction([i \in DOMAIN ls |-> IF ls[i].direction = direction THEN ls[i].amount ELSE 0])

Balanced(ls) == Total(ls, "debit") = Total(ls, "credit")

\* What NUMERIC(20,4) and CHECK (amount > 0) let a row hold.
Storable(amount) == amount \in 1..MaxAmount

\* Leave the call: the transaction's rows are gone or committed, the client
\* goes back to the pool, the caller gets a.
Finish(r, a) ==
  /\ pc' = [pc EXCEPT ![r] = "done"]
  /\ staged' = [staged EXCEPT ![r] = NoRows]
  /\ answer' = [answer EXCEPT ![r] = a]

\* ROLLBACK and answer.
Abort(r, status) == Finish(r, Failed(status)) /\ UNCHANGED tables

\* COMMIT of the transactions of S.
Install(S) ==
  /\ entries' = entries \cup {r \in S : staged[r].entry}
  /\ lines' = [r \in Requests |-> IF r \in S THEN staged[r].lines ELSE lines[r]]
  /\ keys' = [s \in Slots |->
                IF \E r \in S : staged[r].key /\ Slot(r) = s
                  THEN CHOOSE r \in S : staged[r].key /\ Slot(r) = s
                  ELSE keys[s]]
  /\ outbox' = outbox \cup {r \in S : staged[r].outbox}

\* The deferred trigger trg_balanced_entry, run at COMMIT over the entry's rows.
EnforceBalancedEntry(r) == Balanced(staged[r].lines)
-----------------------------------------------------------------------------
(* One action per statement of postEntry.                                  *)

\* The call arrives; validateBalance runs before any connection is taken.
Arrive(r) ==
  /\ pc[r] = "unsent"
  /\ IF Balanced(Req[r].lines)
       THEN /\ pc' = [pc EXCEPT ![r] = "connect"]
            /\ UNCHANGED <<staged, answer>>
       ELSE Finish(r, Failed("bad_request"))
  /\ UNCHANGED tables

\* getClient, BEGIN and set_config.
Connect(r) ==
  /\ pc[r] = "connect"
  /\ Cardinality(Open) < PoolMax
  /\ pc' = [pc EXCEPT ![r] = "lookup"]
  /\ UNCHANGED <<staged, tables, answer>>

\* getClient gives up (connectionTimeoutMillis, or no database): the call fails
\* before its try block.
ConnectFails(r) ==
  /\ pc[r] = "connect"
  /\ Abort(r, "error")

\* Faulty variant: the key is looked up without its tenant.
LookupOfAnyTenant(r) ==
  /\ pc[r] = "lookup"
  /\ IF \E s \in Slots : s[2] = Req[r].key /\ keys[s] # None
       THEN \E s \in Slots : /\ s[2] = Req[r].key /\ keys[s] # None
                             /\ Finish(r, Posted(keys[s], TRUE))
       ELSE /\ pc' = [pc EXCEPT ![r] = "entry"]
            /\ UNCHANGED <<staged, answer>>
  /\ UNCHANGED tables

\* SELECT ... FROM idempotency_keys: a committed key answers the call, whatever
\* the lines it was sent with.
Lookup(r) ==
  /\ pc[r] = "lookup"
  /\ IF keys[Slot(r)] # None
       THEN Finish(r, Posted(keys[Slot(r)], TRUE))
       ELSE /\ pc' = [pc EXCEPT ![r] = "entry"]
            /\ UNCHANGED <<staged, answer>>
  /\ UNCHANGED tables

\* INSERT INTO journal_entries.
InsertEntry(r) ==
  /\ pc[r] = "entry"
  /\ staged' = [staged EXCEPT ![r].entry = TRUE]
  /\ pc' = [pc EXCEPT ![r] = "lines"]
  /\ UNCHANGED <<tables, answer>>

\* Faulty variant: a line that cannot be inserted is tried again for ever.
InsertLineOrWait(r) ==
  /\ pc[r] = "lines"
  /\ LET n == Len(staged[r].lines) + 1
     IN  IF n > Len(Req[r].lines)
           THEN /\ pc' = [pc EXCEPT ![r] = "key"]
                /\ UNCHANGED <<staged, tables, answer>>
           ELSE /\ <<Req[r].tenant, Req[r].lines[n].account>> \in Accounts
                /\ staged' = [staged EXCEPT ![r].lines = Append(@, Req[r].lines[n])]
                /\ UNCHANGED <<pc, tables, answer>>

\* One turn of the loop over dto.lines: the account lookup and the INSERT, which
\* the column's type and CHECK may refuse; or the end of the loop.
InsertLine(r) ==
  /\ pc[r] = "lines"
  /\ LET n == Len(staged[r].lines) + 1
         l == Req[r].lines[n]
     IN  IF n > Len(Req[r].lines)
           THEN /\ pc' = [pc EXCEPT ![r] = "key"]
                /\ UNCHANGED <<staged, tables, answer>>
           ELSE IF <<Req[r].tenant, l.account>> \in Accounts /\ Storable(l.amount)
                  THEN /\ staged' = [staged EXCEPT ![r].lines = Append(@, l)]
                       /\ UNCHANGED <<pc, tables, answer>>
                  ELSE Abort(r, "error")

\* Calls whose uncommitted key row makes the INSERT of r wait.
KeyHolders(r) == {q \in Requests \ {r} : staged[q].key /\ Slot(q) = Slot(r)}

\* Faulty variant: ON CONFLICT DO NOTHING, so that a bound key goes unnoticed.
InsertKeyIfAbsent(r) ==
  /\ pc[r] = "key"
  /\ KeyHolders(r) = {}
  /\ staged' = [staged EXCEPT ![r].key = keys[Slot(r)] = None]
  /\ pc' = [pc EXCEPT ![r] = "outbox"]
  /\ UNCHANGED <<tables, answer>>

\* INSERT INTO idempotency_keys: waits for an uncommitted row of the same slot to
\* commit or vanish; a committed one is error 23505.
InsertKey(r) ==
  /\ pc[r] = "key"
  /\ KeyHolders(r) = {}
  /\ IF keys[Slot(r)] # None
       THEN Abort(r, "conflict")
       ELSE /\ staged' = [staged EXCEPT ![r].key = TRUE]
            /\ pc' = [pc EXCEPT ![r] = "outbox"]
            /\ UNCHANGED <<tables, answer>>

\* Faulty variant: the event is left to be written after the COMMIT.
InsertNoOutbox(r) ==
  /\ pc[r] = "outbox"
  /\ pc' = [pc EXCEPT ![r] = "commit"]
  /\ UNCHANGED <<staged, tables, answer>>

\* INSERT INTO outbox_events, in the same transaction.
InsertOutbox(r) ==
  /\ pc[r] = "outbox"
  /\ staged' = [staged EXCEPT ![r].outbox = TRUE]
  /\ pc' = [pc EXCEPT ![r] = "commit"]
  /\ UNCHANGED <<tables, answer>>

\* COMMIT returns: the call's rows are there, and the caller learns its entry.
Commit(r) ==
  /\ pc[r] = "commit"
  /\ EnforceBalancedEntry(r)
  /\ Install({r})
  /\ Finish(r, Posted(r, FALSE))

\* Faulty variant: an error of COMMIT is swallowed and the call answered as posted.
CommitFailsUnnoticed(r) ==
  /\ pc[r] = "commit"
  /\ Finish(r, Posted(r, FALSE))
  /\ UNCHANGED tables

\* COMMIT throws: the connection went away, and the caller cannot know whether the
\* server had committed.
CommitFails(r) ==
  /\ pc[r] = "commit"
  /\ \E S \in SUBSET {r} :
       /\ \A q \in S : EnforceBalancedEntry(q)
       /\ Install(S)
  /\ Finish(r, Failed("error"))

\* Any earlier statement throws: ROLLBACK and answer 500.
StatementFails(r) ==
  /\ pc[r] \in InTransaction \ {"commit"}
  /\ Abort(r, "error")

\* The API process dies: connections drop, open transactions vanish except those
\* whose COMMIT had reached the server, and nobody is answered.
Crash ==
  /\ \E r \in Requests : pc[r] \in InTransaction \cup {"connect"}
  /\ \E S \in SUBSET {r \in Requests : pc[r] = "commit" /\ EnforceBalancedEntry(r)} :
       Install(S)
  /\ pc' = [r \in Requests |-> IF pc[r] \in InTransaction \cup {"connect"}
                                 THEN "lost" ELSE pc[r]]
  /\ staged' = [r \in Requests |-> NoRows]
  /\ UNCHANGED answer

\* What the event loop and the database will do on their own for call r.
Step(r) ==
  \/ Connect(r) \/ ConnectFails(r)
  \/ Lookup(r) \/ InsertEntry(r) \/ InsertLine(r) \/ InsertKey(r)
  \/ InsertOutbox(r) \/ Commit(r) \/ CommitFails(r)

Next ==
  \/ \E r \in Requests : Arrive(r) \/ Step(r) \/ StatementFails(r)
  \/ Crash

Spec == Init /\ [][Next]_vars

\* A call the server has accepted keeps running; nothing forces one to arrive,
\* to fail, or the process to crash.
FairSpec == Spec /\ \A r \in Requests : WF_vars(Step(r))
-----------------------------------------------------------------------------
(* Correctness.                                                            *)

\* The type invariant of the tables, the open transactions and the answers.
TypeOK ==
  /\ pc \in [Requests -> {"unsent", "connect", "done", "lost"} \cup InTransaction]
  /\ staged \in [Requests -> Rows]
  /\ entries \subseteq Requests
  /\ lines \in [Requests -> Seq(Line)]
  /\ keys \in [Slots -> Requests \cup {None}]
  /\ outbox \subseteq Requests
  /\ answer \in [Requests -> Answers \cup {None}]

\* A tenant's key yields at most one journal entry, however many calls carry it,
\* overlap, fail halfway or are sent again (lines 36-47, 74-78 and 92).
OneEntryPerKey ==
  \A d, e \in entries : Slot(d) = Slot(e) => d = e

\* Any failure leaves either everything or nothing of a call: a committed entry
\* has all the lines that were sent, its key row and its outbox event, and there
\* is no line, key or event without its entry (lines 49-86).
AllOrNothing ==
  /\ \A e \in entries : /\ lines[e] = Req[e].lines
                        /\ keys[Slot(e)] = e
                        /\ e \in outbox
  /\ outbox \subseteq entries
  /\ \A r \in Requests \ entries : lines[r] = <<>>
  /\ \A s \in Slots : keys[s] # None => keys[s] \in entries

\* What a caller is told is true of the ledger: "posted" names a committed entry
\* of the caller's own tenant and key, so that all callers of a slot are told the
\* same entry; "conflict" means that another call's entry holds the key; a call
\* refused with 400 or 409 has left no entry (lines 46, 87, 93 and 222).
AnswersAreTrue ==
  \A r \in Requests : answer[r] # None =>
    /\ answer[r].status = "posted" =>
         /\ answer[r].id \in entries
         /\ Slot(answer[r].id) = Slot(r)
         /\ answer[r].cached <=> answer[r].id # r
    /\ answer[r].status = "conflict" => keys[Slot(r)] \notin {r, None}
    /\ answer[r].status \in {"bad_request", "conflict"} => r \notin entries

\* The journal of every tenant adds up to zero: over all committed lines of its
\* entries, debits equal credits (validateBalance and trg_balanced_entry).
BooksBalance ==
  LET Signed(l) == IF l.direction = "debit" THEN l.amount ELSE 0 - l.amount
      LinesOf(t) == UNION {{<<e, i>> : i \in DOMAIN lines[e]} :
                             e \in {d \in entries : Req[d].tenant = t}}
  IN  \A t \in {Req[r].tenant : r \in Requests} :
        SumFunction([row \in LinesOf(t) |-> Signed(lines[row[1]][row[2]])]) = 0

\* Every accepted call ends, answered or cut off by a crash: waiting for another
\* call's key row or for a connection never lasts for ever.
EveryCallEnds ==
  \A r \in Requests : pc[r] = "connect" ~> pc[r] \in {"done", "lost"}

\* Seen through its key table and its answers, the interleaved transactions are
\* one atomic, idempotent post per call.
SlotFunction == [r \in Requests |-> Slot(r)]
Told(a) == IF a = None THEN None
           ELSE IF a.status = "posted" THEN a.id ELSE "refused"
told == [r \in Requests |-> Told(answer[r])]

Ledger == INSTANCE IdempotentLedger WITH
  SlotOf <- SlotFunction, ledger <- keys, answer <- told

\* The transactions of postEntry implement the abstract ledger.
ImplementsLedger == Ledger!Spec
=============================================================================
