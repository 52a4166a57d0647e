---------------------------- MODULE LedgerReads -----------------------------
(***************************************************************************)
(* What clients of the API are told: the read handlers of LedgerService    *)
(* and the trial balance, next to posts and to the relay, over the pooled  *)
(* connections they share and under row level security.                    *)
(*                                                                         *)
(* A read is several statements outside a transaction, each of which sees  *)
(* what has committed when it runs.  set_config(..., true) lasts until the *)
(* transaction it runs in ends: for a post, to its COMMIT; for a read, no  *)
(* further than the statement itself.                                      *)
(*                                                                         *)
(* A post is its transaction's BEGIN, set_config, inserts and COMMIT (see  *)
(* Posting), a projection one step (see Projection).  A row of a table is  *)
(* the entry it speaks of; an account's balance, the entries it counts.    *)
(***************************************************************************)
EXTENDS Naturals, FiniteSets

CONSTANTS
  Clients,           \* each sends one request after the other
  Requests,          \* records of kind, tenant (the parameter), entry, and limit (that of
                     \* a list: the caller's or 20, at most 100)
  Connections,       \* the API's pool
  TenantOf,          \* entry -> the tenant it belongs to
  CreatedAt,         \* entry -> created_at in journal_entries, the BEGIN of its post
  ProjectedAt,       \* entry -> created_at in ledger_projection
  LinesPerEntry,
  None

Entries == DOMAIN TenantOf
Tenants == {TenantOf[n] : n \in Entries}

\* Where the handlers read: a SELECT by tenant, a SELECT of one entry, and a post.
OfJournal == {"entries", "entry"}
OfReadModel == {"projections", "projection", "balances", "trial"}
OfOneEntry == {"entry", "projection"}
OfList == {"entries", "projections"}

ASSUME LedgerReadsAssumption ==
  /\ Requests \subseteq [kind : OfJournal \cup OfReadModel \cup {"post"},
                         tenant : Tenants, entry : Entries, limit : Nat]
  /\ \A q \in Requests : q.kind = "post" => q.tenant = TenantOf[q.entry]
  /\ CreatedAt \in [Entries -> Nat] /\ ProjectedAt \in [Entries -> Nat]
  /\ LinesPerEntry \in Nat \ {0}
  /\ None \notin Tenants \cup Connections \cup Requests

VARIABLES
  role,              \* PGUSER of the API: "owner" bypasses the policies, "afos_app" not
  tables,            \* those of the projection's tables that exist
  committed,         \* the journal's entries, each with its lines
  projected,         \* the entries in the read model
  setting,           \* connection -> its app.current_tenant, or None
  inTransaction,     \* connection -> BEGIN was sent, COMMIT or ROLLBACK not yet
  request,           \* client -> the request it is at or was at last, or None
  pc,                \* client -> where the handler is
  connection,        \* client -> the handler's connection, or None
  answer,            \* client -> the last answer: status, entries and lines in it
  told,              \* history: the entries answers spoke of, from the journal or a
                     \* post, and from the read model
  knew               \* history: client -> told when it sent its request

database == <<role, tables, committed, projected>>
vars == <<database, setting, inTransaction, request, pc, connection, answer, told, knew>>

Knowledge == [journal : SUBSET Entries, model : SUBSET Entries]
Nothing == [journal |-> {}, model |-> {}]
Answer(status, S, ls) == [status |-> status, entries |-> S, lines |-> ls]

Init ==
  /\ role \in {"owner", "afos_app"}
  /\ tables = {}
  /\ committed = {}
  /\ projected = {}
  /\ setting = [k \in Connections |-> None]
  /\ inTransaction = [k \in Connections |-> FALSE]
  /\ request = [c \in Clients |-> None]
  /\ pc = [c \in Clients |-> "idle"]
  /\ connection = [c \in Clients |-> None]
  /\ answer = [c \in Clients |-> Answer("none", {}, 0)]
  /\ told = Nothing
  /\ knew = [c \in Clients |-> Nothing]
-----------------------------------------------------------------------------
(* The database as the handlers see it.                                    *)

\* The policies tenant_isolation_*: USING, and for inserted rows WITH CHECK.
Policy(k, n) == role = "owner" \/ setting[k] = TenantOf[n]

\* The table a handler's SELECT reads.
TableOf(kind) == CASE kind \in {"projections", "projection"} -> "ledger_projection"
                   [] kind \in {"balances", "trial"} -> "account_balances"
                   [] OTHER -> "journal_entries"

\* Faulty: the id is trusted to belong to the caller.
RowsByIdOnly(c) ==
  {n \in IF request[c].kind \in OfJournal THEN committed ELSE projected :
     /\ IF request[c].kind \in OfOneEntry
          THEN n = request[c].entry ELSE TenantOf[n] = request[c].tenant
     /\ Policy(connection[c], n)}

\* Faulty: the entry is looked up where the relay puts it.
RowsOfReadModel(c) ==
  {n \in projected :
     /\ TenantOf[n] = request[c].tenant
     /\ request[c].kind \in OfOneEntry => n = request[c].entry
     /\ Policy(connection[c], n)}

\* The rows of that SELECT: WHERE tenant_id = $, and the id where one is asked for.
Rows(c) ==
  {n \in IF request[c].kind \in OfJournal THEN committed ELSE projected :
     /\ TenantOf[n] = request[c].tenant
     /\ request[c].kind \in OfOneEntry => n = request[c].entry
     /\ Policy(connection[c], n)}

\* The order of a list is that of created_at, which entries that overlap need not have
\* committed in.
ListedAt(kind, n) == IF kind = "entries" THEN CreatedAt[n] ELSE ProjectedAt[n]

\* The answer S to the list q is full, and none of its rows is older than n.
CutOff(q, S, n) ==
  /\ q.kind \in OfList
  /\ Cardinality(S) = q.limit
  /\ \A m \in S : ListedAt(q.kind, n) <= ListedAt(q.kind, m)

\* What the SELECT may return: its rows, of a list no more than LIMIT, the newest; which
\* of two rows of one instant is cut off is open.
Selections(c) ==
  {S \in SUBSET Rows(c) :
     /\ request[c].kind \in OfList => Cardinality(S) <= request[c].limit
     /\ \A n \in Rows(c) \ S : CutOff(request[c], S, n)}

\* What the answer makes known.
Learn(kind, S) ==
  told' = [journal |-> told.journal \cup S,
           model |-> IF kind \in OfReadModel THEN told.model \cup S ELSE told.model]

\* The handler ends; its connection goes back to the pool.
Respond(c, a) ==
  /\ pc' = [pc EXCEPT ![c] = "idle"]
  /\ connection' = [connection EXCEPT ![c] = None]
  /\ answer' = [answer EXCEPT ![c] = a]
  /\ Learn(request[c].kind, a.entries)
  /\ UNCHANGED <<request, knew>>

\* COMMIT and ROLLBACK: a transaction-local setting goes with its transaction.
EndTransaction(k) ==
  /\ inTransaction' = [inTransaction EXCEPT ![k] = FALSE]
  /\ setting' = [setting EXCEPT ![k] = None]

GoTo(c, p) ==
  /\ pc' = [pc EXCEPT ![c] = p]
  /\ UNCHANGED <<request, connection, answer, told, knew>>
-----------------------------------------------------------------------------
(* One action per statement of a handler.                                  *)

Send(c, q) ==
  /\ pc[c] = "idle"
  /\ q.kind = "post" => q.entry \notin committed
  /\ \A d \in Clients : pc[d] # "idle" /\ q.kind = "post" => request[d] # q
  /\ request' = [request EXCEPT ![c] = q]
  /\ pc' = [pc EXCEPT ![c] = "connect"]
  /\ answer' = [answer EXCEPT ![c] = Answer("none", {}, 0)]
  /\ knew' = [knew EXCEPT ![c] = told]
  /\ UNCHANGED <<database, setting, inTransaction, connection, told>>

\* getClient, and BEGIN in a post.
Connect(c) ==
  /\ pc[c] = "connect"
  /\ \E k \in Connections \ {connection[d] : d \in Clients} :
       /\ connection' = [connection EXCEPT ![c] = k]
       /\ inTransaction' = [inTransaction EXCEPT ![k] = request[c].kind = "post"]
  /\ pc' = [pc EXCEPT ![c] = "set"]
  /\ UNCHANGED <<database, setting, request, answer, told, knew>>

\* getClient throws: connectionTimeoutMillis, or no database.
ConnectFails(c) ==
  /\ pc[c] = "connect"
  /\ Respond(c, Answer("error", {}, 0))
  /\ UNCHANGED <<database, setting, inTransaction>>

Work(c) == IF request[c].kind = "post" THEN "insert" ELSE "select"

\* Faulty: set_config('app.current_tenant', $1, false), which lasts for the session.
SetTenantForSession(c) ==
  /\ pc[c] = "set"
  /\ setting' = [setting EXCEPT ![connection[c]] = request[c].tenant]
  /\ GoTo(c, Work(c))
  /\ UNCHANGED <<database, inTransaction>>

\* SELECT set_config('app.current_tenant', $1, true).
SetTenant(c) ==
  /\ pc[c] = "set"
  /\ setting' = [setting EXCEPT ![connection[c]] =
                   IF inTransaction[connection[c]] THEN request[c].tenant ELSE @]
  /\ GoTo(c, Work(c))
  /\ UNCHANGED <<database, inTransaction>>

\* The inserts of a post; a row its tenant's policy rejects is an error.
Insert(c) ==
  /\ pc[c] = "insert"
  /\ IF Policy(connection[c], request[c].entry)
       THEN /\ GoTo(c, "commit")
            /\ UNCHANGED <<setting, inTransaction>>
       ELSE /\ EndTransaction(connection[c])
            /\ Respond(c, Answer("error", {}, 0))
  /\ UNCHANGED database

Commit(c) ==
  /\ pc[c] = "commit"
  /\ committed' = committed \cup {request[c].entry}
  /\ EndTransaction(connection[c])
  /\ Respond(c, Answer("posted", {request[c].entry}, 0))
  /\ UNCHANGED <<role, tables, projected>>

\* What a handler makes of its table not being there yet (42P01).
WithoutTable(kind) ==
  CASE kind = "projection" -> Answer("not_found", {}, 0)
    [] kind = "trial" -> Answer("error", {}, 0)
    [] OTHER -> Answer("ok", {}, 0)

\* The handler's first SELECT; that of one entry is an error 404 without a row, and
\* getEntry goes on to the lines with one.
Select(c) ==
  /\ pc[c] = "select"
  /\ LET kind == request[c].kind
     IN  IF TableOf(kind) \notin tables \cup {"journal_entries"}
           THEN Respond(c, WithoutTable(kind))
           ELSE IF kind \in OfOneEntry /\ Rows(c) = {}
             THEN Respond(c, Answer("not_found", {}, 0))
             ELSE IF kind = "entry" THEN GoTo(c, "lines")
                                    ELSE \E S \in Selections(c) :
                                           Respond(c, Answer("ok", S, 0))
  /\ UNCHANGED <<database, setting, inTransaction>>

\* Faulty: the lines are taken from the payload the projection keeps.
SelectLinesOfProjection(c) ==
  /\ pc[c] = "lines"
  /\ LET n == request[c].entry
     IN  Respond(c, Answer("ok", {n}, IF n \in projected THEN LinesPerEntry ELSE 0))
  /\ UNCHANGED <<database, setting, inTransaction>>

\* getEntry's second SELECT, by entry_id alone: the policy of journal_lines applies.
SelectLines(c) ==
  /\ pc[c] = "lines"
  /\ LET n == request[c].entry
     IN  Respond(c, Answer("ok", {n}, IF n \in committed /\ Policy(connection[c], n)
                                        THEN LinesPerEntry ELSE 0))
  /\ UNCHANGED <<database, setting, inTransaction>>

Statements == {"set", "insert", "commit", "select", "lines"}

\* A statement throws: ROLLBACK in a post, the error to the caller, the connection to
\* the pool; a COMMIT may have been done.
Fails(c) ==
  /\ pc[c] \in Statements
  /\ \E S \in SUBSET (IF pc[c] = "commit" THEN {request[c].entry} ELSE {}) :
       committed' = committed \cup S
  /\ EndTransaction(connection[c])
  /\ Respond(c, Answer("error", {}, 0))
  /\ UNCHANGED <<role, tables, projected>>

\* The relay's ensureTables: one CREATE TABLE IF NOT EXISTS, then the other.
CreateTable(t) ==
  /\ t \notin tables
  /\ t = "account_balances" => "ledger_projection" \in tables
  /\ tables' = tables \cup {t}
  /\ UNCHANGED <<role, committed, projected, setting, inTransaction, request, pc,
                 connection, answer, told, knew>>

\* The relay projects an entry, under a role that bypasses the policies.
Project(n) ==
  /\ n \in committed \ projected
  /\ tables = {"ledger_projection", "account_balances"}
  /\ projected' = projected \cup {n}
  /\ UNCHANGED <<role, tables, committed, setting, inTransaction, request, pc,
                 connection, answer, told, knew>>

Next ==
  \/ \E c \in Clients :
       \/ \E q \in Requests : Send(c, q)
       \/ Connect(c) \/ ConnectFails(c) \/ SetTenant(c) \/ Insert(c) \/ Commit(c)
       \/ Select(c) \/ SelectLines(c) \/ Fails(c)
  \/ \E t \in {"ledger_projection", "account_balances"} : CreateTable(t)
  \/ \E n \in Entries : Project(n)

Spec == Init /\ [][Next]_vars
-----------------------------------------------------------------------------
(* Correctness.                                                            *)

\* The type invariant; handlers hold different connections, and only while they run.
TypeOK ==
  /\ role \in {"owner", "afos_app"}
  /\ tables \subseteq {"ledger_projection", "account_balances"}
  /\ projected \subseteq committed /\ committed \subseteq Entries
  /\ setting \in [Connections -> Tenants \cup {None}]
  /\ inTransaction \in [Connections -> BOOLEAN]
  /\ request \in [Clients -> Requests \cup {None}]
  /\ pc \in [Clients -> {"idle", "connect", "set", "insert", "commit", "select", "lines"}]
  /\ connection \in [Clients -> Connections \cup {None}]
  /\ \A c \in Clients : connection[c] = None <=> pc[c] \in {"idle", "connect"}
  /\ \A c, d \in Clients : connection[c] = connection[d] => c = d \/ connection[c] = None
  /\ answer \in [Clients -> [status : {"none", "ok", "posted", "not_found", "error"},
                             entries : SUBSET Entries, lines : Nat]]
  /\ told \in Knowledge
  /\ knew \in [Clients -> Knowledge]

\* A tenant is never shown another's rows, whichever role the API connects with and
\* whoever used the connection before: the lines of an entry neither, which are
\* selected by its id alone (lines 102-139; SECURITY.md 3-7).
OnlyOwnRows ==
  \A c \in Clients : \A n \in answer[c].entries : TenantOf[n] = request[c].tenant

\* A connection that is in the pool has no tenant setting and no open transaction, so
\* that a handler starts clean however the one before it ended (SECURITY.md 5-7).
PooledIsClean ==
  \A k \in Connections : k \notin {connection[c] : c \in Clients} =>
    setting[k] = None /\ ~inTransaction[k]

\* An entry is read with all of its lines, although the two are separate statements
\* and the post may commit between them (lines 120-135).
EntryComesWhole ==
  \A c \in Clients :
    answer[c].status = "ok" /\ request[c].kind = "entry" => answer[c].lines = LinesPerEntry

\* Under the owner's role no client is sent back in time: what an answer, to anybody,
\* has spoken of before a request was sent is in the answer to the request - a posted
\* entry in every read of the journal, an entry some read of the read model has shown
\* in every other, the balances included - unless the answer is a list that is full
\* with rows as new (lines 102-211).
NeverBackwards ==
  \A c \in Clients :
    LET q == request[c]
        due == {n \in IF q.kind \in OfReadModel THEN knew[c].model ELSE knew[c].journal :
                  /\ TenantOf[n] = q.tenant
                  /\ q.kind \in OfOneEntry => n = q.entry}
    IN  role = "owner" /\ answer[c].status \in {"ok", "not_found"} =>
          \A n \in due \ answer[c].entries : CutOff(q, answer[c].entries, n)
=============================================================================
