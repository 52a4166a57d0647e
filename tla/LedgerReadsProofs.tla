------------------------- MODULE LedgerReadsProofs -------------------------
(***************************************************************************)
(* For every number of clients, connections, tenants and entries, under    *)
(* either role: no tenant is shown another's rows, a pooled connection     *)
(* carries nothing over, an entry is read with all of its lines, and under *)
(* the owner's role nobody is sent back in time: what is missing from a    *)
(* list is cut off by newer rows.                                          *)
(***************************************************************************)
EXTENDS LedgerReads, TLAPS

\* What a handler knows of its request at each statement.
AtWork ==
  \A c \in Clients :
    /\ pc[c] # "idle" => request[c] \in Requests
    /\ pc[c] \in {"insert", "commit"} => request[c].kind = "post"
    /\ pc[c] \in {"select", "lines"} => request[c].kind # "post"
    /\ pc[c] = "lines" =>
         /\ request[c].kind = "entry"
         /\ request[c].entry \in committed
         /\ TenantOf[request[c].entry] = request[c].tenant
         /\ Policy(connection[c], request[c].entry)

\* A read has neither a setting nor a transaction on its connection.
ReadsSetNothing ==
  \A c \in Clients :
    connection[c] # None /\ request[c].kind # "post" =>
      setting[connection[c]] = None /\ ~inTransaction[connection[c]]

\* What has been told is so, and was so when a request that knew it was sent.
ToldIsTrue ==
  /\ told.journal \subseteq committed /\ told.model \subseteq projected
  /\ \A c \in Clients : /\ knew[c].journal \subseteq told.journal
                        /\ knew[c].model \subseteq told.model

\* Nothing is projected before both tables are there.
TablesFirst == projected # {} => tables = {"ledger_projection", "account_balances"}

\* The inductive invariant.
IInv ==
  /\ TypeOK
  /\ AtWork
  /\ ReadsSetNothing
  /\ ToldIsTrue
  /\ TablesFirst
  /\ OnlyOwnRows
  /\ PooledIsClean
  /\ EntryComesWhole
  /\ NeverBackwards
-----------------------------------------------------------------------------
\* The initial state.
LEMMA InitIInv == Init => IInv
  BY LedgerReadsAssumption
     DEF Init, IInv, TypeOK, AtWork, ReadsSetNothing, ToldIsTrue, TablesFirst,
         OnlyOwnRows, PooledIsClean, EntryComesWhole, NeverBackwards, Answer, Nothing,
         Knowledge

\* The entries a request is entitled to, given what was told when it was sent.
Due(c) ==
  {n \in IF request[c].kind \in OfReadModel THEN knew[c].model ELSE knew[c].journal :
     /\ TenantOf[n] = request[c].tenant
     /\ request[c].kind \in OfOneEntry => n = request[c].entry}

\* A request's fields.
LEMMA RequestFields ==
  ASSUME NEW q \in Requests
  PROVE  /\ q.kind \in OfJournal \cup OfReadModel \cup {"post"}
         /\ q.tenant \in Tenants /\ q.entry \in Entries /\ q # None
         /\ q.kind = "post" => q.tenant = TenantOf[q.entry]
  BY LedgerReadsAssumption

\* A handler that ends leaves a clean connection and says what is so.
LEMMA RespondIInv ==
  ASSUME IInv, NEW c \in Clients, pc[c] # "idle", NEW a, Respond(c, a),
         a \in [status : {"none", "ok", "posted", "not_found", "error"},
                entries : SUBSET Entries, lines : Nat],
         \A n \in a.entries : TenantOf[n] = request[c].tenant,
         a.status = "ok" /\ request[c].kind = "entry" => a.lines = LinesPerEntry,
         role = "owner" /\ a.status \in {"ok", "not_found"} =>
           \A n \in Due(c) \ a.entries : CutOff(request[c], a.entries, n),
         a.entries \subseteq committed',
         request[c].kind \in OfReadModel => a.entries \subseteq projected,
         committed \subseteq committed', committed' \subseteq Entries,
         UNCHANGED <<role, tables, projected>>,
         \/ EndTransaction(connection[c]) /\ connection[c] # None
         \/ /\ UNCHANGED <<setting, inTransaction>>
            /\ connection[c] # None => request[c].kind # "post"
  PROVE  IInv'
<1>1. /\ pc'[c] = "idle" /\ connection'[c] = None /\ answer'[c] = a
      /\ \A d \in Clients \ {c} : /\ pc'[d] = pc[d] /\ connection'[d] = connection[d]
                                  /\ answer'[d] = answer[d]
      /\ request' = request /\ knew' = knew
  BY DEF IInv, TypeOK, Respond
<1>2. /\ setting' \in [Connections -> Tenants \cup {None}]
      /\ inTransaction' \in [Connections -> BOOLEAN]
      /\ \A k \in Connections : k # connection[c] =>
           setting'[k] = setting[k] /\ inTransaction'[k] = inTransaction[k]
      /\ connection[c] # None =>
           setting'[connection[c]] = None /\ ~inTransaction'[connection[c]]
  BY DEF IInv, TypeOK, EndTransaction, ReadsSetNothing
<1>3. \A d \in Clients \ {c} : connection[d] # None => connection[d] # connection[c]
  BY DEF IInv, TypeOK
<1>4. told' \in Knowledge /\ ToldIsTrue'
  <2>1. /\ told'.journal = told.journal \cup a.entries
        /\ told'.model = told.model \cup IF request[c].kind \in OfReadModel
                                           THEN a.entries ELSE {}
        /\ told' = [journal |-> told'.journal, model |-> told'.model]
    BY DEF Respond, Learn
  <2>2. told \in Knowledge
    BY DEF IInv, TypeOK
  <2>3. told' \in Knowledge
    BY <2>1, <2>2 DEF Knowledge
  <2> QED
    BY <1>1, <2>1, <2>3 DEF IInv, ToldIsTrue
<1>5. TypeOK'
  <2>1. /\ pc' \in [Clients -> {"idle", "connect", "set", "insert", "commit", "select",
                                "lines"}]
        /\ connection' \in [Clients -> Connections \cup {None}]
        /\ answer' \in [Clients -> [status : {"none", "ok", "posted", "not_found", "error"},
                                    entries : SUBSET Entries, lines : Nat]]
    BY DEF IInv, TypeOK, Respond
  <2>2. \A d \in Clients : connection'[d] = None <=> pc'[d] \in {"idle", "connect"}
    BY <1>1 DEF IInv, TypeOK
  <2>3. \A d, e \in Clients :
          connection'[d] = connection'[e] => d = e \/ connection'[d] = None
    BY <1>1 DEF IInv, TypeOK
  <2> QED
    BY <1>1, <1>2, <1>4, <2>1, <2>2, <2>3 DEF IInv, TypeOK
<1>6. AtWork'
  <2> SUFFICES ASSUME NEW d \in Clients \ {c}
               PROVE  /\ pc[d] # "idle" => request[d] \in Requests
                      /\ pc[d] \in {"insert", "commit"} => request[d].kind = "post"
                      /\ pc[d] \in {"select", "lines"} => request[d].kind # "post"
                      /\ pc[d] = "lines" =>
                           /\ request[d].kind = "entry"
                           /\ request[d].entry \in committed'
                           /\ TenantOf[request[d].entry] = request[d].tenant
                           /\ Policy(connection[d], request[d].entry)'
    BY <1>1 DEF AtWork, Policy
  <2>1. pc[d] = "lines" => /\ connection[d] \in Connections
                           /\ connection[d] # connection[c]
    BY <1>3 DEF IInv, TypeOK
  <2> QED
    BY <1>1, <1>2, <2>1 DEF IInv, AtWork, Policy
<1>7. ReadsSetNothing'
  BY <1>1, <1>2, <1>3 DEF IInv, TypeOK, ReadsSetNothing
<1>8. TablesFirst' /\ OnlyOwnRows' /\ EntryComesWhole'
  BY <1>1 DEF IInv, TablesFirst, OnlyOwnRows, EntryComesWhole
<1>9. PooledIsClean'
  BY <1>1, <1>2 DEF IInv, TypeOK, PooledIsClean
<1>10. NeverBackwards'
  BY <1>1 DEF IInv, NeverBackwards, Due
<1> QED
  BY <1>4, <1>5, <1>6, <1>7, <1>8, <1>9, <1>10 DEF IInv

\* A step that keeps the answers, what was told and the tables keeps what speaks of them.
LEMMA QuietStep ==
  ASSUME IInv, UNCHANGED <<request, answer, told, knew, role, tables, committed, projected>>
  PROVE  ToldIsTrue' /\ TablesFirst' /\ OnlyOwnRows' /\ EntryComesWhole' /\ NeverBackwards'
  BY DEF IInv, ToldIsTrue, TablesFirst, OnlyOwnRows, EntryComesWhole, NeverBackwards

LEMMA SendIInv ==
  ASSUME IInv, NEW c \in Clients, NEW q \in Requests, Send(c, q)
  PROVE  IInv'
<1> USE DEF database
<1>1. /\ pc[c] = "idle" /\ pc'[c] = "connect" /\ request'[c] = q
      /\ answer'[c] = Answer("none", {}, 0) /\ knew'[c] = told
      /\ \A d \in Clients \ {c} : /\ pc'[d] = pc[d] /\ request'[d] = request[d]
                                  /\ answer'[d] = answer[d] /\ knew'[d] = knew[d]
  BY DEF IInv, TypeOK, Send
<1>2. connection[c] = None
  BY <1>1 DEF IInv, TypeOK
<1>3. TypeOK'
  <2>1. answer' \in [Clients -> [status : {"none", "ok", "posted", "not_found", "error"},
                                 entries : SUBSET Entries, lines : Nat]]
    BY DEF IInv, TypeOK, Send, Answer
  <2>2. \A d \in Clients : connection'[d] = None <=> pc'[d] \in {"idle", "connect"}
    BY <1>1 DEF IInv, TypeOK, Send
  <2>3. /\ pc' \in [Clients -> {"idle", "connect", "set", "insert", "commit", "select",
                                "lines"}]
        /\ request' \in [Clients -> Requests \cup {None}]
        /\ knew' \in [Clients -> Knowledge]
    BY DEF IInv, TypeOK, Send
  <2> QED
    BY <2>1, <2>2, <2>3 DEF IInv, TypeOK, Send
<1>4. AtWork'
  BY <1>1 DEF IInv, AtWork, Policy, Send
<1>5. ReadsSetNothing' /\ PooledIsClean'
  BY <1>1, <1>2 DEF IInv, ReadsSetNothing, PooledIsClean, Send
<1>6. ToldIsTrue' /\ TablesFirst'
  BY <1>1 DEF IInv, ToldIsTrue, TablesFirst, Send
<1>7. OnlyOwnRows' /\ EntryComesWhole' /\ NeverBackwards'
  BY <1>1 DEF IInv, OnlyOwnRows, EntryComesWhole, NeverBackwards, Answer, Send
<1> QED
  BY <1>3, <1>4, <1>5, <1>6, <1>7 DEF IInv

LEMMA ConnectIInv ==
  ASSUME IInv, NEW c \in Clients, Connect(c)
  PROVE  IInv'
<1> USE DEF database
<1>1. PICK k \in Connections \ {connection[d] : d \in Clients} :
        /\ connection' = [connection EXCEPT ![c] = k]
        /\ inTransaction' = [inTransaction EXCEPT ![k] = request[c].kind = "post"]
  BY DEF Connect
<1>2. /\ pc[c] = "connect" /\ pc'[c] = "set" /\ connection'[c] = k
      /\ \A d \in Clients \ {c} : pc'[d] = pc[d] /\ connection'[d] = connection[d]
      /\ \A d \in Clients : connection[d] # k
      /\ k # None
  BY <1>1, LedgerReadsAssumption DEF IInv, TypeOK, Connect
<1>3. setting[k] = None /\ ~inTransaction[k]
  BY <1>1 DEF IInv, PooledIsClean
<1>4. /\ inTransaction' \in [Connections -> BOOLEAN]
      /\ \A l \in Connections \ {k} : inTransaction'[l] = inTransaction[l]
      /\ inTransaction'[k] <=> request[c].kind = "post"
  BY <1>1, Zenon DEF IInv, TypeOK
<1>5. TypeOK'
  <2>1. \A d \in Clients : connection'[d] = None <=> pc'[d] \in {"idle", "connect"}
    BY <1>2 DEF IInv, TypeOK
  <2>2. \A d, e \in Clients :
          connection'[d] = connection'[e] => d = e \/ connection'[d] = None
    BY <1>2 DEF IInv, TypeOK
  <2>3. /\ connection' \in [Clients -> Connections \cup {None}]
        /\ pc' \in [Clients -> {"idle", "connect", "set", "insert", "commit", "select",
                                "lines"}]
    BY <1>1 DEF IInv, TypeOK, Connect
  <2> QED
    BY <1>4, <2>1, <2>2, <2>3 DEF IInv, TypeOK, Connect
<1>6. AtWork'
  BY <1>2 DEF IInv, AtWork, Policy, Connect
<1>7. ReadsSetNothing'
  BY <1>2, <1>3, <1>4 DEF IInv, TypeOK, ReadsSetNothing, Connect
<1>8. PooledIsClean'
  <2>1. /\ k \in {connection'[d] : d \in Clients}
        /\ \A l \in Connections \ {k} :
             l \in {connection[d] : d \in Clients} =>
               l \in {connection'[d] : d \in Clients}
    <3>1. connection[c] \notin Connections
      BY <1>2, LedgerReadsAssumption DEF IInv, TypeOK
    <3> QED
      BY <1>2, <3>1
  <2>2. UNCHANGED setting
    BY DEF Connect
  <2> QED
    BY <1>4, <2>1, <2>2 DEF IInv, PooledIsClean
<1> QED
  BY <1>5, <1>6, <1>7, <1>8, QuietStep DEF IInv, Connect

LEMMA SetTenantIInv ==
  ASSUME IInv, NEW c \in Clients, SetTenant(c)
  PROVE  IInv'
<1> USE DEF database, GoTo
<1> DEFINE k == connection[c]
<1>1. /\ pc[c] = "set" /\ pc'[c] = Work(c)
      /\ \A d \in Clients \ {c} : pc'[d] = pc[d]
      /\ k \in Connections /\ k # None
      /\ request[c] \in Requests
  BY DEF IInv, TypeOK, AtWork, SetTenant
<1>2. /\ setting' \in [Connections -> Tenants \cup {None}]
      /\ \A l \in Connections \ {k} : setting'[l] = setting[l]
      /\ ~inTransaction[k] => setting'[k] = setting[k]
  BY <1>1, RequestFields DEF IInv, TypeOK, SetTenant
<1>3. \A d \in Clients \ {c} : connection[d] # k
  BY <1>1 DEF IInv, TypeOK
<1>4. TypeOK'
  BY <1>1, <1>2 DEF IInv, TypeOK, SetTenant, Work
<1>5. AtWork'
  <2> SUFFICES ASSUME NEW d \in Clients
               PROVE  /\ pc'[d] # "idle" => request[d] \in Requests
                      /\ pc'[d] \in {"insert", "commit"} => request[d].kind = "post"
                      /\ pc'[d] \in {"select", "lines"} => request[d].kind # "post"
                      /\ pc'[d] = "lines" =>
                           /\ request[d].kind = "entry"
                           /\ request[d].entry \in committed
                           /\ TenantOf[request[d].entry] = request[d].tenant
                           /\ Policy(connection[d], request[d].entry)'
    BY DEF AtWork, Policy, SetTenant
  <2>1. CASE d = c
    BY <1>1, <2>1 DEF Work
  <2>2. CASE d # c
    <3>1. pc[d] = "lines" => connection[d] \in Connections \ {k}
      BY <1>3, <2>2 DEF IInv, TypeOK
    <3> QED
      BY <1>1, <1>2, <2>2, <3>1 DEF IInv, AtWork, Policy, SetTenant
  <2> QED
    BY <2>1, <2>2
<1>6. ReadsSetNothing'
  BY <1>1, <1>2, <1>3 DEF IInv, TypeOK, ReadsSetNothing, SetTenant
<1>7. PooledIsClean'
  <2>1. k \in {connection[d] : d \in Clients}
    OBVIOUS
  <2>2. UNCHANGED <<connection, inTransaction>>
    BY DEF SetTenant
  <2> QED
    BY <1>2, <2>1, <2>2 DEF IInv, PooledIsClean
<1> QED
  BY <1>4, <1>5, <1>6, <1>7, QuietStep DEF IInv, SetTenant

\* A step of one handler that only goes on.
LEMMA GoToIInv ==
  ASSUME IInv, NEW c \in Clients, NEW p \in {"commit", "lines"}, GoTo(c, p),
         pc[c] \in {"insert", "select"},
         p = "commit" => request[c].kind = "post",
         p = "lines" => /\ request[c].kind = "entry"
                        /\ request[c].entry \in Rows(c),
         UNCHANGED <<database, setting, inTransaction>>
  PROVE  IInv'
<1> USE DEF database, GoTo
<1>1. /\ pc'[c] = p
      /\ \A d \in Clients \ {c} : pc'[d] = pc[d]
      /\ request[c] \in Requests
  BY DEF IInv, TypeOK, AtWork
<1>2. TypeOK'
  BY <1>1 DEF IInv, TypeOK
<1>3. AtWork'
  BY <1>1 DEF IInv, AtWork, Policy, Rows, OfJournal
<1>4. ReadsSetNothing' /\ PooledIsClean'
  BY DEF IInv, ReadsSetNothing, PooledIsClean
<1> QED
  BY <1>2, <1>3, <1>4, QuietStep DEF IInv

LEMMA InsertIInv ==
  ASSUME IInv, NEW c \in Clients, Insert(c)
  PROVE  IInv'
<1>1. pc[c] = "insert" /\ request[c].kind = "post" /\ connection[c] # None
  BY DEF IInv, TypeOK, AtWork, Insert
<1>2. CASE Policy(connection[c], request[c].entry)
  BY <1>1, <1>2, GoToIInv DEF Insert
<1>3. CASE ~Policy(connection[c], request[c].entry)
  <2>1. Answer("error", {}, 0) \in
          [status : {"none", "ok", "posted", "not_found", "error"},
           entries : SUBSET Entries, lines : Nat]
    BY DEF Answer
  <2> QED
    BY <1>1, <1>3, <2>1, RespondIInv DEF IInv, TypeOK, Insert, database, Answer
<1> QED
  BY <1>2, <1>3

LEMMA CommitIInv ==
  ASSUME IInv, NEW c \in Clients, Commit(c)
  PROVE  IInv'
<1> DEFINE n == request[c].entry
<1>1. /\ pc[c] = "commit" /\ request[c].kind = "post" /\ connection[c] # None
      /\ n \in Entries /\ TenantOf[n] = request[c].tenant
  BY RequestFields DEF IInv, TypeOK, AtWork, Commit
<1>2. Answer("posted", {n}, 0) \in
        [status : {"none", "ok", "posted", "not_found", "error"},
         entries : SUBSET Entries, lines : Nat]
  BY <1>1 DEF Answer
<1>3. committed' \subseteq Entries
  BY <1>1 DEF IInv, TypeOK, Commit
<1>4. request[c].kind \notin OfReadModel
  BY <1>1 DEF OfReadModel
<1> QED
  BY <1>1, <1>2, <1>3, <1>4, RespondIInv DEF Commit, Answer

LEMMA FailsIInv ==
  ASSUME IInv, NEW c \in Clients, Fails(c)
  PROVE  IInv'
<1>1. /\ pc[c] # "idle" /\ connection[c] # None /\ request[c].entry \in Entries
  BY RequestFields DEF IInv, TypeOK, AtWork, Fails, Statements
<1>2. Answer("error", {}, 0) \in
        [status : {"none", "ok", "posted", "not_found", "error"},
         entries : SUBSET Entries, lines : Nat]
  BY DEF Answer
<1>3. committed \subseteq committed' /\ committed' \subseteq Entries
  BY <1>1 DEF IInv, TypeOK, Fails
<1> QED
  BY <1>1, <1>2, <1>3, RespondIInv DEF Fails, Answer

LEMMA ConnectFailsIInv ==
  ASSUME IInv, NEW c \in Clients, ConnectFails(c)
  PROVE  IInv'
<1>1. pc[c] # "idle" /\ connection[c] = None
  BY DEF IInv, TypeOK, ConnectFails
<1>2. Answer("error", {}, 0) \in
        [status : {"none", "ok", "posted", "not_found", "error"},
         entries : SUBSET Entries, lines : Nat]
  BY DEF Answer
<1> QED
  BY <1>1, <1>2, RespondIInv DEF IInv, TypeOK, ConnectFails, Answer, database

LEMMA SelectIInv ==
  ASSUME IInv, NEW c \in Clients, Select(c)
  PROVE  IInv'
<1> USE DEF database
<1> DEFINE kind == request[c].kind
           Types == [status : {"none", "ok", "posted", "not_found", "error"},
                     entries : SUBSET Entries, lines : Nat]
<1>1. /\ pc[c] = "select" /\ request[c] \in Requests
      /\ kind \in OfJournal \cup OfReadModel /\ connection[c] # None
  BY RequestFields DEF IInv, TypeOK, AtWork, Select
<1>2. /\ Rows(c) \subseteq committed /\ committed \subseteq Entries
      /\ kind \in OfReadModel => Rows(c) \subseteq projected
      /\ \A n \in Rows(c) : TenantOf[n] = request[c].tenant
  BY DEF IInv, TypeOK, Rows, OfJournal, OfReadModel
\* The handler's rows are all that the client can know of.
<1>3. role = "owner" => Due(c) \subseteq Rows(c)
  BY <1>1 DEF IInv, ToldIsTrue, Due, Rows, Policy, OfJournal, OfReadModel
<1>4. kind # "post" /\ kind \notin OfJournal \cap OfReadModel
  BY <1>1 DEF OfJournal, OfReadModel
<1>5. CASE TableOf(kind) \notin tables \cup {"journal_entries"}
  <2>1. kind \in OfReadModel
    BY <1>1, <1>5 DEF OfJournal, OfReadModel, TableOf
  <2>2. projected = {}
    BY <1>5, <2>1 DEF IInv, TablesFirst, TableOf, OfReadModel
  <2>3. Due(c) = {}
    BY <2>1, <2>2 DEF IInv, ToldIsTrue, Due
  <2>4. /\ WithoutTable(kind) \in Types /\ WithoutTable(kind).entries = {}
        /\ kind # "entry"
    BY <2>1 DEF WithoutTable, Answer, OfReadModel
  <2>5. Respond(c, WithoutTable(kind))
    BY <1>5 DEF Select
  <2> QED
    BY <1>1, <1>2, <1>4, <2>3, <2>4, <2>5, RespondIInv DEF IInv, TypeOK, Select
<1>6. CASE /\ TableOf(kind) \in tables \cup {"journal_entries"}
           /\ kind \in OfOneEntry /\ Rows(c) = {}
  <2>1. Answer("not_found", {}, 0) \in Types
    BY DEF Answer
  <2>2. Respond(c, Answer("not_found", {}, 0))
    BY <1>6 DEF Select
  <2> QED
    BY <1>1, <1>2, <1>3, <1>4, <1>6, <2>1, <2>2, RespondIInv
       DEF IInv, TypeOK, Select, Answer
<1>7. CASE /\ TableOf(kind) \in tables \cup {"journal_entries"}
           /\ kind = "entry" /\ Rows(c) # {}
  <2>1. GoTo(c, "lines")
    BY <1>7 DEF Select
  <2>2. request[c].entry \in Rows(c)
    BY <1>7 DEF Rows, OfOneEntry
  <2> QED
    BY <1>1, <1>7, <2>1, <2>2, GoToIInv DEF Select
<1>8. CASE /\ TableOf(kind) \in tables \cup {"journal_entries"}
           /\ kind # "entry" /\ ~(kind \in OfOneEntry /\ Rows(c) = {})
  <2>1. PICK S \in Selections(c) : Respond(c, Answer("ok", S, 0))
    BY <1>8 DEF Select
  <2>2. /\ S \subseteq Rows(c)
        /\ \A n \in Rows(c) \ S : CutOff(request[c], S, n)
    BY DEF Selections
  <2>3. Answer("ok", S, 0) \in Types
    BY <1>2, <2>2 DEF Answer
  <2>4. role = "owner" => \A n \in Due(c) \ S : CutOff(request[c], S, n)
    BY <1>3, <2>2
  <2> QED
    BY <1>1, <1>2, <1>4, <1>8, <2>1, <2>2, <2>3, <2>4, RespondIInv
       DEF IInv, TypeOK, Select, Answer
<1> QED
  BY <1>5, <1>6, <1>7, <1>8 DEF OfOneEntry

LEMMA SelectLinesIInv ==
  ASSUME IInv, NEW c \in Clients, SelectLines(c)
  PROVE  IInv'
<1> DEFINE n == request[c].entry
<1>1. /\ pc[c] = "lines" /\ request[c].kind = "entry" /\ connection[c] # None
      /\ n \in committed /\ TenantOf[n] = request[c].tenant /\ Policy(connection[c], n)
  BY DEF IInv, TypeOK, AtWork, SelectLines
<1>2. Respond(c, Answer("ok", {n}, LinesPerEntry))
  BY <1>1 DEF SelectLines
<1>3. Answer("ok", {n}, LinesPerEntry) \in
        [status : {"none", "ok", "posted", "not_found", "error"},
         entries : SUBSET Entries, lines : Nat]
  BY <1>1, LedgerReadsAssumption DEF IInv, TypeOK, Answer
<1>4. Due(c) \subseteq {n} /\ "entry" \notin OfReadModel
  BY <1>1 DEF Due, OfOneEntry, OfReadModel
<1> QED
  BY <1>1, <1>2, <1>3, <1>4, RespondIInv
     DEF IInv, TypeOK, SelectLines, Answer, database

LEMMA RelayIInv ==
  ASSUME IInv, \/ \E t \in {"ledger_projection", "account_balances"} : CreateTable(t)
               \/ \E n \in Entries : Project(n)
  PROVE  IInv'
<1>1. /\ UNCHANGED <<role, committed, setting, inTransaction, request, pc, connection,
                     answer, told, knew>>
      /\ projected \subseteq projected' /\ projected' \subseteq committed
      /\ tables' \subseteq {"ledger_projection", "account_balances"}
      /\ TablesFirst'
  BY DEF IInv, TypeOK, TablesFirst, CreateTable, Project
<1>2. TypeOK' /\ ToldIsTrue'
  BY <1>1 DEF IInv, TypeOK, ToldIsTrue
<1>3. AtWork' /\ ReadsSetNothing' /\ PooledIsClean'
  BY <1>1 DEF IInv, AtWork, Policy, ReadsSetNothing, PooledIsClean
<1>4. OnlyOwnRows' /\ EntryComesWhole' /\ NeverBackwards'
  BY <1>1 DEF IInv, OnlyOwnRows, EntryComesWhole, NeverBackwards
<1> QED
  BY <1>1, <1>2, <1>3, <1>4 DEF IInv

LEMMA StutterIInv ==
  ASSUME IInv, UNCHANGED vars
  PROVE  IInv'
  BY QuietStep
     DEF IInv, TypeOK, AtWork, Policy, ReadsSetNothing, PooledIsClean, vars, database

LEMMA NextIInv == IInv /\ [Next]_vars => IInv'
<1> SUFFICES ASSUME IInv, [Next]_vars PROVE IInv'
  OBVIOUS
<1>1. ASSUME NEW c \in Clients, NEW q \in Requests, Send(c, q) PROVE IInv'
  BY <1>1, SendIInv
<1>2. ASSUME NEW c \in Clients, Connect(c) \/ ConnectFails(c) \/ SetTenant(c) PROVE IInv'
  BY <1>2, ConnectIInv, ConnectFailsIInv, SetTenantIInv
<1>3. ASSUME NEW c \in Clients, Insert(c) \/ Commit(c) \/ Fails(c) PROVE IInv'
  BY <1>3, InsertIInv, CommitIInv, FailsIInv
<1>4. ASSUME NEW c \in Clients, Select(c) \/ SelectLines(c) PROVE IInv'
  BY <1>4, SelectIInv, SelectLinesIInv
<1> QED
  BY <1>1, <1>2, <1>3, <1>4, RelayIInv, StutterIInv DEF Next

LEMMA SpecIInv == Spec => []IInv
  BY InitIInv, NextIInv, PTL DEF Spec
-----------------------------------------------------------------------------
\* The state of any number of handlers stays well typed; two never share a connection.
THEOREM ReadsTypeCorrect == Spec => []TypeOK
  BY SpecIInv, PTL DEF IInv

\* No answer shows a tenant another's rows (listEntries to getProjection, trialBalance).
THEOREM ReadsOnlyOwnRows == Spec => []OnlyOwnRows
  BY SpecIInv, PTL DEF IInv

\* No handler leaves a tenant setting or a transaction on a connection in the pool.
THEOREM ReadsLeaveNothing == Spec => []PooledIsClean
  BY SpecIInv, PTL DEF IInv

\* getEntry answers with all the lines of the entry or not at all.
THEOREM ReadsWholeEntries == Spec => []EntryComesWhole
  BY SpecIInv, PTL DEF IInv

\* Under the owner's role, what was told before a request is in its answer, or the answer
\* is a list that is full with rows as new.
THEOREM ReadsNeverBackwards == Spec => []NeverBackwards
  BY SpecIInv, PTL DEF IInv
=============================================================================
