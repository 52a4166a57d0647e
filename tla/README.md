# Adaptive Financial OS: TLA+ models, checks and proofs

These modules model the double-entry ledger of this repository: the API that
posts journal entries, the outbox relay that delivers their events, the
projection that turns them into a read model, the reads and reports over both,
the accounting library, and the notifications. `PROJECT.json` lists components,
runs, mutants, hazards, findings and theorems, and maps each definition to the
lines it translates. Paths below are relative to the repository.

## 1. The system

```
 client --POST /ledger/entries--> API process            relay processes (1..n)
                                   postEntry               loop: claim -> publish -> project -> mark
                                      |                        |        |          |         |
                                      v                        v        v          v         v
        PostgreSQL:  journal_entries, journal_lines,     outbox_events  webhook  ledger_     outbox_
                     idempotency_keys, outbox_events                    or log   projection, events
                                                                                 account_balances
```

The API and the relay share nothing but the database. Concurrency comes from
concurrent HTTP calls on the API's pool of connections, from several relay
processes, and from both at once; failure from either process dying, from
connections lost at any statement (COMMIT included), and from the webhook
receiver.

| Component | State | Operations | What makes it hard | What makes it correct |
|---|---|---|---|---|
| Ledger posting, `apps/api/src/ledger/ledger.service.ts` | four tables, one open transaction per call, the pool | `postEntry` | two calls with one key, failure between statements, COMMIT answers lost, retries | one entry per key, all or nothing, true answers, balanced books |
| Ledger reads, same file and `reports.service.ts` | tenant setting and transaction of each pooled connection | five read handlers, the trial balance | several statements outside a transaction, two sources of which one lags, tables that may not exist yet, connections others have used | own rows only, whole entries, nothing shown is taken back |
| Ledger schema, `db/migrations` | keys, checks, triggers, row level security | - | the deferred balance trigger runs at COMMIT; the primary key makes calls wait | is what posting relies on |
| Outbox relay, `apps/outbox-relay/src/relay/outbox-relay.service.ts` | `status` of each row; in memory the backoff map, the batch, `okIds` | start, claim, row loop, failure handling, mark, prune, shutdown | claim locks end before delivery, memory is lost with the process, two workers hold one row | published implies done, not given up early, backoff kept, every event settled |
| Outbox publisher, `outbox.publisher.ts` | none | `publish` | a timeout aborts a request the receiver may have taken | at-least-once |
| Projection, `projection.service.ts` | `ledger_projection`, `account_balances`, row locks | `project`, `ensureTables` | guard does not lock, shared accounts, deadlocks, redelivery | each line counted exactly once |
| Reports, `reports.service.ts` | none | five read-only reports | read between projections; BigInt over NUMERIC text; signs | totals that balance and agree with the journal |
| accounting-core, `packages/accounting-core` | none | `validateEntry`, balances, trial balance, deltas | scales, order of lines, several currencies | entry by entry and all at once agree |
| Notifications, `lib/notification/service.ts` | inbox in memory and in a file | `send` over five kinds of channel, `saveInbox`, `loadInbox` | sends interleave at each await, crash while the file is rewritten, failed writes, bound of 50, timeouts | lists hold the newest, survive the process, reported successes happened |
| SMS adapters, Kafka and GraphQL mocks, web page, health, scripts | none worth a model | - | - | - |

## 2. Modules

| Module | What it is |
|---|---|
| `IdempotentLedger` | abstract: a call is one atomic step that binds its (tenant, key) or is told the entry bound to it |
| `Posting` | `postEntry`, one action per SQL statement |
| `OutboxLifecycle` | abstract: enqueue, deliver, project, publish, give up |
| `OutboxRelay` | the relay processes and the publisher |
| `ReadModel` | abstract: an entry enters both projection tables at once, and once |
| `Projection` | `project()`, one action per SQL statement, with row locks |
| `Pipeline` | `OutboxRelay` and `Projection` composed: the relay's `project()` taken apart |
| `LedgerReads` | what clients are told: reads, posts and the relay over shared connections and row level security |
| `Reports` | the five reports as operators on the journal and the balances |
| `AccountingCore` | the library's functions, and a caller that keeps books with them |
| `Notifications` | `send()` channel by channel, the inbox and its file |
| `Sums` | lemmas about sums over finite sets and their elements in order, for the proofs of the components that add amounts |
| `PostingProofs`, `OutboxRelayProofs`, `ProjectionProofs`, `PipelineProofs`, `LedgerReadsProofs`, `NotificationsProofs`, `BalancesProofs` | theorems, each EXTENDS its component; `BalancesProofs` those of `Reports` and of `AccountingCore` |
| `MC...` | instance data for the `.cfg` files, one module per component |

The modules stack. `IdempotentLedger` is implemented by `Posting`,
`OutboxLifecycle` by `OutboxRelay`, `ReadModel` by `Projection`. `OutboxRelay`
sees `project()` as one step that succeeds, or fails with or without the entry in
the read model; `Pipeline` puts `Projection`'s statements in the place of that
step and implements `OutboxRelay` (`ImplementsRelay`), so that the relay's
properties hold of the two together. `OutboxRelay`'s `Enqueue`, in `Pipeline` too,
stands for `Posting`'s COMMIT, whose `AllOrNothing` says that an event appears
exactly with its entry.

### Posting

A call is identified with the entry it would insert (the uuid is fresh). `pc`
is the statement the call is at, `staged` the rows its transaction has inserted
and not committed, and the four tables hold what is committed: READ COMMITTED,
PostgreSQL's default, which the code does not change. `Arrive` is
`validateBalance`, before any connection; `Connect` takes one of `PoolMax`
connections, or the call fails before its `try`; `Lookup`, `InsertEntry`,
`InsertLine` (one turn of the loop, with account lookup and the column's type
and CHECK), `InsertKey` (waits for an uncommitted key of the same slot, and is
error 23505 on a committed one), `InsertOutbox`, `Commit` (with the deferred
balance trigger). `StatementFails` stands for an error of any statement;
`CommitFails` for a COMMIT whose outcome the caller cannot know; `Crash` ends
the process in the middle of everything. A `NotFoundException` for an unknown
account is caught by the method's own `catch` and becomes a 500, as in the code.

Amounts are natural numbers (the DTO's `/^\d+$/`), `MaxAmount` stands for what
NUMERIC(20,4) can hold. Lines carry a currency, which no statement of
`postEntry` looks at; descriptions and payloads are left out. Nobody
inserts a line into an entry of another call, so the trigger's sum over the
entry's rows is over the call's own staged lines.

### OutboxRelay

Events are numbered in the order of `(created_at, id)`, and become visible in
any order, as `created_at` is the time a transaction began. `attempts` and
`waiting` are the backoff map (its counters, and the entries whose
`nextAttemptAt` is still to come); time is nothing but `Elapse`. The claim is
two actions, because its locks are held from the SELECT to the COMMIT and
another worker's `SKIP LOCKED` skips them, while its UPDATEs wait for them.
`publish` has three outcomes for the workers in `Repaired`, which run the code with
the parameter's name repaired; the others run it as written, where it throws a
ReferenceError on its first line (finding 1). The safety properties are checked with
all workers repaired, because as written no event gets past `publish`; `relay_live`
has one of each kind.
`Shutdown` is the SIGTERM hooks: the loop's flag and `pool.end()`, after which
connects and queries throw but a connection that is out stays usable; `Exit` is
the end of the process.

`projected` changes in `ProjectOk`, and possibly in `ProjectFails` (a lost
COMMIT answer). An event with `EntryOf = None` is one `project()` answers with
false (another event type, no aggregate): the relay treats it as done.
`failures` and `received` are history variables.

### Projection

`projected` and `counted` are the two tables. A balance is modelled by the lines
it adds up: `counted[l]` says how often line `l` has been added to its account,
which is what a lost update or a double count changes. A transaction's
`version` holds its uncommitted versions of the rows it has locked. `Insert`
waits for another transaction's uncommitted row of the same entry and returns no
row when there is a committed one; `Upsert` waits for the account's row and adds
to its newest version; `DeadlockVictim` is the server failing one member of a
waiting cycle. The loop takes the lines in any order (the SELECT has no ORDER
BY). The early returns of lines 78-99 answer false without touching anything
and belong to the relay's `None`.

### Pipeline

`Pipeline` instantiates both modules over one `projected`; the relay's `pc` is
named `loop`, the projection's `call`. A worker at `project()` makes a call
(`Begin`), whose statements are `Continue`, and which ends in `Return` or `Throw`:
each is a step of `Projection` joined with what `processOnce` does with the
outcome (`Remember`, `NoticeFailure`). `Refused` is a call that finds the pool
closed. Events are those of `postEntry`, the only code that writes
`outbox_events`, so that each has an entry; those without one are in `OutboxRelay`. A crash rolls back the open transaction; an
exit waits for it, as `pool.end()` waits for clients that are out. All other
relay actions are the relay's alone. The publisher is the one with the name
repaired (`Repaired <- Workers`), as otherwise no event gets to `project()`.

### LedgerReads

One action per statement of a handler: `Connect`, `SetTenant`, `Select`,
`SelectLines` (the second SELECT of `getEntry`, by id alone), `Insert` and `Commit`
of a post, and `Fails` for an error of any of them. `setting` and `inTransaction`
belong to the connection, so that what a handler leaves behind would be the next
one's. `set_config(..., true)` lasts for its transaction: for a post to its
COMMIT, for a read, which opens none, not even to its SELECT. `role` is the
database user: the tables' owner bypasses the policies, `afos_app` does not.
Missing tables (`WithoutTable`) are what the handlers make of error 42P01. A list
is any choice of at most `limit` rows that is newest by `created_at` (`Selections`;
rows created at one time come in any order), which for the journal is the time of the
post's BEGIN (`CreatedAt`), in whatever order the posts commit, and for the read model
that of the projection's (`ProjectedAt`). A post
is cut down to what reads can tell apart (see `Posting`), and a projection to one
step (see `Projection`). `told` and `knew` are history: what answers have
spoken of, and what had been spoken of when a request was sent. The clients
need not talk to each other; `knew` is the strongest demand, that of a client who
hears of every answer at once.

### Notifications

`results[n]` is `send()`'s array, whose length is the channel the loop is at;
sends interleave at each channel. `InApp` is synchronous: list, cut, and rewrite
of the file in one step, the write failing cleanly or leaving part of a file
(`Unreadable`), both of which `saveInbox` swallows. `Telegram` may have been taken
when it reports failure. `Crash` may hit the middle of the write, and `Start` is
the module's `loadInbox`. `listInApp` only reads: the properties speak of `inbox`
itself. Texts and Markdown are left out.

### Reports

`Post` and `Project` are `Posting`'s commit and `ReadModel`'s step, here with
amounts: `Upserted` is what the loop of `project()` adds up on one account's
row. On the way there each amount passes through `parseFloat`: `Double` is a
float with few digits, exact to `Precise` and rounding to the nearest, ties to even,
above (the code's doubles do so beyond 15 significant digits); the server adds the
results as NUMERIC. Every report reads in one statement (the balance sheet and the hierarchy
compute from the trial balance), so it is an operator on the state, and an
invariant about it is about every moment between two projections. The journal is in
the order of the COMMITs, which need not be that of the instants at which the
transactions began: `occurred_at` is one of `Instants`, and so is each end of a period,
as the server turns a date without a time into its first instant. An export lists
the first `ExportLimit` lines by `occurred_at`, those of one instant in any order. A text of the
driver is a number and whether it has a point. With `WholeText = FALSE` BigInt
throws at a point, as it does (finding 2); the arithmetic is checked with TRUE.
That `Postings` hold balanced entries only (`ReportsAssumption`) is what `Posting`
proves of the entries it commits (`BooksBalance`).

### AccountingCore

Functions that throw return their error code. Both sorts are `Arranged`, the
enumeration that respects a strict order (for lines the comparator, and the position
where it answers 0, as the sort is stable: lines that differ in nothing but their memos
keep the order they were sent in). The caller is not in the
repository (no service uses the library yet): it validates, keeps the validated
entries (`entries`) and all their lines in one array (`book`), and adds the deltas of
their stored lines, as the comments of `validateEntry` and `projectionDeltas` describe.
Its specification is `BooksSpec`, and its names differ from those of `Reports`, as one module
extends both.

## 3. Runs

Deadlock is checked except in the `posting`, `reports`, `reports_text`,
`accounting_core` and `notifications` runs, where all calls may have ended or the
bounded journal be full.

| Run | Bounds | Properties |
|---|---|---|
| `posting` | 5 calls: one key sent three times (other amounts; an unknown account), another tenant with the same key text, one unbalanced call; 2 connections; amounts to 3. 32,296 states | `OneEntryPerKey`, `AllOrNothing`, `AnswersAreTrue`, `BooksBalance`, `ImplementsLedger`, `EveryCallEnds` |
| `relay` | 2 workers, 2 events (one without an entry), batches of 2, 1 counted attempt, 2 crashes or shutdowns, prune threshold 1, which two failing events exceed; 1,017,596 states up to symmetry of the workers | `PublishedIsDone`, `GivenUpAfterRetries`, `BackoffRespected`, `ForgottenOnlyWhenFull`, `ImplementsLifecycle` |
| `relay_live` | 2 workers, one repaired and one as written, 2 events claimed one at a time, 1 counted attempt, a failing database, 1 crash or shutdown, prune threshold 2 (never exceeded, see section 5). 208,805 states | `EventuallySettled` |
| `projection` | 3 workers, 2 entries with 5 lines on 2 shared accounts, one entry with two lines on one account | `CountedExactlyOnce`, `TrueMeansProjected`, `ImplementsReadModel`, `EveryCallReturns` |
| `pipeline` | 2 workers, 2 events claimed one at a time, entries of 2 lines on 2 shared accounts, 1 counted attempt, 1 crash or shutdown, a receiver that fails; 1,308,307 states up to symmetry | `TypeOK` (the relay's and the projection's included), `PublishedIsCounted`, `GivenUpIsWholeOrNothing`, `NothingBeforeDelivery`, `ImplementsRelay` |
| `reads` | 2 clients, 2 connections, either role, two entries of a tenant and one of another, all posted, the older one's `created_at` the later, lists of one row; every request of one tenant, and the other's for an entry that is not its own and for its own list. 2,460,825 states up to symmetry | `OnlyOwnRows`, `PooledIsClean`, `EntryComesWhole`, `NeverBackwards` |
| `reports` | 4 accounts (cash, payables, revenue, expenses), entries of two and three lines, amounts 1 to 5 with doubles exact to 4, 2 instants, exports of 4 lines; 2 entries. 201,153 states | `TypeOK`, `TrialBalanceHolds`, `DriftIsBounded`, `ReportsAgree`, `StatementMatchesExport` |
| `accounting_core` | entries of up to two lines over 3 account ids (one missing), amounts -1, 0, 2, two currencies; of three lines over 2 accounts, amounts to 3; of three lines of which two may differ in their memos alone; two accepted entries. 1,641 states | `BooksTypeOK`, `TrialBalances`, `DeltasAddUp`, `SameLinesSameForm` |
| `notifications` | 4 notifications, three of them to one user, over working, failing, unknown and disabled channels; lists of 2; 1 crash. 336,577 states | `TypeOK`, `ListsAreTheNewest`, `ResultsAreTrue`, `OutlivesTheProcess`, `EverySendReturns` |
| `relay_healthy`, `reports_text`, `relay_forgets` | smallest instances (`relay_forgets`: one worker, two failing events and a threshold of one); violated | one property each, see section 5 |

The type invariants of `Posting` and `LedgerReads` are left to their proofs; those of
`OutboxRelay` and `Projection` are proved too, and checked as parts of
`Pipeline`'s.

Why the bounds suffice: the races of `postEntry` are between two calls of one
slot, a third call shows that the pool and the retry do not change the picture,
and the other tenant that a key is not shared; two connections for more calls
than two make the pool run out. Calls that the table refuses for an amount (zero, or
beyond NUMERIC) end as the one with the unknown account does; the theorems cover
them, as they hold for every set of calls. In the relay, a lost or doubled step needs two
workers with one event, and an order of events needs two, as does a map above a threshold of one; `MaxAttempts = 1`
already separates first try, counted retry and dead letter; two process ends
allow a crash of each worker or a crash after a restart. For liveness two events claimed
one at a time put one behind the other, and with two workers `okIds` can be lost
by one while the other is at the row. The projection needs
two workers and two accounts for a deadlock, a third worker for a race against a
pair. The pipeline adds the races between one worker's statements and another's
claim, marking or end, which need two workers and one process end; two events
that share accounts allow a deadlock. A read that a post,
the relay or another reader overtakes needs two clients; a connection that
carries something over needs a client of each tenant, one after the other; a list
of one row is full with the second entry, and drops either of the two, as their
`created_at` and their commits are in either order. Lists of two
overflow at the third notification of one user. The library and the reports compare or add
two entries at most, so two show every way in which they can disagree. The safety
properties with a theorem hold for every size.

Every passing property also has a mutant in `PROJECT.json`: a faulty variant of
one action (kept beside it and marked "Faulty") under which TLC finds the
property violated.

### Fairness

- `Posting`: `WF(Step(r))` for each accepted call: the event loop and the
  database go on. Nothing forces a call to arrive, a statement to fail or the
  process to crash; nothing is assumed about whether COMMIT succeeds. A call in
  a state where it needs a free connection may take the timeout instead
  (`connectionTimeoutMillis: 5000`), which is part of `Step`.
- `OutboxRelay`: weak fairness of what a process does on its own (`GoOn`: its
  loop's steps whatever their outcome, the end it was told to come to, its restart by
  `restart: unless-stopped` in `docker-compose.yml`, and the answer of the
  receiver or of `project()`, success or failure), and of backoffs passing.
  Strong fairness of `ClaimCommit`, of `MarkPublished` with rows to mark, and of
  `DeadLetter`, each of some worker: the database does not for ever fail the
  statements of one kind. Nothing says that the receiver or `project()` ever
  succeeds: events then end in `dead_letter`. Restarts are bounded, as a process
  that dies in every batch settles nothing, in the code as in the model.
- `Notifications`: `WF(Step(n))` for each send: every channel answers, or its
  request times out after the five seconds of `sendTelegram`. Nothing forces a
  crash, a restart, a success or a failure.
- `Projection`: `WF(Step(w))`, and strong fairness of `Insert` and `Upsert`:
  PostgreSQL queues the waiters of a lock, so a waiter is not overtaken for
  ever. With weak fairness alone TLC shows a worker overtaken at each release of
  the row. Errors are not forced; the deadlock detector is (`DeadlockVictim`).

## 4. Proofs

TLAPS proves, for every set of calls, workers, events, entries and accounts and
every setting:

- `Posting` (`PostingProofs`): `TypeOK`, `AllOrNothing`, `OneEntryPerKey`,
  `AnswersAreTrue`, `BooksBalance`, and `Spec => ImplementsLedger`. The inductive invariant adds
  what a call at each statement has staged, that staged keys are exclusive
  (the uncommitted rows of one slot belong to one call, and none while the slot
  is bound), and that entry, lines, key and event are staged together at
  COMMIT. `OneEntryPerKey` and `AllOrNothing` are not inductive alone: they need
  to know that nobody else commits the same slot between a key's INSERT and its
  COMMIT. `BooksBalance`, of all entries together, follows from each committed entry's
  balance (the trigger of `Commit`) and from the tables and the open transactions
  being finite, both invariant (`CommittedBalance`).
- `OutboxRelay` (`OutboxRelayProofs`): `TypeOK`, `PublishedIsDone`,
  `GivenUpAfterRetries`, `BackoffRespected`, and `Spec => ImplementsLifecycle`.
  The invariant adds that whatever a worker remembers in `okIds` is done, that
  workers hold stored rows only, and that no worker's counter is ahead of the
  failures there were (strictly behind while one is being handled).
  `ForgottenOnlyWhenFull` needs no more than the type invariant, and no hypothesis on
  the number of events: only the end of a poll drops the counter of an event that
  stays pending in a living process, and only from a map above its threshold.
- `Projection` (`ProjectionProofs`): `TypeOK`, `CountedExactlyOnce`,
  `TrueMeansProjected`, and `Spec => ImplementsReadModel`. The invariant adds
  that at most one transaction has inserted an entry and then it is not
  committed, that no two transactions have locked the same account, and that a
  locked row's uncommitted version holds the committed entries' lines plus those
  of the own entry the loop is past. The last is what a lost update
  would break.
- `Pipeline` (`PipelineProofs`): `TypeOK`, `Spec => ImplementsRelay` and
  `Spec => P!Spec`, `PublishedIsCounted`, `GivenUpIsWholeOrNothing`,
  `NothingBeforeDelivery`. The inductive invariant is the two components'
  invariants, the lemma modules instantiated at this module's variables, with two
  additions: a call is open only for the row its worker's loop is at, and
  the read model holds entries of delivered events only. The components' step lemmas carry
  their halves; what is proved anew is that each joint step is a step or a
  stutter of each half. `PublishedIsCounted` follows from the relay's
  `PublishedIsDone` and the projection's `CountedExactlyOnce`.
- `LedgerReads` (`LedgerReadsProofs`): `TypeOK`, `OnlyOwnRows`, `PooledIsClean`,
  `EntryComesWhole`, `NeverBackwards`. The invariant adds that a handler at a
  statement has a request of its kind, that a handler that opened no
  transaction has set nothing on its connection, that whatever
  answers spoke of is committed (and, from the read model, projected), and that
  entries are projected only once both tables exist. Without the last two
  `NeverBackwards` is not inductive. It holds for any limits and any
  `created_at`: a list that lacks a committed row of its tenant is full, of rows none of
  which is older (`CutOff`).

- `Notifications` (`NotificationsProofs`): `TypeOK`, `ListsAreTheNewest`,
  `ResultsAreTrue`, `OutlivesTheProcess`, for any users, bound and channels. The
  invariant adds that an intact file holds the lists as some write has left them
  (`FileIsNewest`), and that a send has one result for each channel it is past
  (`ResultPerChannel`).
- `Reports` (`BalancesProofs`): `TypeOK`, `DriftIsBounded`, `TrialBalanceHolds`,
  `ReportsAgree` and `StatementMatchesExport`, whether or not the texts are whole.
  They speak of the rows and sums the statements select and, where a report is computed
  from texts, of those that answer: as written most do not (finding 2). The
  invariant is that each shown balance is the sum, over the projected entries, of
  what each of them brought to the account (`RowsAreSums`). The drift is then bounded
  line by line; the trial balance exchanges the sum over accounts with the one over
  entries, and each of these balances where `parseFloat` is exact. An export below the
  limit is all the lines it selects (`WholeExport`), and the statement's join of
  lines to accounts is an exchange of the sums over accounts and over entries
  (`PeriodExport`).

- `AccountingCore` (`BalancesProofs`): `BooksTypeOK`, `TrialBalances`,
  `DeltasAddUp`, `SameLinesSameForm`, for every set of typed inputs
  (`CoreAssumption`) and any number of entries. The invariant (`BooksInv`) adds that both
  sides of the book are what the entries declare, that the running totals are those of
  the book times the scale, and that the lines of each entry are in order. The comparator is
  shown to be a strict weak order, so that the arrangement exists (each element at the
  place after those before it); sums do not depend on it. That it leaves one
  form of the same lines is a counting argument: were the line at some position
  before the other entry's, more lines would have to fit in front of that position than
  there are places. It needs that all lines of an entry have one currency, as the
  comparator does not look at it. Nor does it look at memos: what is proved equal at
  each position is the line but for its memo, and with it where lines that are otherwise
  alike have one memo.

Sums over finite sets are a fold of the community modules, whose recursion the
provers cannot unfold by an induction theorem. `Sums` shows instead that the sum
over a set is the one of the set without an element, plus that element's: a function
on the finite subsets that satisfies the recursion exists and is unique, by
induction over subsets stated with a set of them instead of a predicate. Its other lemmas
(disjoint unions, bijections, bounds, parts, exchange) follow from this one.

Assumptions on constants are the named ASSUMEs of the modules; TLC evaluates
them in every run. Model-checked only: liveness (`EveryCallEnds`,
`EventuallySettled`, `EveryCallReturns`, `EverySendReturns`), since it rests on fairness and
ENABLED. Every other property of the runs is a theorem, but for the three that are
violated.

## 5. Where code and documents disagree

1. `relay_healthy`: `publish(_envelope)` reads `envelope`. Nothing is ever
   published and every event ends in `dead_letter`, against the class comment of
   `outbox.publisher.ts` (lines 28-31 and 50). The compiler reports the name,
   but emits the file unless `noEmitOnError` is set, which no tsconfig does.
2. `reports_text`: `BigInt` throws at NUMERIC text, so the trial balance
   (`reports.service.ts:50`), the balance sheet and the hierarchy fail once any
   balance row exists.
3. `relay_forgets`: the comment of `outbox-relay.service.ts:35-36` has attempt counters
   reset when the process restarts, and `pruneResolved` is named for settled events.
   Above 10,000 entries (`MAP_PRUNE_THRESHOLD`) it deletes every entry whose backoff is
   over (line 240): an event that is still pending starts again at one failure, in a
   process that lives on. Events that fail in turn, one more than the threshold, can
   then keep forgetting each other's
   counters at every poll and never be given up, so that `EventuallySettled` is
   checked below the threshold. `ForgottenOnlyWhenFull` is what remains true.

More that a reader of the models should know, without a run of their own.

In the API:

- The read handlers send `set_config(..., true)` outside a transaction, where it is
  gone with its own statement (`SetTenant`), while `SECURITY.md:5-7` has the
  setting inside each transaction. Under a role that is subject to the policies
  every read then finds nothing, and an entry that has just been posted is a
  404; `NeverBackwards` therefore speaks of the owner's role. `OnlyOwnRows` rests
  on the WHERE clauses, which are all there.
- `validateBalance` (`ledger.service.ts:213`) adds amounts of all currencies, where
  `ROADMAP.md:20` says a single currency per entry is validated.
- The balance sheet compares assets with the negative nets of liabilities and
  equity, against the comment "Assets = Liabilities + Equity should balance"
  (`reports.service.ts:107`): cash 100 against payables 100 gives 100 = -100 and
  `balanced: false`. `TrialBalanceHolds` uses its totals and not its comparison. It is
  a divergence in one expression, which no interleaving changes.
- `incomeStatement` ignores `to` without `from` (`reports.service.ts:134`), and
  `ledgerExport` does not (lines 202-206); `StatementMatchesExport` speaks of the other
  periods. A `to` that is a date is that day's first instant, so that the
  rest of the day is left out, and an instant that ends one period and begins the next
  is in both. No document says which is meant.
- `occurredAt` of the DTO (`post-entry.dto.ts:37`) is accepted and never stored:
  `occurred_at` is the default, the time of the transaction.
- A list stops at its LIMIT (20 by default, 100 at most), so that an answer may lack
  what an earlier one showed; `NeverBackwards` allows this where the list is full of rows
  as new.
- Amounts beyond what doubles hold exactly reach the balances rounded: a trial
  balance of balanced entries may then answer `balanced: false`, and the
  balances differ from the journal by up to one unit per such amount and no more
  (`DriftIsBounded`).

In the relay, the library and the notifications:

- The comment in line 254 of `outbox-relay.service.ts` says the pool ends after the
  current batch settles; nothing waits for the batch.
- An event is tried `OUTBOX_MAX_ATTEMPTS + 1` times (`>` in line 215, as
  `GivenUpAfterRetries` has it, against "attempt n/max" in line 232).
- `start` logs "ensureTables failed (will retry on projection)" (line 82), but
  `project()` never creates the tables: they are tried again when the process starts
  again, and until then projections fail and are counted as failures of their events.
- `validateEntry` promises "a canonical entry with deterministically sorted lines"
  (`posting.ts:19-21`), but its comparator ignores memos and the sort is stable: two
  lines alike but for the memo stay in the order they were sent in, as
  `SameLinesSameForm` has it.
- `projectionDeltas` returns ten thousand times the stored amounts (the `Scale` of
  `DeltasAddUp`), although `balance.ts:130` would apply them to
  `account_balances`.
- The inbox survives a restart (`notification/service.ts:6`) only if its last write
  succeeded: a failed one is logged and forgotten, and after a torn one
  `loadInbox` starts empty and the next write replaces the file. This is the `torn` of
  `OutlivesTheProcess`.
- `sendEmail` and `sendSms` report success and send nothing, so `ResultsAreTrue`
  speaks of the list and Telegram. The fallback of `docs/API.md:152` and
  `.env.example:56` is not in the code.

## 6. Hazards and what is left

`PROJECT.json` lists the hazards with their lines, and for the three without a
property (the export's limit, the balance sheet's sign, the unit of the library's
deltas) the reason. The totals of `ledger_projection`, which `project()` adds up as
doubles per entry, are not modelled. Left: `Posting` in front of the pipeline, so
that `Enqueue` is its COMMIT and a 201 answer leads to a projected entry.

Not modelled, with no plan:

- Kafka publisher and GraphQL schema: mocks that no module of the API registers,
  an array and fixed data.
- SMS adapters: stateless, one HTTP call each whose outcome is returned; the
  notifications do not call them.
- Web page, health check, logger, scripts, seed data: input and output only.
- The immutability triggers and the audit log table: no code updates or deletes
  the rows of the one, or writes the other.

## 7. How to run

```
tlc -config MCPosting.cfg MCPosting        # any run: module and .cfg of PROJECT.json
tlapm ProjectionProofs.tla                 # any *Proofs module
```
