------------------------------ MODULE Reports -------------------------------
(***************************************************************************)
(* ReportsService over the two tables it reads: the committed journal, and *)
(* account_balances, into which the relay brings one posted entry after    *)
(* the other, in any order (see Posting and ReadModel).                    *)
(*                                                                         *)
(* One tenant and one currency.  Each report reads in one statement, so it *)
(* is an operator on the state.  Account codes are numbers of two digits.  *)
(* postEntry names neither occurred_at nor created_at, so both are the     *)
(* instant of its BEGIN (DEFAULT now()), whatever occurredAt the caller    *)
(* sent; entries that overlap may commit in another order.  The ends of a  *)
(* period are instants too: a date without a time is its first one.        *)
(*                                                                         *)
(* The driver hands NUMERIC values out as text, with a point if the value  *)
(* has decimal places, and BigInt throws at a point.  WholeText is FALSE   *)
(* for the code as it is written; TRUE reads such a text as its number.    *)
(* On its way into account_balances each amount is a double for a moment   *)
(* (parseFloat), and the server adds it up as NUMERIC again.               *)
(***************************************************************************)
EXTENDS Integers, Sequences, FiniteSets, Functions

CONSTANTS
  Codes,         \* the accounts, by their codes
  Postings,      \* the balanced entries that may be posted, as sequences of lines
  Instants,      \* the instants at which transactions begin
  MaxEntries,    \* bound on the journal
  ExportLimit,   \* ledgerExport: LIMIT
  WholeText,     \* BigInt accepts 100.0000
  Precise,       \* doubles are exact up to this amount; from here to twice as much,
                 \* every other amount is one
  NoRow          \* an account without a row in account_balances

\* The rows of journal_lines.
Lines == [account : Codes, direction : {"debit", "credit"}, amount : 1..2 * Precise]

\* The sum of f over the amounts that lines ls put on side dir.
SideOf(ls, dir, f) ==
  SumFunction([i \in {j \in DOMAIN ls : ls[j].direction = dir} |-> f[ls[i].amount]])

\* The amounts, each as itself.
Exact == [x \in 0..2 * Precise |-> x]

ASSUME ReportsAssumption ==
  /\ IsFiniteSet(Codes) /\ Codes \subseteq Nat \ {0}
  /\ Precise \in Nat /\ Precise % 2 = 0
  /\ Instants \subseteq Nat \ {0}
  /\ \A ls \in Postings : /\ ls \in Seq(Lines)
                          /\ SideOf(ls, "debit", Exact) = SideOf(ls, "credit", Exact)
  /\ NoRow \notin [debit : Int, credit : Int, net : Int]

VARIABLES
  journal,       \* journal_entries with their lines, in the order of their COMMITs
  projected,     \* the positions of the entries in ledger_projection
  balances       \* account_balances: account -> its row, or NoRow

vars == <<journal, projected, balances>>
-----------------------------------------------------------------------------
(* The tables.                                                             *)

\* The sum of f over the amounts that lines ls put on side dir of account a.
SumOf(ls, a, dir, f) ==
  SumFunction([i \in {j \in DOMAIN ls : ls[j].account = a /\ ls[j].direction = dir} |->
                 f[ls[i].amount]])

\* SUM(amount), as the server adds.
Sum(ls, a, dir) == SumOf(ls, a, dir, Exact)

\* The same over the lines of the entries in N.
SumIn(N, a, dir) == SumFunction([n \in N |-> Sum(journal[n].lines, a, dir)])

\* parseFloat, and the double's decimals: the nearest amount that is a double, of two
\* equally near ones the one whose last bit is 0.
Double == [x \in 0..2 * Precise |-> IF x <= Precise \/ x % 2 = 0 THEN x
                                    ELSE IF x % 4 = 1 THEN x - 1 ELSE x + 1]

\* What project() adds for those lines: each amount through a double.
Added(ls, a, dir) == SumOf(ls, a, dir, Double)

Booked(ls) == {ls[i].account : i \in DOMAIN ls}

ZeroRow == [debit |-> 0, credit |-> 0, net |-> 0]

\* Faulty variant: an addition to an existing row leaves the net balance alone.
UpsertedStaleNet(row, ls, a) ==
  [debit |-> (IF row = NoRow THEN ZeroRow ELSE row).debit + Added(ls, a, "debit"),
   credit |-> (IF row = NoRow THEN ZeroRow ELSE row).credit + Added(ls, a, "credit"),
   net |-> IF row = NoRow THEN Added(ls, a, "debit") - Added(ls, a, "credit") ELSE row.net]

\* Faulty variant: the totals are read, added to and written back as doubles.
UpsertedInDoubles(row, ls, a) ==
  LET old == IF row = NoRow THEN ZeroRow ELSE row
      total(was, more) == IF was + more <= 2 * Precise THEN Double[was + more]
                                                       ELSE was + more
      debit == total(old.debit, Added(ls, a, "debit"))
      credit == total(old.credit, Added(ls, a, "credit"))
  IN  [debit |-> debit, credit |-> credit, net |-> debit - credit]

\* The row of account a once the lines have been added to it.
Upserted(row, ls, a) ==
  LET old == IF row = NoRow THEN ZeroRow ELSE row
  IN  [debit |-> old.debit + Added(ls, a, "debit"),
       credit |-> old.credit + Added(ls, a, "credit"),
       net |-> old.net + Added(ls, a, "debit") - Added(ls, a, "credit")]

Init ==
  /\ journal = <<>>
  /\ projected = {}
  /\ balances = [a \in Codes |-> NoRow]

\* An entry commits whose transaction began at instant t.
Post(ls, t) ==
  /\ Len(journal) < MaxEntries
  /\ journal' = Append(journal, [occurred |-> t, lines |-> ls])
  /\ UNCHANGED <<projected, balances>>

\* Faulty variant: only the first two lines are added.
ProjectTwoLines(n) ==
  /\ n \notin projected
  /\ projected' = projected \cup {n}
  /\ LET ls == SubSeq(journal[n].lines, 1, 2)
     IN  balances' = [a \in Codes |-> IF a \in Booked(ls) THEN Upserted(balances[a], ls, a)
                                                          ELSE balances[a]]
  /\ UNCHANGED journal

\* Faulty variant: an entry that is delivered again is added again.
ProjectAgain(n) ==
  /\ projected' = projected \cup {n}
  /\ LET ls == journal[n].lines
     IN  balances' = [a \in Codes |-> IF a \in Booked(ls) THEN Upserted(balances[a], ls, a)
                                                          ELSE balances[a]]
  /\ UNCHANGED journal

\* The n-th entry enters the read model.
Project(n) ==
  /\ n \notin projected
  /\ projected' = projected \cup {n}
  /\ LET ls == journal[n].lines
     IN  balances' = [a \in Codes |-> IF a \in Booked(ls) THEN Upserted(balances[a], ls, a)
                                                          ELSE balances[a]]
  /\ UNCHANGED journal

Next ==
  \/ \E ls \in Postings, t \in Instants : Post(ls, t)
  \/ \E n \in DOMAIN journal : Project(n)

Spec == Init /\ [][Next]_vars
-----------------------------------------------------------------------------
(* The reports.                                                            *)

\* BigInt throws at these texts.
Unreadable(text) == text.point /\ ~WholeText

SyntaxError == [error |-> "SyntaxError"]

\* A row of trialBalance's SELECT: COALESCE(..., 0) prints without a point.
Row(a) ==
  LET text(value) == [value |-> value, point |-> balances[a] # NoRow]
      row == IF balances[a] = NoRow THEN ZeroRow ELSE balances[a]
  IN  [code |-> a, debit |-> text(row.debit), credit |-> text(row.credit),
       net |-> text(row.net)]

Rows == {Row(a) : a \in Codes}

NetOf(rows) == SumFunction([r \in rows |-> r.net.value])

TrialBalance ==
  LET debit == NetOf({r \in Rows : r.net.value >= 0})
      credit == -NetOf({r \in Rows : r.net.value < 0})
  IN  IF \E r \in Rows : Unreadable(r.net) THEN SyntaxError
      ELSE [error |-> "none", rows |-> Rows, totalDebit |-> debit, totalCredit |-> credit,
            balanced |-> debit = credit]

\* The first digit of a code.
Class(code) == code \div 10

OfClass(rows, d) == {r \in rows : Class(r.code) = d}

BalanceSheet ==
  LET tb == TrialBalance
      total(d) == NetOf(OfClass(tb.rows, d))
  IN  IF tb.error # "none" THEN tb
      ELSE [error |-> "none",
            totalAssets |-> total(1), totalLiabilities |-> total(2),
            totalEquity |-> total(3),
            balanced |-> total(1) = total(2) + total(3)]

Hierarchy ==
  LET tb == TrialBalance
  IN  IF tb.error # "none" THEN tb
      ELSE [error |-> "none", children |-> [d \in 1..5 |-> OfClass(tb.rows, d)]]

\* Faulty variant: BETWEEN without its upper end.
InPeriodHalfOpen(occurred, from, to) ==
  /\ from # 0 => from <= occurred
  /\ from # 0 /\ to # 0 => occurred < to

\* The date filter of incomeStatement, 0 for a parameter that is not given: `to` counts
\* only together with `from`.
InPeriod(occurred, from, to) ==
  /\ from # 0 => from <= occurred
  /\ from # 0 /\ to # 0 => occurred <= to

\* The entries the statement counts.
Counted(from, to) == {n \in DOMAIN journal : InPeriod(journal[n].occurred, from, to)}

\* The accounts of a class that the statement lists: without a filter the outer join
\* keeps accounts that nothing is booked on.
Listed(d, from, to) ==
  {a \in Codes : /\ Class(a) = d
                 /\ from = 0 \/ \E n \in Counted(from, to) : a \in Booked(journal[n].lines)}

ClassTotal(d, dir, from, to) ==
  SumFunction([a \in Listed(d, from, to) |-> SumIn(Counted(from, to), a, dir)])

IncomeStatement(from, to) ==
  LET point(a, dir) == \E n \in Counted(from, to) : Sum(journal[n].lines, a, dir) # 0
      unreadable(d, dir) ==
        \E a \in Listed(d, from, to) : Unreadable([point |-> point(a, dir)])
      revenue == ClassTotal(4, "credit", from, to)
      expenses == ClassTotal(5, "debit", from, to)
  IN  IF unreadable(4, "credit") \/ unreadable(5, "debit") THEN SyntaxError
      ELSE [error |-> "none", totalRevenue |-> revenue, totalExpenses |-> expenses,
            netIncome |-> revenue - expenses]

\* The lines ledgerExport selects, as <<entry, line>>; 0 for a parameter not given.
Selected(code, from, to) ==
  {x \in UNION {{n} \X DOMAIN journal[n].lines : n \in DOMAIN journal} :
     /\ code # 0 => journal[x[1]].lines[x[2]].account = code
     /\ from # 0 => from <= journal[x[1]].occurred
     /\ to # 0 => journal[x[1]].occurred <= to}

\* What it may return: the first ExportLimit of them by their entries' occurred_at and
\* created_at, which are the same; the order of lines of one instant is left open.
LedgerExports(code, from, to) ==
  LET all == Selected(code, from, to)
      earlier(x, y) == journal[x[1]].occurred < journal[y[1]].occurred
  IN  {out \in SUBSET all :
         /\ Cardinality(out) = IF Cardinality(all) <= ExportLimit THEN Cardinality(all)
                                                                  ELSE ExportLimit
         /\ \A x \in out, y \in all : earlier(y, x) => y \in out}
-----------------------------------------------------------------------------
(* Correctness.                                                            *)

\* The type invariant: an account has a row once a projected entry books on it, and
\* the row's net balance is its debits less its credits.
TypeOK ==
  /\ journal \in Seq([occurred : Instants, lines : Postings])
  /\ projected \subseteq DOMAIN journal
  /\ balances \in [Codes -> [debit : Int, credit : Int, net : Int] \cup {NoRow}]
  /\ \A a \in Codes :
       /\ balances[a] # NoRow <=> \E n \in projected : a \in Booked(journal[n].lines)
       /\ balances[a] # NoRow => balances[a].net = balances[a].debit - balances[a].credit

\* The lines that book on account a, of the entries in N, as <<entry, line>>.
LinesOn(a, N) ==
  {x \in UNION {{n} \X DOMAIN journal[n].lines : n \in N} :
     journal[x[1]].lines[x[2]].account = a}

\* Those whose amount is beyond what doubles hold exactly.
Large(a, N) == {x \in LinesOn(a, N) : journal[x[1]].lines[x[2]].amount > Precise}

\* Whatever part of the journal has been projected, in whatever order, the net balances
\* the trial balance selects cancel out as long as no single amount is too large for a
\* double, however large the totals are.  If it answers it is balanced then, and the
\* balance sheet leaves what the hierarchy has as revenue and expenses, if every code
\* begins with one of their digits (reports.service.ts 56-87, 94-121 and 246-253).
TrialBalanceHolds ==
  (\A a \in Codes : Large(a, projected) = {}) =>
    /\ NetOf(Rows) = 0
    /\ TrialBalance.error = "none" =>
         /\ TrialBalance.balanced
         /\ (\A a \in Codes : Class(a) \in 1..5) =>
              LET sheet == BalanceSheet
              IN  sheet.totalAssets + sheet.totalLiabilities + sheet.totalEquity =
                    -(NetOf(Hierarchy.children[4]) + NetOf(Hierarchy.children[5]))

\* A balance leaves the journal by one unit for each large amount and no further:
\* rounding is never rounded again, as it is the server that adds
\* (projection.service.ts 160-170).
DriftIsBounded ==
  \A a \in Codes : balances[a] # NoRow =>
    \A dir \in {"debit", "credit"} :
      LET off == balances[a][dir] - SumIn(projected, a, dir)
          large == {x \in Large(a, projected) : journal[x[1]].lines[x[2]].direction = dir}
      IN  -Cardinality(large) <= off /\ off <= Cardinality(large)

\* What the lines out of the journal amount to on one side.
Exported(out, dir) ==
  SumFunction([x \in out |-> LET l == journal[x[1]].lines[x[2]]
                             IN  IF l.direction = dir THEN l.amount ELSE 0])

\* Once the relay has caught up, the reports from the journal and those from the
\* balances agree if no amount is too large for a double: the totals of the income
\* statement with those of its accounts' rows, and the export of an account that fits
\* the limit with its row (lines 56-70, 139-165 and 208-225).
ReportsAgree ==
  projected = DOMAIN journal /\ (\A a \in Codes : Large(a, projected) = {}) =>
    /\ LET total(d, dir) == SumFunction([r \in OfClass(Rows, d) |-> r[dir].value])
       IN  /\ ClassTotal(4, "credit", 0, 0) = total(4, "credit")
           /\ ClassTotal(5, "debit", 0, 0) = total(5, "debit")
           /\ IncomeStatement(0, 0).error = "none" =>
                IncomeStatement(0, 0).netIncome = total(4, "credit") - total(5, "debit")
    /\ \A a \in Codes : \A out \in LedgerExports(a, 0, 0) :
         Cardinality(Selected(a, 0, 0)) <= ExportLimit =>
           /\ Exported(out, "debit") = Row(a).debit.value
           /\ Exported(out, "credit") = Row(a).credit.value

\* The ends a period may have, 0 for none; the statement counts `to` only with `from`.
Periods == {p \in ({0} \cup Instants) \X ({0} \cup Instants) : p[1] # 0 \/ p[2] = 0}

\* The lines in out that book on accounts of class d.
InClassOf(out, d) == {x \in out : Class(journal[x[1]].lines[x[2]].account) = d}

\* At any moment and for every period, the totals of the income statement are those of
\* the lines that the export of the same period lists on its accounts, if it fits the
\* limit: both ends count, in both (lines 129-151 and 188-224).
StatementMatchesExport ==
  \A p \in Periods : Cardinality(Selected(0, p[1], p[2])) <= ExportLimit =>
    \A out \in LedgerExports(0, p[1], p[2]), d \in {4, 5}, dir \in {"debit", "credit"} :
      ClassTotal(d, dir, p[1], p[2]) = Exported(InClassOf(out, d), dir)

\* The trial balance of the accounts can be had (line 50).
ReportsAnswer == TrialBalance.error = "none"
=============================================================================
