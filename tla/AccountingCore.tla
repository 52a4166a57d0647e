--------------------------- MODULE AccountingCore ---------------------------
(***************************************************************************)
(* The pure functions of packages/accounting-core, and a caller that keeps *)
(* books with them: it validates each entry, appends the accepted ones to  *)
(* a journal and their lines to a book, and adds the projection deltas of  *)
(* each one's stored lines to running totals.                              *)
(*                                                                         *)
(* Accounts are numbers in the order of their ids, 0 standing for a        *)
(* missing one.  A function that throws returns its error code.  A line    *)
(* without a memo has the empty one; an entry's own memo is left out.  The *)
(* specification's own names speak of books, as a proof module extends     *)
(* this one together with Reports.                                         *)
(***************************************************************************)
EXTENDS Integers, Sequences, FiniteSets, Functions

CONSTANTS
  Inputs,        \* the JournalEntryInputs the caller may submit
  MaxAccepted    \* bound on the accepted entries

Side == {"DEBIT", "CREDIT"}

LineInputs ==
  [account : Nat, side : Side, amount : Int, currency : STRING, memo : STRING]

ASSUME CoreAssumption ==
  /\ Inputs \subseteq [header : STRING, currency : STRING, lines : Seq(LineInputs)]
  /\ MaxAccepted \in Nat

Scale == 10000   \* projectionDeltas: four decimal places

VARIABLES
  entries,       \* the validated entries, in the order they were accepted
  book,          \* their lines in one array, for balancePerAccount
  totals         \* account -> the deltas added up so far

booksVars == <<entries, book, totals>>

\* The first of the positions I.
First(I) == CHOOSE i \in I : \A j \in I : i <= j

\* The elements of S in the order that has the pairs R.
Arranged(S, R) ==
  CHOOSE f \in Bijection(1..Cardinality(S), S) :
    \A m, n \in 1..Cardinality(S) : m < n => <<f[m], f[n]>> \in R
-----------------------------------------------------------------------------
(* posting.ts                                                              *)

\* The sum of the amounts of the lines at the positions I.
SumMoney(ls, I) == SumFunction([i \in I |-> ls[i].amount])

Debits(ls) == SumMoney(ls, {i \in DOMAIN ls : ls[i].side = "DEBIT"})
Credits(ls) == SumMoney(ls, {i \in DOMAIN ls : ls[i].side = "CREDIT"})

\* Faulty variant: a line without an amount passes.
LineFaultLax(l, currency) ==
  CASE l.account = 0 -> "INVALID_INPUT"
    [] l.account # 0 /\ l.amount < 0 -> "NEGATIVE_AMOUNT"
    [] l.account # 0 /\ l.amount >= 0 /\ l.currency # currency -> "CURRENCY_MISMATCH"
    [] OTHER -> "none"

\* What the loop over the lines throws at line l.
LineFault(l, currency) ==
  IF l.account = 0 THEN "INVALID_INPUT"
  ELSE IF l.amount < 0 THEN "NEGATIVE_AMOUNT"
  ELSE IF l.amount = 0 THEN "INVALID_INPUT"
  ELSE IF l.currency # currency THEN "CURRENCY_MISMATCH"
  ELSE "none"

\* Faulty variant: one debit and one credit are enough.
RefusalOfOneSided(input) ==
  LET ls == input.lines
      faults == {i \in DOMAIN ls : LineFault(ls[i], input.currency) # "none"}
  IN  IF input.header # "none" THEN input.header
      ELSE IF Len(ls) < 2 THEN "EMPTY_LINES"
      ELSE IF faults # {} THEN LineFault(ls[First(faults)], input.currency)
      ELSE IF \A i, j \in DOMAIN ls : ls[i].side = ls[j].side THEN "UNBALANCED_ENTRY"
      ELSE "none"

\* The error validateEntry throws, if any; header is that of its checks of tenant,
\* key and date.
Refusal(input) ==
  LET ls == input.lines
      faults == {i \in DOMAIN ls : LineFault(ls[i], input.currency) # "none"}
  IN  IF input.header # "none" THEN input.header
      ELSE IF Len(ls) < 2 THEN "EMPTY_LINES"
      ELSE IF faults # {} THEN LineFault(ls[First(faults)], input.currency)
      ELSE IF \A i, j \in DOMAIN ls : ls[i].side = ls[j].side THEN "UNBALANCED_ENTRY"
      ELSE IF Debits(ls) # Credits(ls) THEN "UNBALANCED_ENTRY"
      ELSE "none"

\* Faulty variant: the comparator without its last criterion.
BeforeBySide(l, m) ==
  \/ l.account < m.account
  \/ l.account = m.account /\ l.side = "DEBIT" /\ m.side = "CREDIT"

\* The comparator of the sort: account, debits first, amount; never the memo.
Before(l, m) ==
  \/ l.account < m.account
  \/ /\ l.account = m.account
     /\ \/ l.side = "DEBIT" /\ m.side = "CREDIT"
        \/ l.side = m.side /\ l.amount < m.amount

\* Array.prototype.sort is stable: lines that compare equal keep their order.
Precedes(ls, i, j) == Before(ls[i], ls[j]) \/ (~Before(ls[j], ls[i]) /\ i < j)

Sorted(ls) ==
  LET order == Arranged(DOMAIN ls, {p \in (DOMAIN ls) \X (DOMAIN ls) :
                                      Precedes(ls, p[1], p[2])})
  IN  [n \in DOMAIN ls |-> ls[order[n]]]

\* What validateEntry returns of an entry it does not refuse.
Validated(input) ==
  [currency |-> input.currency, lines |-> Sorted(input.lines),
   totalDebit |-> Debits(input.lines), totalCredit |-> Credits(input.lines)]
-----------------------------------------------------------------------------
(* balance.ts                                                              *)

AccountsOf(ls) == {ls[i].account : i \in DOMAIN ls}

\* An account has the currency of its first line, and every other line must agree.
BalancePerAccount(ls) ==
  LET opening(a) == ls[First({i \in DOMAIN ls : ls[i].account = a})]
      of(a, side) ==
        SumMoney(ls, {i \in DOMAIN ls : ls[i].account = a /\ ls[i].side = side})
  IN  IF ls = <<>> THEN [error |-> "INVALID_INPUT"]
      ELSE IF \E i \in DOMAIN ls : ls[i].currency # opening(ls[i].account).currency
        THEN [error |-> "CURRENCY_MISMATCH"]
      ELSE [error |-> "none",
            of |-> [a \in AccountsOf(ls) |->
                      [currency |-> opening(a).currency,
                       debit |-> of(a, "DEBIT"), credit |-> of(a, "CREDIT"),
                       net |-> of(a, "DEBIT") - of(a, "CREDIT")]]]

\* One row per account, in the order of the accounts, and the totals of the columns.
TrialBalanceFromMap(of) ==
  LET accounts == Arranged(DOMAIN of, {p \in (DOMAIN of) \X (DOMAIN of) : p[1] < p[2]})
      debit == SumFunction([a \in DOMAIN of |-> of[a].debit])
      credit == SumFunction([a \in DOMAIN of |-> of[a].credit])
  IN  IF DOMAIN of = {} THEN [error |-> "INVALID_INPUT"]
      ELSE IF Cardinality({of[a].currency : a \in DOMAIN of}) > 1
        THEN [error |-> "CURRENCY_MISMATCH"]
      ELSE [error |-> "none",
            rows |-> [n \in DOMAIN accounts |->
                        [account |-> accounts[n], debit |-> of[accounts[n]].debit,
                         credit |-> of[accounts[n]].credit]],
            totalDebit |-> debit, totalCredit |-> credit, balanced |-> debit = credit]

TrialBalanceFromLines(ls) ==
  LET perAccount == BalancePerAccount(ls)
  IN  IF perAccount.error = "none" THEN TrialBalanceFromMap(perAccount.of) ELSE perAccount

\* An amount as NUMERIC(20,4) prints it: always with a point and four decimals, here
\* their number.
NumericText(amount) == [whole |-> amount, point |-> TRUE, decimals |-> 0]

\* The amount projectionDeltas reads from a text: the digits without the point.
AmountMinor(text) ==
  IF text.point THEN text.whole * Scale + text.decimals ELSE text.whole

\* The stored lines of an entry, as the database hands them out.
DbLines(ls) ==
  [n \in DOMAIN ls |-> [account |-> ls[n].account, side |-> ls[n].side,
                        text |-> NumericText(ls[n].amount)]]

\* Faulty variant: the last line of an account and side replaces the others.
ProjectionDeltasOfLast(dbLines) ==
  [a \in AccountsOf(dbLines) |->
     LET last(side) == {i \in DOMAIN dbLines :
                          /\ dbLines[i].account = a /\ dbLines[i].side = side
                          /\ \A j \in DOMAIN dbLines :
                               dbLines[j].account = a /\ dbLines[j].side = side => j <= i}
         of(side) == SumFunction([i \in last(side) |-> AmountMinor(dbLines[i].text)])
     IN  [debit |-> of("DEBIT"), credit |-> of("CREDIT")]]

\* Per account, the amounts of its debits and of its credits.
ProjectionDeltas(dbLines) ==
  [a \in AccountsOf(dbLines) |->
     LET at(side) == {i \in DOMAIN dbLines :
                        dbLines[i].account = a /\ dbLines[i].side = side}
         of(side) == SumFunction([i \in at(side) |-> AmountMinor(dbLines[i].text)])
     IN  [debit |-> of("DEBIT"), credit |-> of("CREDIT")]]
-----------------------------------------------------------------------------
(* The caller.                                                             *)

Accounts == UNION {AccountsOf(input.lines) : input \in Inputs}

BooksInit ==
  /\ entries = <<>> /\ book = <<>>
  /\ totals = [a \in Accounts |-> [debit |-> 0, credit |-> 0]]

\* An entry is submitted and accepted; a refused one changes nothing.
Submit(input) ==
  /\ Len(entries) < MaxAccepted
  /\ Refusal(input) = "none"
  /\ entries' = Append(entries, Validated(input))
  /\ book' = book \o Validated(input).lines
  /\ LET deltas == ProjectionDeltas(DbLines(Validated(input).lines))
     IN  totals' = [a \in Accounts |->
                      IF a \in DOMAIN deltas
                        THEN [debit |-> totals[a].debit + deltas[a].debit,
                              credit |-> totals[a].credit + deltas[a].credit]
                        ELSE totals[a]]

BooksNext == \E input \in Inputs : Submit(input)

BooksSpec == BooksInit /\ [][BooksNext]_booksVars
-----------------------------------------------------------------------------
(* Correctness.                                                            *)

Currencies == {book[i].currency : i \in DOMAIN book}

\* Lines that may be stored.
Stored == [account : Accounts \ {0}, side : Side, amount : Nat \ {0},
           currency : STRING, memo : STRING]

\* The type invariant: the books hold well-formed double entries.
BooksTypeOK ==
  /\ entries \in Seq([currency : STRING, lines : Seq(Stored), totalDebit : Nat,
                      totalCredit : Nat])
  /\ \A n \in DOMAIN entries :
       /\ Len(entries[n].lines) >= 2
       /\ \A i \in DOMAIN entries[n].lines :
            entries[n].lines[i].currency = entries[n].currency
  /\ book \in Seq(Stored)
  /\ totals \in [Accounts -> [debit : Nat, credit : Nat]]

\* However many accepted entries the books hold, the trial balance from all their
\* lines balances, with one row per account, in order, if there is one currency; with
\* several it is refused (balance.ts 96-98, 118 and 124; posting.ts 66).
TrialBalances ==
  entries # <<>> =>
    LET tb == TrialBalanceFromLines(book)
    IN  IF Cardinality(Currencies) = 1
          THEN /\ tb.error = "none" /\ tb.balanced
               /\ tb.totalDebit = SumFunction([n \in DOMAIN entries |->
                                                 entries[n].totalDebit])
               /\ {tb.rows[n].account : n \in DOMAIN tb.rows} = AccountsOf(book)
               /\ \A m, n \in DOMAIN tb.rows :
                    m < n => tb.rows[m].account < tb.rows[n].account
          ELSE tb.error = "CURRENCY_MISMATCH"

\* Balances kept entry by entry agree with those computed from all lines, up to the
\* scale of projectionDeltas (balance.ts 139-175 against 32-68).
DeltasAddUp ==
  LET perAccount == BalancePerAccount(book)
  IN  entries # <<>> /\ perAccount.error = "none" =>
        \A a \in DOMAIN perAccount.of :
          /\ totals[a].debit = Scale * perAccount.of[a].debit
          /\ totals[a].credit = Scale * perAccount.of[a].credit

\* ls and ms hold the same lines, perhaps in different orders.
SameLines(ls, ms) ==
  \E p \in Bijection(DOMAIN ls, DOMAIN ms) : \A i \in DOMAIN ls : ls[i] = ms[p[i]]

\* Lines that differ in nothing but their memos.
AlikeButForMemo(l, m) ==
  /\ l.account = m.account /\ l.side = m.side
  /\ l.amount = m.amount /\ l.currency = m.currency

\* The same lines in another order are accepted in a form that differs at most in which
\* of several memos comes first, and not at all where lines that are alike have the same
\* memo: a retry whose lines are reordered can be recognised by all but its memos
\* (posting.ts 20-21 and 73-78).
SameLinesSameForm ==
  \A m, n \in DOMAIN entries :
    LET ls == entries[m].lines
        ms == entries[n].lines
    IN  SameLines(ls, ms) =>
          /\ \A i \in DOMAIN ls : AlikeButForMemo(ls[i], ms[i])
          /\ (\A i, j \in DOMAIN ls : AlikeButForMemo(ls[i], ls[j]) => ls[i] = ls[j])
               => ls = ms
=============================================================================
