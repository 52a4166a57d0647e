-------------------------- MODULE MCAccountingCore --------------------------
(***************************************************************************)
(* Instances of AccountingCore for TLC.                                    *)
(***************************************************************************)
EXTENDS AccountingCore, SequencesExt

LinesOver(accounts, amounts, currencies) ==
  [account : accounts, side : Side, amount : amounts, currency : currencies,
   memo : {""}]

Entry(header, currency, ls) == [header |-> header, currency |-> currency, lines |-> ls]

\* Everything validateEntry tells apart, in entries of up to two lines: bad headers,
\* a missing account, negative and zero amounts, a foreign currency.
ShortEntries ==
  {Entry(header, "USD", ls) :
     header \in {"none", "INVALID_INPUT"},
     ls \in BoundedSeq(LinesOver({0, 1, 2}, {-1, 0, 2}, {"USD", "EUR"}), 2)}

\* Three lines in dollars on two accounts: splits, both sides on one account, every
\* order of the lines; and entries in euros, one account shared with the others.
LongEntries ==
  {Entry("none", "USD", ls) :
     ls \in [1..3 -> LinesOver({1, 2}, {1, 2, 3}, {"USD"})]}
  \cup {Entry("none", "EUR", ls) :
          ls \in [1..2 -> LinesOver({2, 3}, {1}, {"EUR"})]}

\* Three lines of which two may differ in nothing but their memos.
EntriesWithMemos ==
  {Entry("none", "USD", ls) :
     ls \in [1..3 -> [account : {1}, side : {"DEBIT"}, amount : {2},
                      currency : {"USD"}, memo : {""}]
                     \cup [account : {2}, side : {"CREDIT"}, amount : {1},
                           currency : {"USD"}, memo : {"rent", "power"}]]}

AllEntries == ShortEntries \cup LongEntries \cup EntriesWithMemos
=============================================================================
