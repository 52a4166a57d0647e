--------------------------- MODULE BalancesProofs ---------------------------
(***************************************************************************)
(* Balances and trial balances, computed twice in the code, and proved of  *)
(* each.  First the reports, over the database: for every chart of         *)
(* accounts, journal of balanced entries and order in which its entries    *)
(* are projected, a row of account_balances is the sum of what its         *)
(* projected entries brought, and the reports follow from it.  Then the    *)
(* library, over arrays of lines: for all inputs its caller may submit,    *)
(* what it accepts is in one order and balances.                           *)
(***************************************************************************)
EXTENDS Reports, AccountingCore, Sums, SequenceTheorems, TLAPS

\* What the projected entries have brought to side dir of account a.
Brought(a, dir) == [n \in projected |-> Added(journal[n].lines, a, dir)]

\* What an account without a row is taken to have.
Shown(a) == IF balances[a] = NoRow THEN ZeroRow ELSE balances[a]

\* The row that makes.
RowOf(a) ==
  [debit |-> SumFunction(Brought(a, "debit")),
   credit |-> SumFunction(Brought(a, "credit")),
   net |-> SumFunction(Brought(a, "debit")) - SumFunction(Brought(a, "credit"))]

\* Every balance is the sum of what was brought to it.
RowsAreSums == \A a \in Codes : Shown(a) = RowOf(a)

\* The inductive invariant.
IInv == TypeOK /\ RowsAreSums
-----------------------------------------------------------------------------
(* The lines of an entry.                                                  *)

\* The places of the lines on side dir of account a.
At(ls, a, dir) == {j \in DOMAIN ls : ls[j].account = a /\ ls[j].direction = dir}

\* f takes amounts to numbers.
OnAmounts(f) == \A x \in 1..2 * Precise : f[x] \in Int

\* The doubles next to an amount are numbers, and so is the amount.
LEMMA AmountFunctions == OnAmounts(Double) /\ OnAmounts(Exact)
<1>1. Precise \in Nat
  BY ReportsAssumption
<1> QED
  BY <1>1 DEF OnAmounts, Double, Exact

\* The lines of an entry are lines, finitely many.
LEMMA LinesType ==
  ASSUME NEW ls \in Seq(Lines)
  PROVE  /\ IsFiniteSet(DOMAIN ls)
         /\ \A i \in DOMAIN ls : ls[i] \in Lines
<1>1. IsFiniteSet(DOMAIN ls)
  BY LenProperties, FS_Interval
<1> QED
  BY <1>1, ElementOfSeq, LenProperties

\* What lines add to one side of an account is a number, 0 if none of them is there.
LEMMA SumOfType ==
  ASSUME NEW ls \in Seq(Lines), NEW a, NEW dir, NEW f, OnAmounts(f)
  PROVE  /\ IsFiniteSet(At(ls, a, dir))
         /\ SumOf(ls, a, dir, f) \in Int
         /\ a \notin Booked(ls) => SumOf(ls, a, dir, f) = 0
<1> DEFINE S == At(ls, a, dir)
           g == [i \in S |-> f[ls[i].amount]]
<1>1. SumOf(ls, a, dir, f) = SumFunctionOnSet(g, S)
  BY DEF SumOf, SumFunction, At
<1>2. IsFiniteSet(S)
  BY LinesType, FS_Subset DEF At
<1>3. \A i \in S : g[i] \in Int
  BY LinesType DEF OnAmounts, At, Lines
<1>4. a \notin Booked(ls) => S = {}
  BY DEF Booked, At
<1> HIDE DEF g, S
<1>5. SumFunctionOnSet(g, S) \in Int
  BY <1>2, <1>3, SumInt
<1>6. S = {} => SumFunctionOnSet(g, S) = 0
  <2> SUFFICES ASSUME S = {} PROVE SumFunctionOnSet(g, S) = 0
    OBVIOUS
  <2>1. SumFunctionOnSet(g, {}) = 0
    BY SumEmpty
  <2> QED
    BY <2>1
<1> QED
  BY <1>1, <1>2, <1>4, <1>5, <1>6 DEF S

\* What project() adds is a number, 0 for an account the entry does not book on.
LEMMA AddedType ==
  ASSUME NEW ls \in Seq(Lines), NEW a, NEW dir
  PROVE  /\ Added(ls, a, dir) \in Int
         /\ a \notin Booked(ls) => Added(ls, a, dir) = 0
  BY SumOfType, AmountFunctions DEF Added

\* The entries of the journal.
LEMMA EntryType ==
  ASSUME TypeOK, NEW n \in DOMAIN journal
  PROVE  /\ journal[n].occurred \in Nat \ {0}
         /\ journal[n].lines \in Seq(Lines)
         /\ SideOf(journal[n].lines, "debit", Exact) =
              SideOf(journal[n].lines, "credit", Exact)
<1> DEFINE E == [occurred : Instants, lines : Postings]
<1>1. journal \in Seq(E)
  BY DEF TypeOK
<1>2. journal[n] \in E
  <2> HIDE DEF E
  <2> QED
    BY <1>1, ElementOfSeq, LenProperties
<1> QED
  BY <1>2, ReportsAssumption

\* There are finitely many of them.
LEMMA FiniteJournal ==
  ASSUME TypeOK
  PROVE  /\ IsFiniteSet(DOMAIN journal)
         /\ IsFiniteSet(projected)
<1>1. IsFiniteSet(DOMAIN journal)
  BY LenProperties, FS_Interval DEF TypeOK
<1> QED
  BY <1>1, FS_Subset DEF TypeOK
-----------------------------------------------------------------------------
(* The invariant.                                                          *)

\* The sums of what was brought are numbers.
LEMMA BroughtType ==
  ASSUME TypeOK, NEW a, NEW dir
  PROVE  /\ \A n \in projected : Brought(a, dir)[n] \in Int
         /\ SumFunction(Brought(a, dir)) = SumFunctionOnSet(Brought(a, dir), projected)
         /\ SumFunction(Brought(a, dir)) \in Int
<1>1. \A n \in projected : Brought(a, dir)[n] \in Int
  BY EntryType, AddedType DEF Brought, TypeOK
<1>2. SumFunction(Brought(a, dir)) = SumFunctionOnSet(Brought(a, dir), projected)
  BY DEF Brought, SumFunction
<1>3. SumFunctionOnSet(Brought(a, dir), projected) \in Int
  BY <1>1, FiniteJournal, SumInt
<1> QED
  BY <1>1, <1>2, <1>3

\* The initial state.
LEMMA InitIInv == Init => IInv
<1> SUFFICES ASSUME Init PROVE IInv
  OBVIOUS
<1>1. TypeOK
  BY DEF Init, TypeOK
<1>2. ASSUME NEW a, NEW dir
      PROVE  SumFunction(Brought(a, dir)) = 0
  <2>1. SumFunctionOnSet(Brought(a, dir), projected) = 0
    BY SumEmpty DEF Init
  <2> QED
    BY <1>1, <2>1, BroughtType
<1> QED
  BY <1>1, <1>2 DEF IInv, RowsAreSums, RowOf, Shown, ZeroRow, Init

\* A new entry changes nothing of those before it.
LEMMA PostIInv ==
  ASSUME IInv, NEW ls \in Postings, NEW t \in Instants, Post(ls, t)
  PROVE  IInv'
<1>1. /\ journal' \in Seq([occurred : Instants, lines : Postings])
      /\ DOMAIN journal \subseteq DOMAIN journal'
      /\ \A n \in DOMAIN journal : journal'[n] = journal[n]
  BY AppendProperties, LenProperties DEF IInv, TypeOK, Post
<1>2. projected' = projected /\ balances' = balances
  BY DEF Post
<1>3. \A n \in projected : journal'[n] = journal[n]
  BY <1>1 DEF IInv, TypeOK
<1>4. \A a, dir : Brought(a, dir)' = Brought(a, dir)
  BY <1>2, <1>3 DEF Brought
<1>5. TypeOK'
  BY <1>1, <1>2, <1>3 DEF IInv, TypeOK
<1> QED
  BY <1>2, <1>4, <1>5 DEF IInv, RowsAreSums, RowOf, Shown

\* An entry that is projected is added to the sums of its accounts.
LEMMA BroughtGrows ==
  ASSUME TypeOK, NEW n \in DOMAIN journal, Project(n), NEW a, NEW dir
  PROVE  SumFunction(Brought(a, dir))' =
           SumFunction(Brought(a, dir)) + Added(journal[n].lines, a, dir)
<1> DEFINE f == Brought(a, dir)
           g == [m \in projected \cup {n} |-> Added(journal[m].lines, a, dir)]
           v == Added(journal[n].lines, a, dir)
<1>1. n \notin projected /\ journal' = journal /\ projected' = projected \cup {n}
  BY DEF Project
<1>2. SumFunction(Brought(a, dir))' = SumFunctionOnSet(g, projected \cup {n})
  BY <1>1 DEF Brought, SumFunction
<1>3. SumFunction(f) = SumFunctionOnSet(f, projected)
  BY BroughtType
<1>4. \A m \in projected \cup {n} : g[m] \in Int
  BY EntryType, AddedType DEF TypeOK
<1>5. \A m \in projected : g[m] = f[m]
  BY DEF Brought
<1>6. g[n] = v
  OBVIOUS
<1>7. IsFiniteSet(projected)
  BY FiniteJournal
<1> HIDE DEF f, g, v
<1>8. SumFunctionOnSet(g, projected \cup {n}) = g[n] + SumFunctionOnSet(g, projected)
  BY <1>1, <1>4, <1>7, SumAdd
<1>9. SumFunctionOnSet(g, projected) = SumFunctionOnSet(f, projected)
  BY <1>5, <1>7, SumEqual
<1>10. SumFunction(f) \in Int /\ v \in Int
  BY BroughtType, EntryType, AddedType DEF f, v
<1>11. SumFunction(Brought(a, dir))' = SumFunction(f) + v
  BY <1>2, <1>3, <1>6, <1>8, <1>9, <1>10
<1> QED
  BY <1>11 DEF f, v

\* project() keeps the rows the sums of what was brought to them.
LEMMA ProjectIInv ==
  ASSUME IInv, NEW n \in DOMAIN journal, Project(n)
  PROVE  IInv'
<1> DEFINE ls == journal[n].lines
           d(a) == SumFunction(Brought(a, "debit"))
           c(a) == SumFunction(Brought(a, "credit"))
           p(a) == Added(ls, a, "debit")
           q(a) == Added(ls, a, "credit")
<1>1. journal' = journal /\ projected' = projected \cup {n} /\ n \notin projected
  BY DEF Project
<1>2. ls \in Seq(Lines)
  BY EntryType DEF IInv
<1>3. ASSUME NEW a \in Codes
      PROVE  /\ d(a) \in Int /\ c(a) \in Int /\ p(a) \in Int /\ q(a) \in Int
             /\ d(a)' = d(a) + p(a) /\ c(a)' = c(a) + q(a)
             /\ a \notin Booked(ls) => p(a) = 0 /\ q(a) = 0
             /\ Shown(a) = [debit |-> d(a), credit |-> c(a), net |-> d(a) - c(a)]
  <2>1. d(a) \in Int /\ c(a) \in Int
    BY BroughtType DEF IInv
  <2>2. /\ p(a) \in Int /\ q(a) \in Int
        /\ a \notin Booked(ls) => p(a) = 0 /\ q(a) = 0
    BY <1>2, AddedType
  <2>3. d(a)' = d(a) + p(a) /\ c(a)' = c(a) + q(a)
    BY BroughtGrows DEF IInv
  <2>4. Shown(a) = [debit |-> d(a), credit |-> c(a), net |-> d(a) - c(a)]
    BY DEF IInv, RowsAreSums, RowOf
  <2> QED
    BY <2>1, <2>2, <2>3, <2>4
<1>4. \A a \in Codes : balances'[a] = IF a \in Booked(ls) THEN Upserted(balances[a], ls, a)
                                                          ELSE balances[a]
  BY DEF Project
<1>5. ASSUME NEW a \in Codes, a \in Booked(ls)
      PROVE  /\ balances'[a] = [debit |-> d(a)', credit |-> c(a)', net |-> d(a)' - c(a)']
             /\ balances'[a] \in [debit : Int, credit : Int, net : Int]
  <2>1. balances'[a] = [debit |-> Shown(a).debit + p(a), credit |-> Shown(a).credit + q(a),
                        net |-> Shown(a).net + p(a) - q(a)]
    BY <1>4, <1>5 DEF Upserted, Shown
  <2>2. /\ d(a) \in Int /\ c(a) \in Int /\ p(a) \in Int /\ q(a) \in Int
        /\ d(a)' = d(a) + p(a) /\ c(a)' = c(a) + q(a)
        /\ Shown(a) = [debit |-> d(a), credit |-> c(a), net |-> d(a) - c(a)]
    BY <1>3
  <2> HIDE DEF d, c, p, q
  <2>3. balances'[a] = [debit |-> d(a) + p(a), credit |-> c(a) + q(a),
                        net |-> (d(a) - c(a)) + p(a) - q(a)]
    BY <2>1, <2>2
  <2>4. (d(a) - c(a)) + p(a) - q(a) = d(a)' - c(a)'
    BY <2>2
  <2> QED
    BY <2>2, <2>3, <2>4
<1>6. ASSUME NEW a \in Codes, a \notin Booked(ls)
      PROVE  balances'[a] = balances[a] /\ d(a)' = d(a) /\ c(a)' = c(a)
  <2>1. /\ d(a) \in Int /\ c(a) \in Int /\ p(a) = 0 /\ q(a) = 0
        /\ d(a)' = d(a) + p(a) /\ c(a)' = c(a) + q(a)
    BY <1>3, <1>6
  <2> HIDE DEF d, c, p, q
  <2> QED
    BY <1>4, <1>6, <2>1
<1>7. RowsAreSums'
  <2> SUFFICES ASSUME NEW a \in Codes
               PROVE  Shown(a)' = [debit |-> d(a)', credit |-> c(a)', net |-> d(a)' - c(a)']
    BY DEF RowsAreSums, RowOf
  <2>1. CASE a \in Booked(ls)
    BY <1>5, <2>1, ReportsAssumption DEF Shown
  <2>2. CASE a \notin Booked(ls)
    BY <1>3, <1>6, <2>2 DEF Shown
  <2> QED
    BY <2>1, <2>2
<1>8. TypeOK'
  <2>1. projected' \subseteq DOMAIN journal'
    BY <1>1 DEF IInv, TypeOK
  <2>2. balances' \in [Codes -> [debit : Int, credit : Int, net : Int] \cup {NoRow}]
    <3>1. \A a \in Codes :
            balances'[a] \in [debit : Int, credit : Int, net : Int] \cup {NoRow}
      BY <1>5, <1>6 DEF IInv, TypeOK
    <3>2. balances' = [a \in Codes |-> balances'[a]]
      BY DEF Project
    <3> QED
      BY <3>1, <3>2
  <2>3. ASSUME NEW a \in Codes
        PROVE  /\ balances'[a] # NoRow <=>
                    \E m \in projected' : a \in Booked(journal'[m].lines)
               /\ balances'[a] # NoRow =>
                    balances'[a].net = balances'[a].debit - balances'[a].credit
    <3>1. CASE a \in Booked(ls)
      <4>1. balances'[a] # NoRow
        BY <1>5, <3>1, ReportsAssumption
      <4>2. \E m \in projected' : a \in Booked(journal'[m].lines)
        BY <1>1, <3>1
      <4>3. balances'[a] = [debit |-> d(a)', credit |-> c(a)', net |-> d(a)' - c(a)']
        BY <1>5, <3>1
      <4> HIDE DEF d, c
      <4> QED
        BY <4>1, <4>2, <4>3
    <3>2. CASE a \notin Booked(ls)
      BY <1>1, <1>6, <3>2 DEF IInv, TypeOK
    <3> QED
      BY <3>1, <3>2
  <2> QED
    BY <1>1, <2>1, <2>2, <2>3 DEF IInv, TypeOK
<1> QED
  BY <1>7, <1>8 DEF IInv

\* Every step keeps the invariant.
LEMMA NextIInv == IInv /\ [Next]_vars => IInv'
<1> SUFFICES ASSUME IInv, [Next]_vars PROVE IInv'
  OBVIOUS
<1>1. CASE UNCHANGED vars
  <2>1. \A a, dir : Brought(a, dir)' = Brought(a, dir)
    BY <1>1 DEF vars, Brought
  <2> QED
    BY <1>1, <2>1 DEF vars, IInv, TypeOK, RowsAreSums, RowOf, Shown
<1> QED
  BY <1>1, PostIInv, ProjectIInv DEF Next

\* The invariant holds in every behaviour.
LEMMA Invariance == Spec => []IInv
  BY InitIInv, NextIInv, PTL DEF Spec

\* An account has a row once a projected entry books on it, and its net balance is
\* its debits less its credits (projection.service.ts 158-180).
THEOREM ReportsTypeCorrect == Spec => []TypeOK
  BY Invariance, PTL DEF IInv
-----------------------------------------------------------------------------
(* Sums over the lines of several entries.                                 *)

\* The lines on side dir of account a, of the entries in N, as <<entry, line>>.
LinesAt(a, dir, N) == {x \in LinesOn(a, N) : journal[x[1]].lines[x[2]].direction = dir}

\* The amount of such a line.
AmountOf(x) == journal[x[1]].lines[x[2]].amount

\* f of the amounts of the lines in S.
Amounts(f, S) == [x \in S |-> f[AmountOf(x)]]

\* The lines at an account are lines of their entries.
LEMMA LinesAtType ==
  ASSUME TypeOK, NEW N \in SUBSET DOMAIN journal, NEW a, NEW dir
  PROVE  /\ LinesAt(a, dir, N) =
              UNION {{<<n, i>> : i \in At(journal[n].lines, a, dir)} : n \in N}
         /\ \A x \in LinesAt(a, dir, N) : AmountOf(x) \in 1..2 * Precise
<1>1. LinesAt(a, dir, N) = UNION {{<<n, i>> : i \in At(journal[n].lines, a, dir)} : n \in N}
  BY DEF LinesAt, LinesOn, At
<1>2. ASSUME NEW n \in N, NEW i \in At(journal[n].lines, a, dir)
      PROVE  journal[n].lines[i].amount \in 1..2 * Precise
  <2>1. journal[n].lines[i] \in Lines
    BY EntryType, LinesType DEF At
  <2> QED
    BY <2>1 DEF Lines
<1> QED
  BY <1>1, <1>2 DEF AmountOf

\* Adding up entry by entry is adding up line by line.
LEMMA SumByLine ==
  ASSUME TypeOK, NEW N \in SUBSET DOMAIN journal, NEW a, NEW dir, NEW f, OnAmounts(f)
  PROVE  /\ IsFiniteSet(N)
         /\ IsFiniteSet(LinesAt(a, dir, N))
         /\ SumFunction([n \in N |-> SumOf(journal[n].lines, a, dir, f)]) =
              SumFunctionOnSet(Amounts(f, LinesAt(a, dir, N)), LinesAt(a, dir, N))
<1> DEFINE S == LinesAt(a, dir, N)
           g == Amounts(f, S)
           part == [n \in N |-> {<<n, i>> : i \in At(journal[n].lines, a, dir)}]
           total == [n \in N |-> SumOf(journal[n].lines, a, dir, f)]
<1>1. IsFiniteSet(N)
  BY FiniteJournal, FS_Subset
<1>2. \A x : x \in S <=> \E n \in N : x \in part[n]
  BY LinesAtType
<1>3. \A m, n \in N : m # n => part[m] \cap part[n] = {}
  OBVIOUS
<1>4. \A x \in S : g[x] \in Int
  BY LinesAtType DEF Amounts, OnAmounts
<1>5. ASSUME NEW n \in N
      PROVE  IsFiniteSet(part[n]) /\ total[n] = SumFunctionOnSet(g, part[n])
  <2> DEFINE ls == journal[n].lines
             D == At(ls, a, dir)
             h == [i \in D |-> f[ls[i].amount]]
             p == [i \in D |-> <<n, i>>]
  <2>1. IsFiniteSet(D)
    BY EntryType, SumOfType
  <2>2. total[n] = SumFunctionOnSet(h, D)
    BY DEF SumOf, SumFunction, At
  <2>3. \A i \in D : p[i] \in S
    BY LinesAtType
  <2>4. \A i \in D : h[i] \in Int /\ g[p[i]] = h[i]
    <3>1. \A i \in D : g[p[i]] = h[i]
      BY <2>3 DEF Amounts, AmountOf
    <3> QED
      BY <1>4, <2>3, <3>1
  <2>5. \A i, j \in D : p[i] = p[j] => i = j
    OBVIOUS
  <2>6. part[n] = {p[i] : i \in D}
    OBVIOUS
  <2> HIDE DEF D, h, p, g, S, part, total
  <2>7. /\ IsFiniteSet({p[i] : i \in D})
        /\ SumFunctionOnSet(g, {p[i] : i \in D}) = SumFunctionOnSet(h, D)
    BY <2>1, <2>4, <2>5, SumRenamed
  <2> QED
    BY <2>2, <2>6, <2>7
<1>6. SumFunction(total) = SumFunctionOnSet(total, N)
  BY DEF SumFunction
<1>7. IsFiniteSet(S) /\ SumFunctionOnSet(g, S) = SumFunctionOnSet(total, N)
  <2> HIDE DEF g, S, part, total
  <2>1. Parts(g, S, N, part, total)
    BY <1>1, <1>2, <1>3, <1>4, <1>5 DEF Parts
  <2> QED
    BY <2>1, SumOfParts
<1> QED
  BY <1>1, <1>6, <1>7

\* An entry's part of SumIn is what SumOf gives for the amounts themselves.
LEMMA SumInIs ==
  ASSUME NEW N, NEW a, NEW dir
  PROVE  SumIn(N, a, dir) =
           SumFunction([n \in N |-> SumOf(journal[n].lines, a, dir, Exact)])
  BY DEF SumIn, Sum

\* What was brought is what SumOf gives for the doubles.
LEMMA BroughtIs ==
  ASSUME NEW a, NEW dir
  PROVE  Brought(a, dir) = [n \in projected |-> SumOf(journal[n].lines, a, dir, Double)]
  BY DEF Brought, Added
-----------------------------------------------------------------------------
(* The drift.                                                              *)

\* 1 for an amount that a double may not hold.
Unit == [x \in 1..2 * Precise |-> IF x > Precise THEN 1 ELSE 0]

\* A double is off by one at most, and only where doubles are even.
LEMMA DoubleIsNear ==
  \A x \in 1..2 * Precise :
    /\ Double[x] \in Int /\ Exact[x] = x /\ Unit[x] \in {0, 1}
    /\ x - Unit[x] <= Double[x] /\ Double[x] <= x + Unit[x]
<1> SUFFICES ASSUME NEW x \in 1..2 * Precise
             PROVE  /\ Double[x] \in Int /\ Exact[x] = x /\ Unit[x] \in {0, 1}
                    /\ x - Unit[x] <= Double[x] /\ Double[x] <= x + Unit[x]
  OBVIOUS
<1>1. Precise \in Nat /\ x \in Int /\ x \in 0..2 * Precise
  BY ReportsAssumption
<1>2. Exact[x] = x
  BY <1>1 DEF Exact
<1>3. Unit[x] = IF x > Precise THEN 1 ELSE 0
  BY DEF Unit
<1>4. Double[x] = IF x <= Precise \/ x % 2 = 0 THEN x
                  ELSE IF x % 4 = 1 THEN x - 1 ELSE x + 1
  BY <1>1 DEF Double
<1>5. CASE x <= Precise
  BY <1>1, <1>2, <1>3, <1>4, <1>5
<1>6. CASE x > Precise
  <2>1. Double[x] \in {x - 1, x, x + 1}
    BY <1>4
  <2> QED
    BY <1>1, <1>2, <1>3, <1>6, <2>1
<1> QED
  BY <1>1, <1>5, <1>6

\* The units add up to the number of large amounts.
LEMMA SumOfUnits ==
  ASSUME TypeOK, NEW N \in SUBSET DOMAIN journal, NEW a, NEW dir
  PROVE  /\ IsFiniteSet({x \in Large(a, N) : journal[x[1]].lines[x[2]].direction = dir})
         /\ SumFunctionOnSet(Amounts(Unit, LinesAt(a, dir, N)), LinesAt(a, dir, N)) =
              Cardinality({x \in Large(a, N) : journal[x[1]].lines[x[2]].direction = dir})
<1> DEFINE S == LinesAt(a, dir, N)
           L == {x \in Large(a, N) : journal[x[1]].lines[x[2]].direction = dir}
           R == S \ L
           g == Amounts(Unit, S)
<1>1. L = {x \in S : AmountOf(x) > Precise}
  BY DEF Large, LinesAt, AmountOf
<1>2. IsFiniteSet(S)
  BY SumByLine, AmountFunctions
<1>3. Precise \in Nat
  BY ReportsAssumption
<1>4. \A x \in S : g[x] = IF AmountOf(x) > Precise THEN 1 ELSE 0
  BY LinesAtType DEF Amounts, Unit
<1>5. /\ \A x \in L : g[x] = 1
      /\ \A x \in R : g[x] = 0
      /\ S = L \cup R /\ L \cap R = {}
      /\ \A x \in L \cup R : g[x] \in Int
  BY <1>1, <1>4
<1> HIDE DEF S, L, R, g
<1>6. IsFiniteSet(L) /\ IsFiniteSet(R)
  BY <1>2, <1>5, FS_Subset
<1>7. SumFunctionOnSet(g, L \cup R) = SumFunctionOnSet(g, L) + SumFunctionOnSet(g, R)
  BY <1>5, <1>6, SumDisjoint
<1>8. SumFunctionOnSet(g, L) = Cardinality(L) /\ SumFunctionOnSet(g, R) = 0
  BY <1>5, <1>6, SumOfOnes, SumZero
<1>9. SumFunctionOnSet(g, S) = SumFunctionOnSet(g, L \cup R) /\ Cardinality(L) \in Nat
  BY <1>5, <1>6, FS_CardinalityType
<1>10. SumFunctionOnSet(g, S) = Cardinality(L)
  BY <1>7, <1>8, <1>9
<1> QED
  BY <1>6, <1>10 DEF S, L, g

\* What was brought differs from the sum of the amounts by one for each large amount.
LEMMA Drift ==
  ASSUME TypeOK, NEW a, NEW dir
  PROVE  LET large == {x \in Large(a, projected) :
                        journal[x[1]].lines[x[2]].direction = dir}
             off == SumFunction(Brought(a, dir)) - SumIn(projected, a, dir)
         IN  -Cardinality(large) <= off /\ off <= Cardinality(large)
<1> DEFINE S == LinesAt(a, dir, projected)
           L == {x \in Large(a, projected) : journal[x[1]].lines[x[2]].direction = dir}
           double == Amounts(Double, S)
           exact == Amounts(Exact, S)
           unit == Amounts(Unit, S)
           up == [x \in S |-> exact[x] + unit[x]]
           more == [x \in S |-> double[x] + unit[x]]
           v(f) == SumFunctionOnSet(f, S)
<1>1. projected \in SUBSET DOMAIN journal
  BY DEF TypeOK
<1>2. IsFiniteSet(S) /\ SumFunction(Brought(a, dir)) = v(double)
  BY <1>1, SumByLine, AmountFunctions, BroughtIs
<1>3. SumIn(projected, a, dir) = v(exact)
  BY <1>1, SumByLine, AmountFunctions, SumInIs
<1>4. v(unit) = Cardinality(L) /\ Cardinality(L) \in Nat
  BY <1>1, SumOfUnits, FS_CardinalityType
<1>5. ASSUME NEW x \in S
      PROVE  /\ double[x] \in Int /\ exact[x] \in Int /\ unit[x] \in Int
             /\ up[x] = exact[x] + unit[x] /\ up[x] \in Int /\ double[x] <= up[x]
             /\ more[x] = double[x] + unit[x] /\ more[x] \in Int /\ exact[x] <= more[x]
  <2>1. AmountOf(x) \in 1..2 * Precise
    BY <1>1, LinesAtType
  <2>2. /\ double[x] = Double[AmountOf(x)]
        /\ exact[x] = Exact[AmountOf(x)]
        /\ unit[x] = Unit[AmountOf(x)]
    BY DEF Amounts
  <2>3. Precise \in Nat
    BY ReportsAssumption
  <2> QED
    BY <2>1, <2>2, <2>3, DoubleIsNear
<1> HIDE DEF S, L, double, exact, unit, up, more
<1>6. v(up) = v(exact) + v(unit) /\ v(more) = v(double) + v(unit)
  BY <1>2, <1>5, SumPlus
<1>7. v(double) <= v(up) /\ v(exact) <= v(more)
  BY <1>2, <1>5, SumMonotonic
<1>8. v(double) \in Int /\ v(exact) \in Int
  BY <1>2, <1>5, SumInt
<1> HIDE DEF v
<1>9. /\ -Cardinality(L) <= SumFunction(Brought(a, dir)) - SumIn(projected, a, dir)
      /\ SumFunction(Brought(a, dir)) - SumIn(projected, a, dir) <= Cardinality(L)
  BY <1>2, <1>3, <1>4, <1>6, <1>7, <1>8
<1> QED
  BY <1>9 DEF L

\* However many entries have been projected, a balance is off by at most one unit for
\* each amount that a double does not hold (projection.service.ts 158-180).
THEOREM ReportsDriftIsBounded == Spec => []DriftIsBounded
<1>1. IInv => DriftIsBounded
  <2> SUFFICES ASSUME IInv, NEW a \in Codes, balances[a] # NoRow,
                      NEW dir \in {"debit", "credit"}
               PROVE  balances[a][dir] = SumFunction(Brought(a, dir))
    BY Drift DEF IInv, DriftIsBounded
  <2>1. balances[a] = RowOf(a)
    BY DEF IInv, RowsAreSums, Shown
  <2> QED
    BY <2>1 DEF RowOf
<1> QED
  BY <1>1, Invariance, PTL
-----------------------------------------------------------------------------
(* Accounts and rows.                                                      *)

\* The total of side dir over all accounts, of the entries in N.
OverAccounts(dir, N) == SumFunctionOnSet([a \in Codes |-> SumIn(N, a, dir)], Codes)

\* The sums over the entries are sums of numbers, and numbers.
LEMMA SumInType ==
  ASSUME TypeOK, NEW N \in SUBSET DOMAIN journal, NEW a, NEW dir
  PROVE  /\ IsFiniteSet(N)
         /\ \A n \in N : Sum(journal[n].lines, a, dir) \in Int
         /\ SumIn(N, a, dir) =
              SumFunctionOnSet([n \in N |-> Sum(journal[n].lines, a, dir)], N)
         /\ SumIn(N, a, dir) \in Int
<1> DEFINE f == [n \in N |-> Sum(journal[n].lines, a, dir)]
<1>1. SumIn(N, a, dir) = SumFunctionOnSet(f, N)
  BY DEF SumIn, SumFunction
<1>2. \A n \in N : Sum(journal[n].lines, a, dir) \in Int
  BY EntryType, SumOfType, AmountFunctions DEF Sum
<1>3. IsFiniteSet(N) /\ \A n \in N : f[n] \in Int
  BY <1>2, FiniteJournal, FS_Subset
<1> HIDE DEF f
<1>4. SumFunctionOnSet(f, N) \in Int
  BY <1>3, SumInt
<1> QED
  BY <1>1, <1>2, <1>3, <1>4 DEF f

\* Without large amounts nothing drifts.
LEMMA NoDrift ==
  ASSUME TypeOK, NEW a, Large(a, projected) = {}, NEW dir
  PROVE  SumFunction(Brought(a, dir)) = SumIn(projected, a, dir)
<1> DEFINE L == {x \in Large(a, projected) : journal[x[1]].lines[x[2]].direction = dir}
           u == SumFunction(Brought(a, dir))
           w == SumIn(projected, a, dir)
<1>1. Cardinality(L) = 0
  BY FS_EmptySet
<1>2. -Cardinality(L) <= u - w /\ u - w <= Cardinality(L)
  BY Drift
<1>3. u \in Int
  BY BroughtType
<1>4. w \in Int
  BY SumInType DEF TypeOK
<1> HIDE DEF L, u, w
<1>5. u = w
  BY <1>1, <1>2, <1>3, <1>4
<1> QED
  BY <1>5 DEF u, w

\* The accounts' shares of a side of an entry add up to the side.
LEMMA SidesByAccount ==
  ASSUME NEW ls \in Seq(Lines), NEW dir
  PROVE  SumFunctionOnSet([a \in Codes |-> Sum(ls, a, dir)], Codes) = SideOf(ls, dir, Exact)
<1> DEFINE D == {j \in DOMAIN ls : ls[j].direction = dir}
           g == [i \in D |-> Exact[ls[i].amount]]
           part == [a \in Codes |-> At(ls, a, dir)]
           total == [a \in Codes |-> Sum(ls, a, dir)]
<1>1. IsFiniteSet(Codes)
  BY ReportsAssumption
<1>2. \A i \in D : g[i] \in Int /\ ls[i].account \in Codes
  BY LinesType, AmountFunctions DEF Lines, OnAmounts
<1>3. \A i : i \in D <=> \E a \in Codes : i \in part[a]
  BY <1>2 DEF At
<1>4. \A a, b \in Codes : a # b => part[a] \cap part[b] = {}
  BY DEF At
<1>5. ASSUME NEW a \in Codes
      PROVE  IsFiniteSet(part[a]) /\ total[a] = SumFunctionOnSet(g, part[a])
  <2> DEFINE S == At(ls, a, dir)
             h == [i \in S |-> Exact[ls[i].amount]]
  <2>1. IsFiniteSet(S)
    BY SumOfType, AmountFunctions
  <2>2. total[a] = SumFunctionOnSet(h, S)
    BY DEF Sum, SumOf, SumFunction, At
  <2>3. \A i \in S : h[i] = g[i]
    BY DEF At
  <2> HIDE DEF h, g, S
  <2>4. SumFunctionOnSet(h, S) = SumFunctionOnSet(g, S)
    BY <2>1, <2>3, SumEqual
  <2> QED
    BY <2>1, <2>2, <2>4 DEF S
<1>6. SideOf(ls, dir, Exact) = SumFunctionOnSet(g, D)
  BY DEF SideOf, SumFunction
<1>7. SumFunctionOnSet(g, D) = SumFunctionOnSet(total, Codes)
  <2> HIDE DEF g, D, part, total
  <2>1. Parts(g, D, Codes, part, total)
    BY <1>1, <1>2, <1>3, <1>4, <1>5 DEF Parts
  <2> QED
    BY <2>1, SumOfParts
<1> QED
  BY <1>6, <1>7

\* Over all accounts both sides are the same.
LEMMA AccountsBalance ==
  ASSUME TypeOK, NEW N \in SUBSET DOMAIN journal
  PROVE  OverAccounts("debit", N) = OverAccounts("credit", N)
<1> DEFINE ls(n) == journal[n].lines
           side(dir) == [n \in N |-> SideOf(ls(n), dir, Exact)]
<1>1. IsFiniteSet(Codes) /\ IsFiniteSet(N)
  BY ReportsAssumption, FiniteJournal, FS_Subset
<1>2. \A n \in N : ls(n) \in Seq(Lines) /\ side("debit")[n] = side("credit")[n]
  BY EntryType
<1>3. ASSUME NEW dir
      PROVE  OverAccounts(dir, N) = SumFunctionOnSet(side(dir), N)
  <2> DEFINE F == [a \in Codes |-> [n \in N |-> Sum(ls(n), a, dir)]]
             G == [n \in N |-> [a \in Codes |-> Sum(ls(n), a, dir)]]
             row == [a \in Codes |-> SumIn(N, a, dir)]
             col == side(dir)
  <2>1. \A a \in Codes, n \in N : F[a][n] \in Int /\ G[n][a] = F[a][n]
    BY SumInType
  <2>2. \A a \in Codes : row[a] = SumFunctionOnSet(F[a], N)
    BY SumInType
  <2>3. \A n \in N : col[n] = SumFunctionOnSet(G[n], Codes)
    BY <1>2, SidesByAccount
  <2>4. OverAccounts(dir, N) = SumFunctionOnSet(row, Codes)
    BY DEF OverAccounts
  <2> HIDE DEF F, G, row, col
  <2>5. Table(F, G, Codes, N, row, col)
    BY <1>1, <2>1, <2>2, <2>3 DEF Table
  <2> QED
    BY <2>4, <2>5, SumOfTable DEF col
<1>4. SumFunctionOnSet(side("debit"), N) = SumFunctionOnSet(side("credit"), N)
  <2> HIDE DEF side
  <2> QED
    BY <1>1, <1>2, SumEqual
<1> QED
  BY <1>3, <1>4

\* A sum over rows is the sum over their accounts.
LEMMA RowSums ==
  ASSUME IInv, NEW A \in SUBSET Codes, NEW side \in {"debit", "credit", "net"}
  PROVE  /\ IsFiniteSet(A)
         /\ \A a \in A : Shown(a)[side] \in Int
         /\ SumFunction([r \in {Row(a) : a \in A} |-> r[side].value]) =
              SumFunctionOnSet([a \in Codes |-> Shown(a)[side]], A)
<1> DEFINE p == [a \in A |-> Row(a)]
           R == {Row(a) : a \in A}
           g == [r \in R |-> r[side].value]
           f == [a \in Codes |-> Shown(a)[side]]
<1>1. IsFiniteSet(A)
  BY ReportsAssumption, FS_Subset
<1>2. \A a \in A : Shown(a)[side] \in Int
  <2> TAKE a \in A
  <2>1. Shown(a) = RowOf(a)
    BY DEF IInv, RowsAreSums
  <2>2. /\ SumFunction(Brought(a, "debit")) \in Int
        /\ SumFunction(Brought(a, "credit")) \in Int
    BY BroughtType DEF IInv
  <2> QED
    BY <2>1, <2>2 DEF RowOf
<1>3. \A a \in A : f[a] \in Int /\ g[p[a]] = f[a]
  <2> TAKE a \in A
  <2>1. Row(a)[side].value = Shown(a)[side]
    BY DEF Row, Shown
  <2> QED
    BY <1>2, <2>1
<1>4. \A a, b \in A : p[a] = p[b] => a = b
  BY DEF Row
<1>5. R = {p[a] : a \in A}
  OBVIOUS
<1>6. SumFunction(g) = SumFunctionOnSet(g, R)
  BY DEF SumFunction
<1> HIDE DEF R, g, p, f
<1>7. SumFunctionOnSet(g, {p[a] : a \in A}) = SumFunctionOnSet(f, A)
  BY <1>1, <1>3, <1>4, SumRenamed
<1> QED
  BY <1>1, <1>2, <1>5, <1>6, <1>7 DEF R, g, f
-----------------------------------------------------------------------------
(* The trial balance and the balance sheet.                                *)

\* The net balances.
Nets == [a \in Codes |-> Shown(a)["net"]]

\* No projected amount is too large for a double.
Small == \A a \in Codes : Large(a, projected) = {}

\* They add up to nothing.
LEMMA NetsAddUp ==
  ASSUME IInv, Small
  PROVE  SumFunctionOnSet(Nets, Codes) = 0
<1> DEFINE debit == [a \in Codes |-> SumIn(projected, a, "debit")]
           credit == [a \in Codes |-> SumIn(projected, a, "credit")]
<1>0. TypeOK /\ projected \in SUBSET DOMAIN journal
  BY DEF IInv, TypeOK
<1>1. ASSUME NEW a \in Codes
      PROVE  /\ debit[a] \in Int /\ credit[a] \in Int /\ Nets[a] \in Int
             /\ debit[a] = Nets[a] + credit[a]
  <2> DEFINE u == SumIn(projected, a, "debit")
             w == SumIn(projected, a, "credit")
  <2>1. u \in Int /\ w \in Int
    BY <1>0, SumInType
  <2>2. /\ SumFunction(Brought(a, "debit")) = u
        /\ SumFunction(Brought(a, "credit")) = w
    BY <1>0, NoDrift DEF Small
  <2>3. Nets[a] = SumFunction(Brought(a, "debit")) - SumFunction(Brought(a, "credit"))
    BY DEF IInv, RowsAreSums, RowOf, Nets
  <2>4. debit[a] = u /\ credit[a] = w
    OBVIOUS
  <2> HIDE DEF u, w, debit, credit
  <2> QED
    BY <2>1, <2>2, <2>3, <2>4
<1>2. SumFunctionOnSet(debit, Codes) = SumFunctionOnSet(credit, Codes)
  BY <1>0, AccountsBalance DEF OverAccounts
<1>3. IsFiniteSet(Codes)
  BY ReportsAssumption
<1> HIDE DEF debit, credit
<1>4. SumFunctionOnSet(debit, Codes) =
        SumFunctionOnSet(Nets, Codes) + SumFunctionOnSet(credit, Codes)
  BY <1>1, <1>3, SumPlus
<1>5. SumFunctionOnSet(Nets, Codes) \in Int /\ SumFunctionOnSet(credit, Codes) \in Int
  BY <1>1, <1>3, SumInt
<1> QED
  BY <1>2, <1>4, <1>5

\* The net of rows is that of their accounts.
LEMMA NetOfRows ==
  ASSUME IInv, NEW A \in SUBSET Codes
  PROVE  /\ IsFiniteSet(A)
         /\ \A a \in A : Nets[a] \in Int
         /\ NetOf({Row(a) : a \in A}) = SumFunctionOnSet(Nets, A)
         /\ SumFunctionOnSet(Nets, A) \in Int
<1>1. /\ IsFiniteSet(A)
      /\ \A a \in A : Nets[a] \in Int
      /\ SumFunction([r \in {Row(a) : a \in A} |-> r["net"].value]) =
           SumFunctionOnSet(Nets, A)
  BY RowSums DEF Nets
<1>2. NetOf({Row(a) : a \in A}) =
        SumFunction([r \in {Row(a) : a \in A} |-> r["net"].value])
  BY DEF NetOf
<1>3. SumFunctionOnSet(Nets, A) \in Int
  BY <1>1, SumInt
<1> QED
  BY <1>1, <1>2, <1>3

\* The net of two sets of accounts that have none in common.
LEMMA NetOfBoth ==
  ASSUME IInv, NEW A \in SUBSET Codes, NEW B \in SUBSET Codes, A \cap B = {}
  PROVE  SumFunctionOnSet(Nets, A \cup B) =
           SumFunctionOnSet(Nets, A) + SumFunctionOnSet(Nets, B)
<1>1. IsFiniteSet(A) /\ IsFiniteSet(B) /\ \A a \in A \cup B : Nets[a] \in Int
  BY NetOfRows
<1> QED
  BY <1>1, SumDisjoint

\* The accounts of a class.
OfCodes(d) == {a \in Codes : Class(a) = d}

\* Their rows.
LEMMA ClassRows == \A d : OfClass(Rows, d) = {Row(a) : a \in OfCodes(d)}
<1>1. \A a : Row(a).code = a
  BY DEF Row
<1> QED
  BY <1>1 DEF OfClass, Rows, OfCodes

\* If the trial balance answers, it answers with the rows, and balances.
LEMMA TrialBalanceIs ==
  ASSUME IInv, TrialBalance.error = "none"
  PROVE  /\ TrialBalance.rows = Rows
         /\ Small => TrialBalance.balanced
<1> DEFINE A == {a \in Codes : Nets[a] >= 0}
           B == {a \in Codes : Nets[a] < 0}
           debit == NetOf({r \in Rows : r.net.value >= 0})
           credit == -NetOf({r \in Rows : r.net.value < 0})
<1>1. ~ \E r \in Rows : Unreadable(r.net)
  BY DEF TrialBalance, SyntaxError
<1>2. TrialBalance = [error |-> "none", rows |-> Rows, totalDebit |-> debit,
                      totalCredit |-> credit, balanced |-> debit = credit]
  BY <1>1 DEF TrialBalance
<1>3. \A a \in Codes : Row(a).net.value = Nets[a]
  BY DEF Row, Nets, Shown
<1>4. /\ {r \in Rows : r.net.value >= 0} = {Row(a) : a \in A}
      /\ {r \in Rows : r.net.value < 0} = {Row(a) : a \in B}
  BY <1>3 DEF Rows
<1>5. debit = SumFunctionOnSet(Nets, A) /\ credit = -SumFunctionOnSet(Nets, B)
  BY <1>4, NetOfRows
<1>6. A \cap B = {} /\ A \cup B = Codes
  <2>1. \A a \in Codes : Nets[a] \in Int
    BY NetOfRows
  <2> QED
    BY <2>1
<1>7. Small => debit = credit
  <2> SUFFICES ASSUME Small PROVE debit = credit
    OBVIOUS
  <2>1. SumFunctionOnSet(Nets, A \cup B) =
          SumFunctionOnSet(Nets, A) + SumFunctionOnSet(Nets, B)
    BY <1>6, NetOfBoth
  <2>2. SumFunctionOnSet(Nets, A \cup B) = 0
    BY <1>6, NetsAddUp
  <2>3. SumFunctionOnSet(Nets, A) \in Int /\ SumFunctionOnSet(Nets, B) \in Int
    BY NetOfRows
  <2> HIDE DEF A, B, debit, credit
  <2> QED
    BY <1>5, <2>1, <2>2, <2>3
<1> HIDE DEF debit, credit
<1> QED
  BY <1>2, <1>7

\* Five classes that are all there are add up to nothing.
LEMMA ClassesAddUp ==
  ASSUME IInv, Small, \A a \in Codes : Class(a) \in 1..5
  PROVE  LET v(d) == SumFunctionOnSet(Nets, OfCodes(d))
         IN  /\ \A d : v(d) \in Int
             /\ v(1) + v(2) + v(3) + v(4) + v(5) = 0
<1> DEFINE v(d) == SumFunctionOnSet(Nets, OfCodes(d))
           c(d) == OfCodes(d)
           w(A) == SumFunctionOnSet(Nets, A)
<1>1. \A d : c(d) \in SUBSET Codes
  BY DEF OfCodes
<1>2. \A d, e : d # e => c(d) \cap c(e) = {}
  BY DEF OfCodes
<1>3. \A d : v(d) \in Int
  BY <1>1, NetOfRows
<1>4. c(1) \cup c(2) \cup c(3) \cup c(4) \cup c(5) = Codes
  BY DEF OfCodes
<1> HIDE DEF c
<1>5. w(c(1) \cup c(2)) = w(c(1)) + w(c(2))
  BY <1>1, <1>2, NetOfBoth
<1>6. w(c(1) \cup c(2) \cup c(3)) = w(c(1) \cup c(2)) + w(c(3))
  <2>1. (c(1) \cup c(2)) \cap c(3) = {} /\ c(1) \cup c(2) \in SUBSET Codes
    BY <1>1, <1>2
  <2> QED
    BY <1>1, <2>1, NetOfBoth
<1>7. w(c(1) \cup c(2) \cup c(3) \cup c(4)) = w(c(1) \cup c(2) \cup c(3)) + w(c(4))
  <2>1. /\ (c(1) \cup c(2) \cup c(3)) \cap c(4) = {}
        /\ c(1) \cup c(2) \cup c(3) \in SUBSET Codes
    BY <1>1, <1>2
  <2> QED
    BY <1>1, <2>1, NetOfBoth
<1>8. w(c(1) \cup c(2) \cup c(3) \cup c(4) \cup c(5)) =
        w(c(1) \cup c(2) \cup c(3) \cup c(4)) + w(c(5))
  <2>1. /\ (c(1) \cup c(2) \cup c(3) \cup c(4)) \cap c(5) = {}
        /\ c(1) \cup c(2) \cup c(3) \cup c(4) \in SUBSET Codes
    BY <1>1, <1>2
  <2> QED
    BY <1>1, <2>1, NetOfBoth
<1>9. w(c(1) \cup c(2) \cup c(3) \cup c(4) \cup c(5)) = 0
  BY <1>4, NetsAddUp
<1>10. \A d : v(d) = w(c(d))
  BY DEF c
<1> HIDE DEF v, w
<1>11. v(1) + v(2) + v(3) + v(4) + v(5) = 0
  BY <1>3, <1>5, <1>6, <1>7, <1>8, <1>9, <1>10
<1> QED
  BY <1>3, <1>11 DEF v

\* Whatever part of the journal has been projected, the net balances cancel out; if the
\* trial balance answers it is balanced, and the balance sheet leaves what the hierarchy
\* has as revenue and expenses (reports.service.ts 56-87, 94-121 and 246-253).
THEOREM ReportsTrialBalanceHolds == Spec => []TrialBalanceHolds
<1>1. IInv => TrialBalanceHolds
  <2> SUFFICES ASSUME IInv, Small
               PROVE  /\ NetOf(Rows) = 0
                      /\ TrialBalance.error = "none" =>
                           /\ TrialBalance.balanced
                           /\ (\A a \in Codes : Class(a) \in 1..5) =>
                                LET sheet == BalanceSheet
                                IN  sheet.totalAssets + sheet.totalLiabilities
                                      + sheet.totalEquity =
                                      -(NetOf(Hierarchy.children[4])
                                          + NetOf(Hierarchy.children[5]))
    BY DEF TrialBalanceHolds, Small
  <2>1. NetOf(Rows) = 0
    BY NetOfRows, NetsAddUp DEF Rows
  <2>2. ASSUME TrialBalance.error = "none", \A a \in Codes : Class(a) \in 1..5
        PROVE  LET sheet == BalanceSheet
               IN  sheet.totalAssets + sheet.totalLiabilities + sheet.totalEquity =
                     -(NetOf(Hierarchy.children[4]) + NetOf(Hierarchy.children[5]))
    <3> DEFINE v(d) == SumFunctionOnSet(Nets, OfCodes(d))
    <3>1. \A d : NetOf(OfClass(Rows, d)) = v(d)
      <4> TAKE d
      <4>1. OfCodes(d) \in SUBSET Codes
        BY DEF OfCodes
      <4> QED
        BY <4>1, NetOfRows, ClassRows
    <3>2. /\ BalanceSheet.totalAssets = v(1)
          /\ BalanceSheet.totalLiabilities = v(2)
          /\ BalanceSheet.totalEquity = v(3)
      BY <2>2, <3>1, TrialBalanceIs DEF BalanceSheet
    <3>3. \A d \in 1..5 : Hierarchy.children[d] = OfClass(Rows, d)
      BY <2>2, TrialBalanceIs DEF Hierarchy
    <3>4. NetOf(Hierarchy.children[4]) = v(4) /\ NetOf(Hierarchy.children[5]) = v(5)
      BY <3>1, <3>3
    <3>5. (\A d : v(d) \in Int) /\ v(1) + v(2) + v(3) + v(4) + v(5) = 0
      BY <2>2, ClassesAddUp
    <3> HIDE DEF v
    <3> QED
      BY <3>2, <3>4, <3>5
  <2> QED
    BY <2>1, <2>2, TrialBalanceIs
<1> QED
  BY <1>1, Invariance, PTL
-----------------------------------------------------------------------------
(* The income statement.                                                   *)

\* What the accounts of class d have on side dir, from the entries in N.
InClass(d, dir, N) ==
  SumFunctionOnSet([a \in Codes |-> SumIn(N, a, dir)], OfCodes(d))

\* An account that no entry books on has nothing.
LEMMA NothingBooked ==
  ASSUME TypeOK, NEW N \in SUBSET DOMAIN journal, NEW dir, NEW a,
         \A n \in N : a \notin Booked(journal[n].lines)
  PROVE  SumIn(N, a, dir) = 0
<1> DEFINE f == [n \in N |-> Sum(journal[n].lines, a, dir)]
<1>1. \A n \in N : f[n] = 0
  BY EntryType, SumOfType, AmountFunctions DEF Sum
<1>2. SumIn(N, a, dir) = SumFunctionOnSet(f, N) /\ IsFiniteSet(N)
  BY SumInType
<1> HIDE DEF f
<1> QED
  BY <1>1, <1>2, SumZero

\* The accounts of a class, and their numbers.
LEMMA ClassType ==
  ASSUME TypeOK, NEW d, NEW dir, NEW N \in SUBSET DOMAIN journal
  PROVE  /\ IsFiniteSet(OfCodes(d))
         /\ \A a \in OfCodes(d) : [b \in Codes |-> SumIn(N, b, dir)][a] \in Int
         /\ InClass(d, dir, N) \in Int
<1> DEFINE f == [b \in Codes |-> SumIn(N, b, dir)]
<1>1. IsFiniteSet(OfCodes(d)) /\ OfCodes(d) \subseteq Codes
  BY ReportsAssumption, FS_Subset DEF OfCodes
<1>2. \A a \in OfCodes(d) : f[a] \in Int
  BY <1>1, SumInType
<1> HIDE DEF f
<1>3. SumFunctionOnSet(f, OfCodes(d)) \in Int
  BY <1>1, <1>2, SumInt
<1> QED
  BY <1>1, <1>2, <1>3 DEF f, InClass

\* That the statement leaves out accounts without a line changes no total.
LEMMA ClassTotalIs ==
  ASSUME TypeOK, NEW d, NEW dir, NEW from, NEW to
  PROVE  ClassTotal(d, dir, from, to) = InClass(d, dir, Counted(from, to))
<1> DEFINE N == Counted(from, to)
           f == [a \in Codes |-> SumIn(N, a, dir)]
           g == [a \in Listed(d, from, to) |-> SumIn(N, a, dir)]
           A == Listed(d, from, to)
           R == OfCodes(d) \ A
<1>1. N \in SUBSET DOMAIN journal
  BY DEF Counted
<1>2. ClassTotal(d, dir, from, to) = SumFunctionOnSet(g, A)
  BY DEF ClassTotal, SumFunction
<1>3. A \subseteq Codes /\ A \cup R = OfCodes(d) /\ A \cap R = {}
  BY DEF Listed, OfCodes
<1>4. \A a \in A : g[a] = f[a]
  BY <1>3
<1>5. \A a \in A \cup R : f[a] \in Int
  BY <1>1, <1>3, ClassType
<1>6. \A a \in R : f[a] = 0
  BY <1>1, NothingBooked DEF Listed, OfCodes
<1>7. IsFiniteSet(A) /\ IsFiniteSet(R)
  BY <1>1, <1>3, ClassType, FS_Subset
<1>8. InClass(d, dir, N) = SumFunctionOnSet(f, A \cup R)
  BY <1>3 DEF InClass
<1> HIDE DEF f, g, A, R
<1>9. SumFunctionOnSet(g, A) = SumFunctionOnSet(f, A)
  BY <1>4, <1>7, SumEqual
<1>10. SumFunctionOnSet(f, A \cup R) = SumFunctionOnSet(f, A) + SumFunctionOnSet(f, R)
  BY <1>3, <1>5, <1>7, SumDisjoint
<1>11. SumFunctionOnSet(f, R) = 0 /\ SumFunctionOnSet(f, A) \in Int
  BY <1>5, <1>6, <1>7, SumZero, SumInt
<1> QED
  BY <1>2, <1>8, <1>9, <1>10, <1>11

\* If the statement answers, it answers with the difference of the totals.
LEMMA IncomeIs ==
  ASSUME TypeOK, NEW from, NEW to, IncomeStatement(from, to).error = "none"
  PROVE  IncomeStatement(from, to).netIncome =
           InClass(4, "credit", Counted(from, to)) - InClass(5, "debit", Counted(from, to))
<1>1. IncomeStatement(from, to) # SyntaxError
  BY DEF SyntaxError
<1>2. IncomeStatement(from, to).netIncome =
        ClassTotal(4, "credit", from, to) - ClassTotal(5, "debit", from, to)
  BY <1>1 DEF IncomeStatement
<1> QED
  BY <1>2, ClassTotalIs
-----------------------------------------------------------------------------
(* The reports from the journal and those from the balances.               *)

\* A row shows the sums of the projected entries if no amount is too large.
LEMMA ShownIsSum ==
  ASSUME IInv, Small, NEW a \in Codes, NEW dir \in {"debit", "credit"}
  PROVE  Shown(a)[dir] = SumIn(projected, a, dir)
<1>1. Shown(a) = RowOf(a)
  BY DEF IInv, RowsAreSums
<1>2. SumFunction(Brought(a, dir)) = SumIn(projected, a, dir)
  BY NoDrift DEF IInv, Small
<1> QED
  BY <1>1, <1>2 DEF RowOf

\* The rows of a class add up to what the projected entries have for it.
LEMMA ClassOfRows ==
  ASSUME IInv, Small, NEW d, NEW dir \in {"debit", "credit"}
  PROVE  SumFunction([r \in OfClass(Rows, d) |-> r[dir].value]) = InClass(d, dir, projected)
<1> DEFINE f == [a \in Codes |-> Shown(a)[dir]]
           g == [a \in Codes |-> SumIn(projected, a, dir)]
<1>1. OfCodes(d) \in SUBSET Codes
  BY DEF OfCodes
<1>2. IsFiniteSet(OfCodes(d))
  BY <1>1, RowSums
<1>3. SumFunction([r \in OfClass(Rows, d) |-> r[dir].value]) =
        SumFunctionOnSet(f, OfCodes(d))
  BY <1>1, RowSums, ClassRows
<1>4. \A a \in OfCodes(d) : f[a] = g[a]
  BY <1>1, ShownIsSum
<1>5. InClass(d, dir, projected) = SumFunctionOnSet(g, OfCodes(d))
  BY DEF InClass
<1> HIDE DEF f, g
<1>6. SumFunctionOnSet(f, OfCodes(d)) = SumFunctionOnSet(g, OfCodes(d))
  BY <1>2, <1>4, SumEqual
<1> QED
  BY <1>3, <1>5, <1>6

\* The amount of a line if it is on side dir.
PutOn(dir, x) == IF journal[x[1]].lines[x[2]].direction = dir THEN AmountOf(x) ELSE 0

\* What the lines of an account amount to, those of the other side left out.
LEMMA ExportedIs ==
  ASSUME TypeOK, NEW N \in SUBSET DOMAIN journal, NEW a, NEW dir \in {"debit", "credit"}
  PROVE  /\ IsFiniteSet(LinesOn(a, N))
         /\ \A x \in LinesOn(a, N) : PutOn(dir, x) \in Int
         /\ SumFunctionOnSet([x \in LinesOn(a, N) |-> PutOn(dir, x)], LinesOn(a, N)) =
              SumIn(N, a, dir)
<1> DEFINE all == LinesOn(a, N)
           S == LinesAt(a, dir, N)
           R == all \ S
           f == Amounts(Exact, S)
           g == [x \in all |-> PutOn(dir, x)]
<1>1. S \subseteq all /\ S \cup R = all /\ S \cap R = {}
  BY DEF LinesAt
<1>2. IsFiniteSet(LinesAt(a, "debit", N)) /\ IsFiniteSet(LinesAt(a, "credit", N))
  BY SumByLine, AmountFunctions
<1>3. IsFiniteSet(all)
  <2>1. \A x \in all : journal[x[1]].lines[x[2]].direction \in {"debit", "credit"}
    <3> SUFFICES ASSUME NEW n \in N, NEW i \in DOMAIN journal[n].lines
                 PROVE  journal[n].lines[i].direction \in {"debit", "credit"}
      BY DEF LinesOn
    <3>1. journal[n].lines[i] \in Lines
      BY EntryType, LinesType
    <3> QED
      BY <3>1 DEF Lines
  <2>2. all = LinesAt(a, "debit", N) \cup LinesAt(a, "credit", N)
    BY <2>1 DEF LinesAt
  <2> QED
    BY <1>2, <2>2, FS_Union
<1>4. SumIn(N, a, dir) = SumFunctionOnSet(f, S)
  BY SumByLine, AmountFunctions, SumInIs
<1>5. \A x \in S : f[x] = g[x] /\ f[x] \in Int
  <2> TAKE x \in S
  <2>1. AmountOf(x) \in 1..2 * Precise
    BY LinesAtType
  <2>2. f[x] = AmountOf(x)
    BY <2>1, DoubleIsNear DEF Amounts
  <2>3. g[x] = AmountOf(x)
    BY <1>1 DEF LinesAt, PutOn
  <2> QED
    BY <2>1, <2>2, <2>3
<1>6. \A x \in R : g[x] = 0
  BY DEF LinesAt, PutOn
<1>7. \A x \in all : g[x] = PutOn(dir, x)
  OBVIOUS
<1> HIDE DEF all, S, R, f, g
<1>8. IsFiniteSet(S) /\ IsFiniteSet(R)
  BY <1>1, <1>3, FS_Subset
<1>9. \A x \in S \cup R : g[x] \in Int
  BY <1>5, <1>6
<1>10. SumFunctionOnSet(g, S \cup R) = SumFunctionOnSet(g, S) + SumFunctionOnSet(g, R)
  BY <1>1, <1>8, <1>9, SumDisjoint
<1>11. SumFunctionOnSet(g, S) = SumFunctionOnSet(f, S) /\ SumFunctionOnSet(g, R) = 0
  BY <1>5, <1>6, <1>8, SumEqual, SumZero
<1>12. SumFunctionOnSet(f, S) \in Int
  BY <1>5, <1>8, SumInt
<1>13. SumFunctionOnSet(g, all) = SumFunctionOnSet(f, S)
  <2>1. SumFunctionOnSet(g, S \cup R) = SumFunctionOnSet(f, S)
    BY <1>10, <1>11, <1>12
  <2> QED
    BY <1>1, <2>1
<1>14. \A x \in all : PutOn(dir, x) \in Int
  BY <1>1, <1>7, <1>9
<1> QED
  BY <1>3, <1>4, <1>13, <1>14 DEF all, g

\* An export that is not cut off has all the lines selected.
LEMMA WholeExport ==
  ASSUME NEW code, NEW from, NEW to, NEW out \in LedgerExports(code, from, to),
         IsFiniteSet(Selected(code, from, to)),
         Cardinality(Selected(code, from, to)) <= ExportLimit
  PROVE  out = Selected(code, from, to)
<1>1. /\ out \subseteq Selected(code, from, to)
      /\ Cardinality(out) = Cardinality(Selected(code, from, to))
  BY DEF LedgerExports
<1> QED
  BY <1>1, FS_Subset

\* The export of an account.
LEMMA AccountExport ==
  ASSUME TypeOK, NEW a \in Codes, NEW out \in LedgerExports(a, 0, 0),
         Cardinality(Selected(a, 0, 0)) <= ExportLimit, NEW dir \in {"debit", "credit"}
  PROVE  Exported(out, dir) = SumIn(DOMAIN journal, a, dir)
<1> DEFINE all == LinesOn(a, DOMAIN journal)
<1>1. a # 0
  BY ReportsAssumption
<1>2. Selected(a, 0, 0) = all
  BY <1>1 DEF Selected, LinesOn
<1>3. IsFiniteSet(all)
  BY ExportedIs
<1>4. out = all
  BY <1>2, <1>3, WholeExport
<1>5. Exported(out, dir) = SumFunctionOnSet([x \in all |-> PutOn(dir, x)], all)
  BY <1>4 DEF Exported, PutOn, AmountOf, SumFunction
<1> QED
  BY <1>5, ExportedIs

\* The lines an export selects for a period are those of the entries the income
\* statement counts.
LEMMA SelectedAre ==
  ASSUME TypeOK, NEW p \in Periods
  PROVE  \A x : x \in Selected(0, p[1], p[2]) <=>
                  \E a \in Codes : x \in LinesOn(a, Counted(p[1], p[2]))
<1>1. \A n \in DOMAIN journal : \A i \in DOMAIN journal[n].lines :
        journal[n].lines[i].account \in Codes
  BY EntryType, LinesType DEF Lines
<1>2. p[1] # 0 \/ p[2] = 0
  BY DEF Periods
<1>3. ASSUME NEW n \in DOMAIN journal
      PROVE  n \in Counted(p[1], p[2]) <=>
               /\ p[1] # 0 => p[1] <= journal[n].occurred
               /\ p[2] # 0 => journal[n].occurred <= p[2]
  <2>1. CASE p[1] = 0
    BY <1>2, <2>1 DEF Counted, InPeriod
  <2>2. CASE p[1] # 0
    BY <2>2 DEF Counted, InPeriod
  <2> QED
    BY <2>1, <2>2
<1>4. Counted(p[1], p[2]) \subseteq DOMAIN journal
  BY DEF Counted
<1> QED
  BY <1>1, <1>3, <1>4 DEF Selected, LinesOn

\* The lines on some accounts amount to what those accounts have.
LEMMA LinesOfAccounts ==
  ASSUME TypeOK, NEW N \in SUBSET DOMAIN journal, NEW A \in SUBSET Codes, NEW S,
         \A x : x \in S <=> \E a \in A : x \in LinesOn(a, N),
         NEW dir \in {"debit", "credit"}
  PROVE  /\ IsFiniteSet(S)
         /\ Exported(S, dir) = SumFunctionOnSet([a \in Codes |-> SumIn(N, a, dir)], A)
<1> DEFINE g == [x \in S |-> PutOn(dir, x)]
           part == [a \in Codes |-> LinesOn(a, N)]
           total == [a \in Codes |-> SumIn(N, a, dir)]
<1>1. \A a : \A x \in LinesOn(a, N) : journal[x[1]].lines[x[2]].account = a
  BY DEF LinesOn
<1>2. \A x : x \in S <=> \E a \in A : x \in part[a]
  OBVIOUS
<1>3. \A a, b \in A : a # b => part[a] \cap part[b] = {}
  BY <1>1
<1>4. \A x \in S : g[x] \in Int
  BY ExportedIs
<1>5. ASSUME NEW a \in A
      PROVE  IsFiniteSet(part[a]) /\ total[a] = SumFunctionOnSet(g, part[a])
  <2> DEFINE P == LinesOn(a, N)
             h == [x \in P |-> PutOn(dir, x)]
  <2>1. part[a] = P /\ total[a] = SumIn(N, a, dir)
    OBVIOUS
  <2>2. IsFiniteSet(P) /\ SumFunctionOnSet(h, P) = SumIn(N, a, dir)
    BY ExportedIs
  <2>3. \A x \in P : h[x] = g[x]
    OBVIOUS
  <2> HIDE DEF P, h, g, part, total
  <2>4. SumFunctionOnSet(h, P) = SumFunctionOnSet(g, P)
    BY <2>2, <2>3, SumEqual
  <2> QED
    BY <2>1, <2>2, <2>4
<1>6. IsFiniteSet(A)
  BY ReportsAssumption, FS_Subset
<1>7. Exported(S, dir) = SumFunctionOnSet(g, S)
  BY DEF Exported, PutOn, AmountOf, SumFunction
<1>8. IsFiniteSet(S) /\ SumFunctionOnSet(g, S) = SumFunctionOnSet(total, A)
  <2> HIDE DEF g, part, total
  <2>1. Parts(g, S, A, part, total)
    BY <1>2, <1>3, <1>4, <1>5, <1>6 DEF Parts
  <2> QED
    BY <2>1, SumOfParts
<1> QED
  BY <1>7, <1>8

\* The export of a period, and its part on the accounts of a class.
LEMMA PeriodExport ==
  ASSUME TypeOK, NEW p \in Periods, NEW out \in LedgerExports(0, p[1], p[2]),
         Cardinality(Selected(0, p[1], p[2])) <= ExportLimit,
         NEW d, NEW dir \in {"debit", "credit"}
  PROVE  Exported(InClassOf(out, d), dir) = InClass(d, dir, Counted(p[1], p[2]))
<1> DEFINE N == Counted(p[1], p[2])
           all == Selected(0, p[1], p[2])
           S == InClassOf(all, d)
<1>1. N \in SUBSET DOMAIN journal
  BY DEF Counted
<1>2. \A x : x \in all <=> \E a \in Codes : x \in LinesOn(a, N)
  BY SelectedAre
<1>3. IsFiniteSet(all)
  <2> HIDE DEF all
  <2> QED
    BY <1>1, <1>2, LinesOfAccounts
<1>4. out = all
  BY <1>3, WholeExport
<1>5. \A a : \A x \in LinesOn(a, N) : journal[x[1]].lines[x[2]].account = a
  BY DEF LinesOn
<1>6. \A x : x \in S <=> \E a \in OfCodes(d) : x \in LinesOn(a, N)
  BY <1>2, <1>5 DEF InClassOf, OfCodes
<1>7. OfCodes(d) \in SUBSET Codes
  BY DEF OfCodes
<1>8. Exported(S, dir) =
        SumFunctionOnSet([a \in Codes |-> SumIn(N, a, dir)], OfCodes(d))
  <2> HIDE DEF S, N
  <2> QED
    BY <1>1, <1>6, <1>7, LinesOfAccounts
<1> QED
  BY <1>4, <1>8 DEF InClass

\* At any moment, for every period and whatever the accounts, the income statement has
\* what the export of the period has (reports.service.ts 129-151 and 188-224).
THEOREM ReportsStatementMatchesExport == Spec => []StatementMatchesExport
<1>1. TypeOK => StatementMatchesExport
  BY ClassTotalIs, PeriodExport DEF StatementMatchesExport
<1> QED
  BY <1>1, ReportsTypeCorrect, PTL

\* Once the relay has caught up, the income statement agrees with the balances, and so
\* does the export of an account (reports.service.ts 56-70, 139-165 and 208-225).
THEOREM ReportsAgreeAtRest == Spec => []ReportsAgree
<1>1. IInv => ReportsAgree
  <2> DEFINE total(d, dir) == SumFunction([r \in OfClass(Rows, d) |-> r[dir].value])
  <2> SUFFICES ASSUME IInv, projected = DOMAIN journal, Small
               PROVE  /\ ClassTotal(4, "credit", 0, 0) = total(4, "credit")
                      /\ ClassTotal(5, "debit", 0, 0) = total(5, "debit")
                      /\ IncomeStatement(0, 0).error = "none" =>
                           IncomeStatement(0, 0).netIncome =
                             total(4, "credit") - total(5, "debit")
                      /\ \A a \in Codes : \A out \in LedgerExports(a, 0, 0) :
                           Cardinality(Selected(a, 0, 0)) <= ExportLimit =>
                             /\ Exported(out, "debit") = Row(a).debit.value
                             /\ Exported(out, "credit") = Row(a).credit.value
    BY DEF ReportsAgree, Small
  <2>1. Counted(0, 0) = projected
    BY DEF Counted, InPeriod
  <2>2. /\ InClass(4, "credit", projected) = total(4, "credit")
        /\ InClass(5, "debit", projected) = total(5, "debit")
    BY ClassOfRows
  <2>3. ASSUME NEW a \in Codes, NEW out \in LedgerExports(a, 0, 0),
               Cardinality(Selected(a, 0, 0)) <= ExportLimit
        PROVE  /\ Exported(out, "debit") = Row(a).debit.value
               /\ Exported(out, "credit") = Row(a).credit.value
    <3>1. \A dir \in {"debit", "credit"} : Exported(out, dir) = Shown(a)[dir]
      BY <2>3, AccountExport, ShownIsSum DEF IInv
    <3>2. Row(a).debit.value = Shown(a).debit /\ Row(a).credit.value = Shown(a).credit
      BY DEF Row, Shown
    <3> QED
      BY <3>1, <3>2
  <2>4. /\ ClassTotal(4, "credit", 0, 0) = InClass(4, "credit", projected)
        /\ ClassTotal(5, "debit", 0, 0) = InClass(5, "debit", projected)
    BY <2>1, ClassTotalIs DEF IInv
  <2>5. IncomeStatement(0, 0).error = "none" =>
          IncomeStatement(0, 0).netIncome =
            InClass(4, "credit", projected) - InClass(5, "debit", projected)
    BY <2>1, IncomeIs DEF IInv
  <2> HIDE DEF total
  <2> QED
    BY <2>2, <2>3, <2>4, <2>5
<1> QED
  BY <1>1, Invariance, PTL
-----------------------------------------------------------------------------
(* The library of balances in memory, packages/accounting-core.            *)

\* The sum of a function is the sum over its domain.
LEMMA SumOverDomain == \A f : SumFunction(f) = SumFunctionOnSet(f, DOMAIN f)
  BY DEF SumFunction

\* The arrangement of a finite set with a strict order enumerates it in that order.
LEMMA ArrangedEnumerates ==
  ASSUME NEW S, IsFiniteSet(S), NEW R, Orders(R, S)
  PROVE  Enumerates(Arranged(S, R), S, R)
<1>1. PICK f : Enumerates(f, S, R)
  BY ArrangementExists
<1>2. Arranged(S, R) =
        CHOOSE g \in Bijection(1..Cardinality(S), S) :
          \A m, n \in 1..Cardinality(S) : m < n => <<g[m], g[n]>> \in R
  BY DEF Arranged
<1> QED
  BY <1>1, <1>2 DEF Enumerates
-----------------------------------------------------------------------------
(* The sort.                                                               *)

\* The positions of a sequence of lines are finitely many, one for each number up to
\* its length.
LEMMA Positions ==
  ASSUME NEW L, NEW ls \in Seq(L)
  PROVE  /\ DOMAIN ls = 1..Len(ls) /\ Len(ls) \in Nat /\ IsFiniteSet(DOMAIN ls)
         /\ Cardinality(DOMAIN ls) = Len(ls)
         /\ \A i \in DOMAIN ls : ls[i] \in L /\ i \in Nat
<1>1. DOMAIN ls = 1..Len(ls) /\ Len(ls) \in Nat
  BY LenProperties
<1>2. IsFiniteSet(1..Len(ls)) /\ Cardinality(1..Len(ls)) = Len(ls)
  BY <1>1, FS_Interval
<1> QED
  BY <1>1, <1>2, ElementOfSeq

\* The pairs of positions of which the sort puts the first before the second.
Precedence(ls) ==
  {p \in (DOMAIN ls) \X (DOMAIN ls) : Precedes(ls, p[1], p[2])}

\* The comparator never puts a line before itself, nor two lines before each other, and
\* lines it takes to be equal are before the same lines and after the same.
LEMMA ComparatorIsConsistent ==
  ASSUME NEW k \in LineInputs, NEW l \in LineInputs, NEW m \in LineInputs
  PROVE  /\ ~Before(k, k)
         /\ Before(k, l) => ~Before(l, k)
         /\ Before(k, l) /\ ~Before(m, l) => Before(k, m)
         /\ ~Before(l, k) /\ Before(l, m) => Before(k, m)
  BY DEF Before, LineInputs, Side

\* With the positions to decide between equal lines, it is a strict order.
LEMMA PrecedenceOrders ==
  ASSUME NEW ls \in Seq(LineInputs)
  PROVE  Orders(Precedence(ls), DOMAIN ls)
<1> DEFINE prec(i, j) == Precedes(ls, i, j)
           D == DOMAIN ls
<1>1. \A i \in D : ls[i] \in LineInputs /\ i \in Nat
  BY Positions
<1>2. \A i, j \in D : <<i, j>> \in Precedence(ls) <=> prec(i, j)
  BY DEF Precedence
<1>3. \A i \in D : ~prec(i, i)
  BY <1>1, ComparatorIsConsistent DEF Precedes
<1>4. \A i, j \in D : i = j \/ prec(i, j) \/ prec(j, i)
  BY <1>1, ComparatorIsConsistent DEF Precedes
<1>5. ASSUME NEW i \in D, NEW j \in D, NEW k \in D, prec(i, j), prec(j, k)
      PROVE  prec(i, k)
  <2> DEFINE a == ls[i]
             b == ls[j]
             c == ls[k]
  <2>0. a \in LineInputs /\ b \in LineInputs /\ c \in LineInputs
        /\ i \in Nat /\ j \in Nat /\ k \in Nat
    BY <1>1
  <2> HIDE DEF a, b, c
  <2>1. /\ Before(a, b) \/ (~Before(b, a) /\ i < j)
        /\ Before(b, c) \/ (~Before(c, b) /\ j < k)
    BY <1>5 DEF Precedes, a, b, c
  <2>2. Before(a, c) \/ (~Before(c, a) /\ i < k)
    <3>1. CASE Before(a, b)
      <4>1. ~Before(c, b)
        BY <2>0, <2>1, ComparatorIsConsistent
      <4> QED  BY <2>0, <3>1, <4>1, ComparatorIsConsistent
    <3>2. CASE ~Before(a, b) /\ Before(b, c)
      <4>1. ~Before(b, a)
        BY <2>1, <3>2
      <4> QED  BY <2>0, <3>2, <4>1, ComparatorIsConsistent
    <3>3. CASE ~Before(a, b) /\ ~Before(b, c)
      <4>1. ~Before(b, a) /\ ~Before(c, b) /\ i < j /\ j < k
        BY <2>1, <3>3
      <4>2. i < k
        BY <2>0, <4>1
      <4>3. Before(c, a) => Before(c, b) \/ Before(b, a)
        BY <2>0, ComparatorIsConsistent
      <4> QED  BY <4>1, <4>2, <4>3
    <3> QED  BY <3>1, <3>2, <3>3
  <2> QED  BY <2>2 DEF Precedes, a, b, c
<1> HIDE DEF prec
<1> QED
  BY <1>2, <1>3, <1>4, <1>5 DEF Orders

\* No line of ls is before an earlier one.
InOrder(ls) == \A i, j \in DOMAIN ls : i < j => ~Before(ls[j], ls[i])

\* ms holds the lines of ls at the positions p says.
Rearranged(ms, ls, p) ==
  /\ p \in Bijection(DOMAIN ls, DOMAIN ls)
  /\ ms = [n \in DOMAIN ls |-> ls[p[n]]]

\* The sort rearranges the lines, and puts them in order.
LEMMA SortSorts ==
  ASSUME NEW ls \in Seq(LineInputs)
  PROVE  /\ \E p : Rearranged(Sorted(ls), ls, p)
         /\ InOrder(Sorted(ls))
<1> DEFINE order == Arranged(DOMAIN ls, Precedence(ls))
<1>1. DOMAIN ls = 1..Len(ls) /\ IsFiniteSet(DOMAIN ls) /\ Cardinality(DOMAIN ls) = Len(ls)
      /\ \A i \in DOMAIN ls : ls[i] \in LineInputs /\ i \in Nat
  BY Positions
<1>2. Enumerates(order, DOMAIN ls, Precedence(ls))
  BY <1>1, PrecedenceOrders, ArrangedEnumerates
<1>3. Sorted(ls) = [n \in DOMAIN ls |-> ls[order[n]]]
  BY DEF Sorted, Precedence
<1> HIDE DEF order
<1>4. /\ order \in Bijection(DOMAIN ls, DOMAIN ls)
      /\ \A m, n \in DOMAIN ls : m < n => <<order[m], order[n]>> \in Precedence(ls)
  BY <1>1, <1>2 DEF Enumerates
<1>5. Rearranged(Sorted(ls), ls, order)
  BY <1>3, <1>4 DEF Rearranged
<1>6. ASSUME NEW m \in DOMAIN ls, NEW n \in DOMAIN ls, m < n
      PROVE  ~Before(ls[order[n]], ls[order[m]])
  <2>1. order[m] \in DOMAIN ls /\ order[n] \in DOMAIN ls
    BY <1>4 DEF Bijection, Injection
  <2>2. Precedes(ls, order[m], order[n])
    BY <1>4, <1>6 DEF Precedence
  <2> QED  BY <1>1, <2>1, <2>2, ComparatorIsConsistent DEF Precedes
<1>7. InOrder(Sorted(ls))
  BY <1>3, <1>6 DEF InOrder
<1> QED  BY <1>5, <1>7
-----------------------------------------------------------------------------
(* The same lines in order are the same sequence, but for memos.           *)

\* Each line of ls is a line of ms, different ones at different positions.
Embeds(p, ls, ms) ==
  /\ p \in Injection(DOMAIN ls, DOMAIN ms)
  /\ \A i \in DOMAIN ls : ls[i] = ms[p[i]]

\* At no position is the line of ls before that of ms, as more lines of ms than
\* stand in front of that position would have to be embedded among them.
LEMMA NoneBefore ==
  ASSUME NEW ls \in Seq(LineInputs), NEW ms \in Seq(LineInputs), InOrder(ls), InOrder(ms),
         NEW p, Embeds(p, ls, ms), NEW k \in DOMAIN ls \cap DOMAIN ms
  PROVE  ~Before(ls[k], ms[k])
<1> SUFFICES ASSUME Before(ls[k], ms[k]) PROVE FALSE
  OBVIOUS
<1> DEFINE A == {i \in DOMAIN ls : ~Before(ls[k], ls[i])}
           B == {j \in DOMAIN ms : ~Before(ls[k], ms[j])}
           q == [i \in A |-> p[i]]
<1>1. /\ DOMAIN ls = 1..Len(ls) /\ Len(ls) \in Nat /\ IsFiniteSet(DOMAIN ls)
      /\ DOMAIN ms = 1..Len(ms) /\ Len(ms) \in Nat /\ IsFiniteSet(DOMAIN ms)
      /\ \A i \in DOMAIN ls : ls[i] \in LineInputs
      /\ \A j \in DOMAIN ms : ms[j] \in LineInputs
  BY Positions
<1>2. k \in Nat /\ k >= 1
  BY <1>1
<1>3. 1..k \in SUBSET A
  <2> SUFFICES ASSUME NEW i \in 1..k PROVE i \in A
    OBVIOUS
  <2>1. i \in DOMAIN ls
    BY <1>1
  <2>2. i < k \/ i = k
    BY <1>2
  <2> QED  BY <1>1, <2>1, <2>2, ComparatorIsConsistent DEF InOrder
<1>4. B \in SUBSET (1..k - 1)
  <2> SUFFICES ASSUME NEW j \in DOMAIN ms, ~(j < k) PROVE Before(ls[k], ms[j])
    BY <1>1, <1>2
  <2>1. j = k \/ k < j
    BY <1>1, <1>2
  <2>2. ~Before(ms[j], ms[k])
    BY <1>1, <2>1, ComparatorIsConsistent DEF InOrder
  <2> QED  BY <1>1, <2>2, ComparatorIsConsistent
<1>5. q \in Injection(A, B)
  <2>1. \A i \in A : p[i] \in B
    BY DEF Embeds, Injection
  <2>2. \A i, j \in A : p[i] = p[j] => i = j
    BY DEF Embeds, Injection, IsInjective
  <2> HIDE DEF A, B
  <2> QED  BY <2>1, <2>2 DEF Injection, IsInjective
<1>6. IsFiniteSet(1..k) /\ Cardinality(1..k) = k
  <2>1. IsFiniteSet(1..k) /\ Cardinality(1..k) = IF 1 > k THEN 0 ELSE k - 1 + 1
    BY <1>2, FS_Interval
  <2> QED  BY <1>2, <2>1
<1>7. IsFiniteSet(B) /\ Cardinality(B) <= k - 1
  <2>1. PICK n \in Int : n = k - 1
    BY <1>2
  <2>2. IsFiniteSet(1..n) /\ Cardinality(1..n) = IF 1 > n THEN 0 ELSE n - 1 + 1
    <3>1. n \in Int /\ 1 \in Int
      BY <2>1
    <3> QED  BY ONLY <3>1, FS_Interval
  <2>3. Cardinality(1..n) = k - 1
    BY <1>2, <2>1, <2>2
  <2>4. B \in SUBSET (1..n)
    BY <1>4, <2>1
  <2> HIDE DEF B
  <2> QED  BY <2>2, <2>3, <2>4, FS_Subset
<1>8. IsFiniteSet(A) /\ Cardinality(A) <= Cardinality(B)
  <2> HIDE DEF A, B, q
  <2> QED  BY <1>5, <1>7, FS_Injection
<1>9. k <= Cardinality(A)
  <2> HIDE DEF A
  <2> QED  BY <1>3, <1>6, <1>8, FS_Subset
<1>10. Cardinality(A) \in Nat /\ Cardinality(B) \in Nat
  BY <1>7, <1>8, FS_CardinalityType
<1> HIDE DEF A, B
<1> QED
  BY <1>2, <1>7, <1>8, <1>9, <1>10

\* Lines of one currency that neither goes before the other differ in their memos only.
LEMMA AlikeUnlessBefore ==
  ASSUME NEW l \in LineInputs, NEW m \in LineInputs, l.currency = m.currency,
         ~Before(l, m), ~Before(m, l)
  PROVE  AlikeButForMemo(l, m)
  BY DEF Before, AlikeButForMemo, LineInputs, Side

\* A bijection embeds the one in the other, and its inverse the other in the one.
LEMMA SameLinesEmbed ==
  ASSUME NEW ls, NEW ms, SameLines(ls, ms)
  PROVE  (\E p : Embeds(p, ls, ms)) /\ (\E q : Embeds(q, ms, ls))
<1>1. PICK p \in Bijection(DOMAIN ls, DOMAIN ms) : \A i \in DOMAIN ls : ls[i] = ms[p[i]]
  BY DEF SameLines
<1> DEFINE q == [j \in DOMAIN ms |-> CHOOSE i \in DOMAIN ls : p[i] = j]
<1>2. Embeds(p, ls, ms)
  BY <1>1 DEF Embeds, Bijection
<1>3. \A j \in DOMAIN ms : \E i \in DOMAIN ls : p[i] = j
  BY DEF Bijection, Surjection
<1>4. \A j \in DOMAIN ms : q[j] \in DOMAIN ls /\ p[q[j]] = j
  BY <1>3
<1>5. q \in [DOMAIN ms -> DOMAIN ls]
  BY <1>4
<1> HIDE DEF q
<1>6. Embeds(q, ms, ls)
  BY <1>1, <1>4, <1>5 DEF Embeds, Injection, IsInjective
<1> QED  BY <1>2, <1>6

\* The order leaves one arrangement of the lines of one currency, but for their memos.
LEMMA OneForm ==
  ASSUME NEW ls \in Seq(LineInputs), NEW ms \in Seq(LineInputs), InOrder(ls), InOrder(ms),
         SameLines(ls, ms), NEW c, \A i \in DOMAIN ls : ls[i].currency = c
  PROVE  /\ DOMAIN ls = DOMAIN ms
         /\ \A k \in DOMAIN ls : AlikeButForMemo(ls[k], ms[k])
<1>1. PICK p : Embeds(p, ls, ms)
  BY SameLinesEmbed
<1>2. PICK q : Embeds(q, ms, ls)
  BY SameLinesEmbed
<1>3. /\ DOMAIN ls = 1..Len(ls) /\ Len(ls) \in Nat /\ IsFiniteSet(DOMAIN ls)
      /\ DOMAIN ms = 1..Len(ms) /\ Len(ms) \in Nat /\ IsFiniteSet(DOMAIN ms)
      /\ Cardinality(DOMAIN ls) = Len(ls) /\ Cardinality(DOMAIN ms) = Len(ms)
      /\ \A i \in DOMAIN ls : ls[i] \in LineInputs
      /\ \A j \in DOMAIN ms : ms[j] \in LineInputs
  BY Positions
<1>4. Len(ls) = Len(ms)
  <2>1. p \in Injection(DOMAIN ls, DOMAIN ms) /\ q \in Injection(DOMAIN ms, DOMAIN ls)
    BY <1>1, <1>2 DEF Embeds
  <2>2. Cardinality(DOMAIN ls) <= Cardinality(DOMAIN ms)
    BY <1>3, <2>1, FS_Injection
  <2>3. Cardinality(DOMAIN ms) <= Cardinality(DOMAIN ls)
    BY <1>3, <2>1, FS_Injection
  <2>4. Cardinality(DOMAIN ls) = Len(ls) /\ Cardinality(DOMAIN ms) = Len(ms)
        /\ Len(ls) \in Nat /\ Len(ms) \in Nat
    BY <1>3
  <2> QED  BY ONLY <2>2, <2>3, <2>4
<1>5. ASSUME NEW k \in DOMAIN ls PROVE AlikeButForMemo(ls[k], ms[k])
  <2>1. k \in DOMAIN ls \cap DOMAIN ms
    BY <1>3, <1>4
  <2>2. ~Before(ls[k], ms[k]) /\ ~Before(ms[k], ls[k])
    BY <1>1, <1>2, <2>1, NoneBefore
  <2>3. ms[k].currency = c /\ ls[k].currency = c
    BY <1>2, <2>1 DEF Embeds, Injection
  <2> QED  BY <1>3, <2>1, <2>2, <2>3, AlikeUnlessBefore
<1> QED
  BY <1>3, <1>4, <1>5

\* Where lines that are alike are the same, it leaves one arrangement.
LEMMA OneFormWithoutMemos ==
  ASSUME NEW ls \in Seq(LineInputs), NEW ms \in Seq(LineInputs), SameLines(ls, ms),
         DOMAIN ls = DOMAIN ms,
         \A k \in DOMAIN ls : AlikeButForMemo(ls[k], ms[k]),
         \A i, j \in DOMAIN ls : AlikeButForMemo(ls[i], ls[j]) => ls[i] = ls[j]
  PROVE  ls = ms
<1>1. PICK p \in Bijection(DOMAIN ls, DOMAIN ms) : \A i \in DOMAIN ls : ls[i] = ms[p[i]]
  BY DEF SameLines
<1>2. ASSUME NEW k \in DOMAIN ls PROVE ls[k] = ms[k]
  <2>1. PICK i \in DOMAIN ls : p[i] = k
    BY <1>1 DEF Bijection, Surjection
  <2>2. ls[i] = ms[k]
    BY <1>1, <2>1
  <2>3. AlikeButForMemo(ls[k], ls[i])
    BY <2>2
  <2> QED  BY <2>2, <2>3
<1>3. Len(ls) = Len(ms)
  BY Positions
<1> QED
  BY <1>2, <1>3, Positions, SeqEqual
-----------------------------------------------------------------------------
(* What lines add up to.                                                   *)

\* The fields of a line.
LEMMA LineFields ==
  ASSUME NEW ls \in Seq(LineInputs), NEW i \in DOMAIN ls
  PROVE  /\ ls[i].account \in Nat /\ ls[i].side \in {"DEBIT", "CREDIT"}
         /\ ls[i].amount \in Int /\ ls[i].currency \in STRING
<1>1. ls[i] \in LineInputs
  BY Positions
<1> QED
  BY <1>1 DEF LineInputs, Side

\* The positions of the lines in W, and the sum of their amounts.
Wanted(ls, W) == {i \in DOMAIN ls : ls[i] \in W}
Value(ls, W) == SumMoney(ls, Wanted(ls, W))

\* The lines on a side, and those of an account.
OnSide(side) == {l \in LineInputs : l.side = side}
InAccount(a, side) == {l \in LineInputs : l.account = a /\ l.side = side}

\* The sum with its function spelt out.
LEMMA SumOfIs ==
  \A ls, I : SumMoney(ls, I) = SumFunctionOnSet([i \in I |-> ls[i].amount], I)
  BY SumOverDomain DEF SumMoney

\* The library's sums are values.
LEMMA TotalsAreValues ==
  ASSUME NEW ls \in Seq(LineInputs)
  PROVE  /\ Debits(ls) = Value(ls, OnSide("DEBIT"))
         /\ Credits(ls) = Value(ls, OnSide("CREDIT"))
<1>1. \A i \in DOMAIN ls : ls[i] \in LineInputs
  BY Positions
<1>2. \A side : {i \in DOMAIN ls : ls[i].side = side} = Wanted(ls, OnSide(side))
  BY <1>1 DEF Wanted, OnSide
<1> QED  BY <1>2 DEF Debits, Credits, Value

\* A value is a number, and not negative if no amount is.
LEMMA ValueType ==
  ASSUME NEW ls \in Seq(LineInputs), NEW W
  PROVE  /\ IsFiniteSet(Wanted(ls, W))
         /\ Value(ls, W) \in Int
         /\ (\A i \in DOMAIN ls : ls[i].amount >= 0) => Value(ls, W) \in Nat
<1> DEFINE S == Wanted(ls, W)
           f == [i \in S |-> ls[i].amount]
           zero == [i \in S |-> 0]
<1>1. IsFiniteSet(DOMAIN ls) /\ \A i \in DOMAIN ls : ls[i].amount \in Int
  BY Positions, LineFields
<1>2. IsFiniteSet(S)
  BY <1>1, FS_Subset DEF Wanted
<1>3. \A i \in S : f[i] \in Int
  BY <1>1 DEF Wanted
<1>4. Value(ls, W) = SumFunctionOnSet(f, S)
  BY SumOfIs DEF Value
<1>5. (\A i \in DOMAIN ls : ls[i].amount >= 0) => \A i \in S : zero[i] <= f[i]
  BY DEF Wanted
<1>6. \A i \in S : zero[i] = 0 /\ zero[i] \in Int
  OBVIOUS
<1> HIDE DEF S, f, zero
<1>7. SumFunctionOnSet(f, S) \in Int
  BY <1>2, <1>3, SumInt
<1>8. SumFunctionOnSet(zero, S) = 0
  BY <1>2, <1>6, SumZero
<1>9. (\A i \in S : zero[i] <= f[i]) => 0 <= SumFunctionOnSet(f, S)
  BY <1>2, <1>3, <1>6, <1>8, SumMonotonic
<1> QED
  BY <1>2, <1>4, <1>5, <1>7, <1>9 DEF S

\* The order of the lines does not matter.
LEMMA ValueOfRearranged ==
  ASSUME NEW ls \in Seq(LineInputs), NEW ms, NEW p, Rearranged(ms, ls, p), NEW W
  PROVE  Value(ms, W) = Value(ls, W)
<1> DEFINE S == Wanted(ms, W)
           f == [i \in S |-> ms[i].amount]
           g == [i \in Wanted(ls, W) |-> ls[i].amount]
<1>1. \A i \in DOMAIN ls : ls[i].amount \in Int
  BY LineFields
<1>2. /\ DOMAIN ms = DOMAIN ls
      /\ \A i \in DOMAIN ls : p[i] \in DOMAIN ls /\ ms[i] = ls[p[i]]
      /\ \A i, j \in DOMAIN ls : p[i] = p[j] => i = j
      /\ \A j \in DOMAIN ls : \E i \in DOMAIN ls : p[i] = j
  BY DEF Rearranged, Bijection, Injection, Surjection, IsInjective
<1>3. IsFiniteSet(S)
  BY <1>2, Positions, FS_Subset DEF Wanted
<1>4. {p[i] : i \in S} = Wanted(ls, W)
  <2>1. \A i \in S : p[i] \in Wanted(ls, W)
    BY <1>2 DEF Wanted
  <2>2. \A j \in Wanted(ls, W) : \E i \in S : p[i] = j
    BY <1>2 DEF Wanted
  <2> QED  BY <2>1, <2>2
<1>5. \A i \in S : f[i] \in Int /\ g[p[i]] = f[i]
  BY <1>1, <1>2 DEF Wanted
<1>6. \A i, j \in S : p[i] = p[j] => i = j
  BY <1>2 DEF Wanted
<1>7. /\ Value(ms, W) = SumFunctionOnSet(f, S)
      /\ Value(ls, W) = SumFunctionOnSet(g, Wanted(ls, W))
  BY SumOfIs DEF Value
<1> HIDE DEF S, f, g
<1>8. SumFunctionOnSet(g, {p[i] : i \in S}) = SumFunctionOnSet(f, S)
  BY <1>3, <1>5, <1>6, SumRenamed
<1> QED
  BY <1>4, <1>7, <1>8

\* Two arrays of lines add up to the sum of their values.
LEMMA ValueOfConcat ==
  ASSUME NEW ls \in Seq(LineInputs), NEW ms \in Seq(LineInputs), NEW W
  PROVE  Value(ls \o ms, W) = Value(ls, W) + Value(ms, W)
<1> DEFINE all == ls \o ms
           n == Len(ls)
           A == Wanted(ls, W)
           B == Wanted(ms, W)
           p == [i \in B |-> i + n]
           C == {p[i] : i \in B}
           f == [i \in Wanted(all, W) |-> all[i].amount]
           g == [i \in A |-> ls[i].amount]
           h == [i \in B |-> ms[i].amount]
<1>1. /\ all \in Seq(LineInputs) /\ DOMAIN all = 1..n + Len(ms)
      /\ n \in Nat /\ Len(ms) \in Nat /\ DOMAIN ls = 1..n /\ DOMAIN ms = 1..Len(ms)
      /\ \A i \in 1..n : all[i] = ls[i]
      /\ \A i \in 1..Len(ms) : all[i + n] = ms[i]
  <2>1. /\ all \in Seq(LineInputs) /\ Len(all) = n + Len(ms)
        /\ \A i \in 1..n + Len(ms) : all[i] = IF i <= n THEN ls[i] ELSE ms[i - n]
    BY ConcatProperties
  <2>2. n \in Nat /\ Len(ms) \in Nat /\ DOMAIN ls = 1..n /\ DOMAIN ms = 1..Len(ms)
        /\ DOMAIN all = 1..Len(all)
    BY <2>1, Positions
  <2> HIDE DEF all, n
  <2>3. \A i \in 1..n : all[i] = ls[i]
    BY <2>1, <2>2
  <2>4. ASSUME NEW i \in 1..Len(ms) PROVE all[i + n] = ms[i]
    <3>1. i + n \in 1..n + Len(ms) /\ ~(i + n <= n) /\ (i + n) - n = i
      BY <2>2
    <3>2. all[i + n] = ms[(i + n) - n]
      BY <2>1, <3>1
    <3> QED  BY <3>1, <3>2
  <2> QED  BY <2>1, <2>2, <2>3, <2>4
<1>2. IsFiniteSet(A) /\ IsFiniteSet(B)
  BY ValueType
<1>3. Wanted(all, W) = A \cup C /\ A \cap C = {}
  <2> HIDE DEF all, n
  <2>1. \A i \in A : i \in Wanted(all, W) /\ i <= n
    BY <1>1 DEF Wanted
  <2>2. \A i \in C : i \in Wanted(all, W) /\ ~(i <= n)
    <3> SUFFICES ASSUME NEW j \in B PROVE j + n \in Wanted(all, W) /\ ~(j + n <= n)
      OBVIOUS
    <3>1. j \in 1..Len(ms) /\ ms[j] \in W
      BY <1>1 DEF Wanted
    <3>2. j + n \in 1..n + Len(ms) /\ ~(j + n <= n)
      BY <1>1, <3>1
    <3> QED  BY <1>1, <3>1, <3>2 DEF Wanted
  <2>3. ASSUME NEW i \in Wanted(all, W) PROVE i \in A \cup C
    <3>1. i \in 1..n + Len(ms) /\ all[i] \in W
      BY <1>1 DEF Wanted
    <3>2. CASE i <= n
      BY <1>1, <3>1, <3>2 DEF Wanted
    <3>3. CASE ~(i <= n)
      <4>1. i - n \in 1..Len(ms) /\ i = (i - n) + n
        BY <1>1, <3>1, <3>3
      <4>2. i - n \in B
        BY <1>1, <3>1, <4>1 DEF Wanted
      <4> QED  BY <4>1, <4>2
    <3> QED  BY <3>2, <3>3
  <2> HIDE DEF A, C
  <2> QED  BY <2>1, <2>2, <2>3
<1>4. /\ \A i \in A : g[i] = f[i] /\ f[i] \in Int
      /\ \A i \in B : h[i] \in Int /\ f[p[i]] = h[i]
      /\ \A i, j \in B : p[i] = p[j] => i = j
  <2>1. \A i \in DOMAIN ls : ls[i].amount \in Int
    BY LineFields
  <2>2. \A i \in DOMAIN ms : ms[i].amount \in Int
    BY LineFields
  <2>3. \A i \in A : i \in Wanted(all, W) /\ all[i] = ls[i]
    BY <1>1, <1>3 DEF Wanted
  <2>4. \A i \in B : p[i] \in Wanted(all, W) /\ all[p[i]] = ms[i] /\ i \in Nat
    <3>1. \A i \in B : i \in 1..Len(ms) /\ p[i] = i + n /\ p[i] \in C
      BY <1>1 DEF Wanted
    <3> HIDE DEF all, n, p, B, C
    <3> QED  BY <1>1, <1>3, <3>1
  <2>5. \A i, j \in B : p[i] = p[j] => i = j
    <3> HIDE DEF all, n, B
    <3> QED  BY <1>1, <2>4
  <2> HIDE DEF all, n, p
  <2> QED  BY <2>1, <2>2, <2>3, <2>4, <2>5 DEF Wanted
<1>5. /\ Value(all, W) = SumFunctionOnSet(f, Wanted(all, W))
      /\ Value(ls, W) = SumFunctionOnSet(g, A) /\ Value(ms, W) = SumFunctionOnSet(h, B)
  BY SumOfIs DEF Value
<1> HIDE DEF A, B, p, f, g, h
<1>6. IsFiniteSet(C) /\ SumFunctionOnSet(f, C) = SumFunctionOnSet(h, B)
  BY <1>2, <1>4, SumRenamed
<1>7. \A i \in C : f[i] \in Int
  BY <1>4
<1> HIDE DEF C
<1>8. SumFunctionOnSet(f, A \cup C) = SumFunctionOnSet(f, A) + SumFunctionOnSet(f, C)
  BY <1>2, <1>3, <1>4, <1>6, <1>7, SumDisjoint
<1>9. SumFunctionOnSet(g, A) = SumFunctionOnSet(f, A)
  BY <1>2, <1>4, SumEqual
<1> QED
  BY <1>3, <1>5, <1>6, <1>8, <1>9
-----------------------------------------------------------------------------
(* Accepted entries.                                                       *)

\* A set of positions that is not empty has a first one.
LEMMA FirstExists ==
  ASSUME NEW I \in SUBSET Nat, IsFiniteSet(I), I # {}
  PROVE  First(I) \in I /\ \A j \in I : First(I) <= j
<1> DEFINE G == {J \in SUBSET I : J # {} => \E i \in J : \A j \in J : i <= j}
<1>1. {} \in G
  OBVIOUS
<1>2. ASSUME NEW J \in SUBSET I, NEW k \in I \ J, J \in G
      PROVE  J \cup {k} \in G
  <2>1. CASE J = {}
    BY <2>1
  <2>2. CASE J # {}
    <3>1. PICK i \in J : \A j \in J : i <= j
      BY <1>2, <2>2
    <3>2. i <= k \/ k <= i
      OBVIOUS
    <3>3. k <= i => \A j \in J \cup {k} : k <= j
      BY <3>1
    <3>4. i <= k => \A j \in J \cup {k} : i <= j
      BY <3>1
    <3> QED  BY <3>2, <3>3, <3>4
  <2> QED  BY <2>1, <2>2
<1> HIDE DEF G
<1>3. I \in G
  BY <1>1, <1>2, FiniteInduction
<1> QED
  BY <1>3 DEF G, First

\* What an input that is not refused is like.
LEMMA AcceptedInput ==
  ASSUME NEW input \in Inputs, Refusal(input) = "none"
  PROVE  /\ input.lines \in Seq(LineInputs) /\ input.currency \in STRING
         /\ Len(input.lines) >= 2
         /\ \A i \in DOMAIN input.lines :
              /\ input.lines[i].account # 0
              /\ input.lines[i].amount > 0
              /\ input.lines[i].currency = input.currency
         /\ Debits(input.lines) = Credits(input.lines)
<1> DEFINE ls == input.lines
           fault(i) == LineFault(ls[i], input.currency)
           faults == {i \in DOMAIN ls : fault(i) # "none"}
<1>1. ls \in Seq(LineInputs) /\ input.currency \in STRING
  BY CoreAssumption
<1>2. Len(ls) \in Nat /\ \A i \in DOMAIN ls : i \in Nat
  BY <1>1, Positions
<1>3. faults = {}
  <2> SUFFICES ASSUME faults # {} PROVE FALSE
    OBVIOUS
  <2>1. First(faults) \in faults
    <3>1. IsFiniteSet(faults) /\ faults \in SUBSET Nat
      BY <1>1, <1>2, Positions, FS_Subset
    <3> HIDE DEF faults
    <3> QED  BY <3>1, FirstExists
  <2>2. LineFault(ls[First(faults)], input.currency) # "none"
    BY <2>1
  <2> QED  BY <2>2 DEF Refusal
<1>4. Len(ls) >= 2 /\ Debits(ls) = Credits(ls)
  BY <1>2, <1>3 DEF Refusal
<1>5. ASSUME NEW i \in DOMAIN ls
      PROVE  ls[i].account # 0 /\ ls[i].amount > 0 /\ ls[i].currency = input.currency
  <2>1. fault(i) = "none"
    BY <1>3
  <2>2. ls[i].amount \in Int
    BY <1>1, LineFields
  <2> QED  BY <2>1, <2>2 DEF LineFault
<1> QED
  BY <1>1, <1>4, <1>5

\* The types of the validated entries.
ValidatedEntries ==
  [currency : STRING, lines : Seq(Stored), totalDebit : Nat, totalCredit : Nat]

\* Stored lines are lines.
LEMMA StoredAreLines ==
  /\ Stored \subseteq LineInputs
  /\ \A ls \in Seq(Stored) : ls \in Seq(LineInputs)
  /\ Accounts \subseteq Nat
<1>1. ASSUME NEW input \in Inputs, NEW i \in DOMAIN input.lines
      PROVE  input.lines[i].account \in Nat
  <2>1. input.lines \in Seq(LineInputs)
    BY CoreAssumption
  <2> QED  BY <2>1, LineFields
<1>2. Accounts \subseteq Nat
  BY <1>1 DEF Accounts, AccountsOf
<1>3. Stored \subseteq LineInputs
  <2> SUFFICES ASSUME NEW l \in Stored PROVE l \in LineInputs
    OBVIOUS
  <2>1. /\ l = [account |-> l.account, side |-> l.side, amount |-> l.amount,
                currency |-> l.currency, memo |-> l.memo]
        /\ l.account \in Accounts \ {0} /\ l.side \in Side
        /\ l.amount \in Nat \ {0} /\ l.currency \in STRING /\ l.memo \in STRING
    BY DEF Stored
  <2>2. l.account \in Nat /\ l.amount \in Int
    BY <1>2, <2>1
  <2> QED  BY <2>1, <2>2 DEF LineInputs
<1>4. ASSUME NEW ls \in Seq(Stored) PROVE ls \in Seq(LineInputs)
  <2>1. /\ DOMAIN ls = 1..Len(ls) /\ Len(ls) \in Nat
        /\ \A i \in DOMAIN ls : ls[i] \in Stored
        /\ ls = [n \in 1..Len(ls) |-> ls[n]]
    BY Positions
  <2> QED  BY <1>3, <2>1
<1> QED
  BY <1>2, <1>3, <1>4

\* A validated entry is one of them, in order, and its sides add up to its totals.
LEMMA ValidatedIs ==
  ASSUME NEW input \in Inputs, Refusal(input) = "none"
  PROVE  LET v == Validated(input)
         IN  /\ v \in ValidatedEntries /\ Len(v.lines) >= 2 /\ InOrder(v.lines)
             /\ \A i \in DOMAIN v.lines : v.lines[i].currency = v.currency
             /\ v.totalDebit = Value(v.lines, OnSide("DEBIT"))
             /\ v.totalDebit = Value(v.lines, OnSide("CREDIT"))
<1> DEFINE ls == input.lines
           ms == Sorted(ls)
           v == Validated(input)
<1>1. /\ ls \in Seq(LineInputs) /\ input.currency \in STRING /\ Len(ls) >= 2
      /\ \A i \in DOMAIN ls : /\ ls[i].account # 0 /\ ls[i].amount > 0
                              /\ ls[i].currency = input.currency
      /\ Debits(ls) = Credits(ls)
  BY AcceptedInput
<1>2. PICK p : Rearranged(ms, ls, p)
  BY <1>1, SortSorts
<1>3. InOrder(ms)
  BY <1>1, SortSorts
<1>4. v = [currency |-> input.currency, lines |-> ms,
           totalDebit |-> Debits(ls), totalCredit |-> Credits(ls)]
  BY DEF Validated
<1>5. Value(ms, OnSide("DEBIT")) = Debits(ls)
      /\ Value(ms, OnSide("CREDIT")) = Credits(ls)
  BY <1>1, <1>2, ValueOfRearranged, TotalsAreValues
<1>6. Debits(ls) \in Nat /\ Credits(ls) \in Nat
  <2>1. \A i \in DOMAIN ls : ls[i].amount >= 0
    BY <1>1, LineFields
  <2> QED  BY <1>1, <2>1, TotalsAreValues, ValueType
<1>7. ASSUME NEW i \in DOMAIN ls PROVE ls[i] \in Stored
  <2>1. ls[i] \in LineInputs /\ ls[i].amount \in Int
    BY <1>1, Positions, LineFields
  <2>2. ls[i].account \in Accounts
    BY DEF Accounts, AccountsOf
  <2> QED  BY <1>1, <2>1, <2>2 DEF Stored, LineInputs
<1>8. /\ DOMAIN ms = DOMAIN ls /\ DOMAIN ls = 1..Len(ls) /\ Len(ls) \in Nat
      /\ ms = [n \in DOMAIN ls |-> ls[p[n]]]
      /\ \A i \in DOMAIN ls : p[i] \in DOMAIN ls /\ ms[i] = ls[p[i]]
  BY <1>1, <1>2, Positions DEF Rearranged, Bijection, Injection
<1> HIDE DEF ms, v
<1>9. ms \in Seq(Stored) /\ Len(ms) = Len(ls)
  <2>1. ms = [n \in 1..Len(ls) |-> ms[n]] /\ \A n \in 1..Len(ls) : ms[n] \in Stored
    BY <1>7, <1>8
  <2>2. ms \in [1..Len(ls) -> Stored]
    BY <2>1
  <2>3. ms \in Seq(Stored)
    BY <1>8, <2>2
  <2> QED  BY <1>8, <2>3, LenProperties
<1>10. \A i \in DOMAIN ms : ms[i].currency = input.currency
  BY <1>1, <1>8
<1>11. v \in ValidatedEntries
  BY <1>1, <1>4, <1>6, <1>9 DEF ValidatedEntries
<1> QED
  BY <1>1, <1>3, <1>4, <1>5, <1>9, <1>10, <1>11 DEF v
-----------------------------------------------------------------------------
(* Deltas.                                                                 *)

\* What the deltas of stored lines are: ten thousand times their amounts, account by
\* account, and nothing for the other accounts.
LEMMA DeltasAreValues ==
  ASSUME NEW ls \in Seq(LineInputs)
  PROVE  LET deltas == ProjectionDeltas(DbLines(ls))
         IN  /\ DOMAIN deltas = AccountsOf(ls)
             /\ \A a \in AccountsOf(ls) :
                  deltas[a] = [debit |-> Scale * Value(ls, InAccount(a, "DEBIT")),
                               credit |-> Scale * Value(ls, InAccount(a, "CREDIT"))]
             /\ \A a : a \notin AccountsOf(ls) =>
                  \A side : Value(ls, InAccount(a, side)) = 0
<1> DEFINE db == DbLines(ls)
           deltas == ProjectionDeltas(db)
           at(a, side) == {i \in DOMAIN db : db[i].account = a /\ db[i].side = side}
           f(a, side) == [i \in at(a, side) |-> AmountMinor(db[i].text)]
           of(a, side) == SumFunction(f(a, side))
           g(a, side) == [i \in at(a, side) |-> ls[i].amount]
<1>1. DOMAIN db = DOMAIN ls
      /\ \A i \in DOMAIN ls : db[i] = [account |-> ls[i].account, side |-> ls[i].side,
                                       text |-> NumericText(ls[i].amount)]
  BY DEF DbLines
<1>2. \A i \in DOMAIN ls : ls[i] \in LineInputs /\ ls[i].amount \in Int
  BY Positions, LineFields
<1>3. \A i \in DOMAIN ls : AmountMinor(db[i].text) = Scale * ls[i].amount
  BY <1>1, <1>2 DEF AmountMinor, NumericText, Scale
<1>4. deltas = [a \in AccountsOf(db) |->
                  [debit |-> of(a, "DEBIT"), credit |-> of(a, "CREDIT")]]
  BY DEF ProjectionDeltas
<1>5. AccountsOf(db) = AccountsOf(ls)
  BY <1>1 DEF AccountsOf
<1> HIDE DEF db
<1>6. ASSUME NEW a, NEW side
      PROVE  at(a, side) = Wanted(ls, InAccount(a, side))
  BY <1>1, <1>2 DEF Wanted, InAccount
<1>7. ASSUME NEW a, NEW side
      PROVE  of(a, side) = Scale * Value(ls, InAccount(a, side))
  <2> DEFINE S == Wanted(ls, InAccount(a, side))
             h == [i \in S |-> ls[i].amount]
  <2>1. f(a, side) = [i \in S |-> AmountMinor(db[i].text)]
    BY <1>6
  <2>2. of(a, side) = SumFunctionOnSet(f(a, side), S)
    BY <2>1, SumOverDomain
  <2>3. Value(ls, InAccount(a, side)) = SumFunctionOnSet(h, S)
    BY SumOfIs DEF Value
  <2>4. IsFiniteSet(S) /\ Scale \in Int
    BY ValueType DEF Scale
  <2>5. \A i \in S : h[i] \in Int /\ f(a, side)[i] = Scale * h[i]
    BY <1>2, <1>3, <2>1 DEF Wanted
  <2>6. PICK k : k = f(a, side)
    OBVIOUS
  <2> HIDE DEF S, h, f
  <2> QED  BY <2>2, <2>3, <2>4, <2>5, <2>6, SumScaled
<1>8. ASSUME NEW a, a \notin AccountsOf(ls), NEW side
      PROVE  Value(ls, InAccount(a, side)) = 0
  <2>1. Wanted(ls, InAccount(a, side)) = {}
    BY <1>8 DEF Wanted, InAccount, AccountsOf
  <2> QED  BY <2>1, SumOfIs, SumEmpty DEF Value
<1> HIDE DEF of, deltas
<1> QED
  BY <1>4, <1>5, <1>7, <1>8 DEF deltas, db
-----------------------------------------------------------------------------
(* The inductive invariant.                                                *)

\* What the accepted entries say their debits add up to.
Declared(js) == SumFunctionOnSet([n \in DOMAIN js |-> js[n].totalDebit], DOMAIN js)

\* The lines of every entries entry are in order.
FormsInOrder == \A n \in DOMAIN entries : InOrder(entries[n].lines)

\* Both sides of the book are what the accepted entries say, and every entry is in it.
BookBalances ==
  /\ entries # <<>> => book # <<>>
  /\ Value(book, OnSide("DEBIT")) = Declared(entries)
  /\ Value(book, OnSide("CREDIT")) = Declared(entries)

\* The running totals are those of the book, account by account, in their own scale.
TotalsAreOfTheBook ==
  \A a \in Accounts :
    /\ totals[a].debit = Scale * Value(book, InAccount(a, "DEBIT"))
    /\ totals[a].credit = Scale * Value(book, InAccount(a, "CREDIT"))

\* The inductive invariant.
BooksInv == BooksTypeOK /\ FormsInOrder /\ BookBalances /\ TotalsAreOfTheBook

\* The parts of the type invariant.
LEMMA BooksTypes ==
  ASSUME BooksTypeOK
  PROVE  /\ entries \in Seq(ValidatedEntries)
         /\ \A n \in DOMAIN entries :
              /\ Len(entries[n].lines) >= 2
              /\ \A i \in DOMAIN entries[n].lines :
                   entries[n].lines[i].currency = entries[n].currency
         /\ book \in Seq(Stored)
         /\ totals \in [Accounts -> [debit : Nat, credit : Nat]]
  BY DEF BooksTypeOK, ValidatedEntries

\* One more entry declares its debits in addition.
LEMMA DeclaredOfAppend ==
  ASSUME NEW js \in Seq(ValidatedEntries), NEW v \in ValidatedEntries
  PROVE  Declared(Append(js, v)) = Declared(js) + v.totalDebit
<1> DEFINE n == Len(js)
           f == [m \in DOMAIN js |-> js[m].totalDebit]
           ks == Append(js, v)
           g == [m \in DOMAIN ks |-> ks[m].totalDebit]
<1>1. /\ n \in Nat /\ DOMAIN js = 1..n /\ IsFiniteSet(DOMAIN js)
      /\ \A m \in DOMAIN js : js[m] \in ValidatedEntries
  BY Positions
<1>2. /\ ks \in Seq(ValidatedEntries) /\ Len(ks) = n + 1
      /\ (\A m \in 1..n : ks[m] = js[m]) /\ ks[n + 1] = v
  BY AppendProperties
<1>3. DOMAIN ks = 1..n + 1 /\ \A m \in DOMAIN ks : ks[m] \in ValidatedEntries
  BY <1>2, Positions
<1>4. DOMAIN ks = DOMAIN js \cup {n + 1} /\ n + 1 \notin DOMAIN js
  BY <1>1, <1>3
<1>5. \A m \in DOMAIN js \cup {n + 1} : g[m] \in Int
  BY <1>3, <1>4 DEF ValidatedEntries
<1>6. \A m \in DOMAIN js : f[m] = g[m]
  BY <1>1, <1>2, <1>4
<1>7. g[n + 1] = v.totalDebit
  BY <1>2, <1>4
<1>8. Declared(js) = SumFunctionOnSet(f, DOMAIN js)
      /\ Declared(ks) = SumFunctionOnSet(g, DOMAIN ks)
  BY DEF Declared
<1>9. v.totalDebit \in Int /\ Declared(js) \in Int
  <2>1. \A m \in DOMAIN js : f[m] \in Int
    BY <1>5, <1>6
  <2>2. v.totalDebit \in Int
    BY DEF ValidatedEntries
  <2> HIDE DEF f, g, ks
  <2>3. SumFunctionOnSet(f, DOMAIN js) \in Int
    BY <1>1, <2>1, SumInt
  <2> QED  BY <1>8, <2>2, <2>3
<1> HIDE DEF f, g, ks, n
<1>10. SumFunctionOnSet(g, DOMAIN js \cup {n + 1})
         = g[n + 1] + SumFunctionOnSet(g, DOMAIN js)
  BY <1>1, <1>4, <1>5, SumAdd
<1>11. SumFunctionOnSet(f, DOMAIN js) = SumFunctionOnSet(g, DOMAIN js)
  BY <1>1, <1>6, SumEqual
<1> QED
  BY <1>4, <1>7, <1>8, <1>9, <1>10, <1>11 DEF ks

\* An empty array adds up to nothing.
LEMMA NoLines == \A W : Value(<<>>, W) = 0
<1>1. \A W : Wanted(<<>>, W) = {}
  BY DEF Wanted
<1> QED  BY <1>1, SumOfIs, SumEmpty DEF Value

\* The books are empty at first.
LEMMA BooksInitially ==
  ASSUME BooksInit
  PROVE  BooksInv
<1>1. /\ entries = <<>> /\ book = <<>>
      /\ totals = [a \in Accounts |-> [debit |-> 0, credit |-> 0]]
  BY DEF BooksInit
<1>2. BooksTypeOK
  BY <1>1 DEF BooksTypeOK
<1>3. FormsInOrder
  BY <1>1 DEF FormsInOrder
<1>4. Declared(<<>>) = 0
  BY SumEmpty DEF Declared
<1>5. BookBalances
  BY <1>1, <1>4, NoLines DEF BookBalances
<1>6. TotalsAreOfTheBook
  BY <1>1, NoLines DEF TotalsAreOfTheBook, Scale
<1> QED  BY <1>2, <1>3, <1>5, <1>6 DEF BooksInv

\* An entries entry keeps the books well formed.
LEMMA SubmitKeepsTypes ==
  ASSUME BooksInv, NEW input \in Inputs, Submit(input)
  PROVE  BooksTypeOK' /\ FormsInOrder' /\ BookBalances' /\ TotalsAreOfTheBook'
<1> DEFINE v == Validated(input)
           deltas == ProjectionDeltas(DbLines(v.lines))
<1>1. /\ Refusal(input) = "none" /\ entries' = Append(entries, v)
      /\ book' = book \o v.lines
      /\ totals' = [a \in Accounts |->
                      IF a \in DOMAIN deltas
                        THEN [debit |-> totals[a].debit + deltas[a].debit,
                              credit |-> totals[a].credit + deltas[a].credit]
                        ELSE totals[a]]
  BY DEF Submit
<1>2. /\ v \in ValidatedEntries /\ Len(v.lines) >= 2 /\ InOrder(v.lines)
      /\ \A i \in DOMAIN v.lines : v.lines[i].currency = v.currency
      /\ v.totalDebit = Value(v.lines, OnSide("DEBIT"))
      /\ v.totalDebit = Value(v.lines, OnSide("CREDIT"))
  BY <1>1, ValidatedIs
<1>3. v.lines \in Seq(Stored) /\ v.lines \in Seq(LineInputs)
  BY <1>2, StoredAreLines DEF ValidatedEntries
<1>4. /\ entries \in Seq(ValidatedEntries)
      /\ book \in Seq(Stored) /\ book \in Seq(LineInputs)
      /\ totals \in [Accounts -> [debit : Nat, credit : Nat]]
      /\ \A n \in DOMAIN entries :
           /\ Len(entries[n].lines) >= 2 /\ InOrder(entries[n].lines)
           /\ \A i \in DOMAIN entries[n].lines :
                entries[n].lines[i].currency = entries[n].currency
  BY BooksTypes, StoredAreLines DEF BooksInv, FormsInOrder
<1>5. /\ DOMAIN deltas = AccountsOf(v.lines)
      /\ \A a \in AccountsOf(v.lines) :
           deltas[a] = [debit |-> Scale * Value(v.lines, InAccount(a, "DEBIT")),
                        credit |-> Scale * Value(v.lines, InAccount(a, "CREDIT"))]
      /\ \A a : a \notin AccountsOf(v.lines) =>
           \A side : Value(v.lines, InAccount(a, side)) = 0
  BY <1>3, DeltasAreValues
<1>6. \A i \in DOMAIN v.lines : v.lines[i].amount >= 0
  <2> HIDE DEF v
  <2> TAKE i \in DOMAIN v.lines
  <2>1. v.lines[i] \in Stored
    BY <1>3, Positions
  <2> QED  BY <2>1 DEF Stored
<1> HIDE DEF v, deltas
<1>7. \A W : Value(v.lines, W) \in Nat /\ Value(book, W) \in Int
  BY <1>3, <1>4, <1>6, ValueType
<1>8. \A W : Value(book', W) = Value(book, W) + Value(v.lines, W)
  BY <1>1, <1>3, <1>4, ValueOfConcat
<1>9. /\ entries' \in Seq(ValidatedEntries) /\ Len(entries) \in Nat
      /\ DOMAIN entries = 1..Len(entries) /\ DOMAIN entries' = 1..Len(entries) + 1
      /\ \A n \in DOMAIN entries : entries'[n] = entries[n]
      /\ entries'[Len(entries) + 1] = v
  <2>1. /\ Append(entries, v) \in Seq(ValidatedEntries)
        /\ Len(Append(entries, v)) = Len(entries) + 1
        /\ \A n \in 1..Len(entries) : Append(entries, v)[n] = entries[n]
        /\ Append(entries, v)[Len(entries) + 1] = v
    BY <1>2, <1>4, AppendProperties
  <2> QED  BY <1>1, <1>4, <2>1, Positions
<1>10. ASSUME NEW n \in DOMAIN entries'
       PROVE  /\ Len(entries'[n].lines) >= 2 /\ InOrder(entries'[n].lines)
              /\ \A i \in DOMAIN entries'[n].lines :
                   entries'[n].lines[i].currency = entries'[n].currency
  <2>1. n \in DOMAIN entries \/ n = Len(entries) + 1
    BY <1>9
  <2> QED  BY <1>2, <1>4, <1>9, <2>1
<1>11. book' \in Seq(Stored)
  BY <1>1, <1>3, <1>4, ConcatProperties
<1>12. ASSUME NEW a \in Accounts
       PROVE  /\ totals'[a] \in [debit : Nat, credit : Nat]
              /\ totals'[a].debit = totals[a].debit
                                      + Scale * Value(v.lines, InAccount(a, "DEBIT"))
              /\ totals'[a].credit = totals[a].credit
                                      + Scale * Value(v.lines, InAccount(a, "CREDIT"))
  <2>1. totals[a].debit \in Nat /\ totals[a].credit \in Nat
        /\ totals[a] \in [debit : Nat, credit : Nat]
    BY <1>4
  <2>2. CASE a \in AccountsOf(v.lines)
    <3>1. totals'[a] = [debit |-> totals[a].debit + deltas[a].debit,
                        credit |-> totals[a].credit + deltas[a].credit]
      BY <1>1, <1>5, <2>2
    <3>2. deltas[a] = [debit |-> Scale * Value(v.lines, InAccount(a, "DEBIT")),
                       credit |-> Scale * Value(v.lines, InAccount(a, "CREDIT"))]
      BY <1>5, <2>2
    <3> QED  BY <1>7, <2>1, <3>1, <3>2 DEF Scale
  <2>3. CASE a \notin AccountsOf(v.lines)
    <3>1. totals'[a] = totals[a]
      BY <1>1, <1>5, <2>3
    <3>2. /\ Value(v.lines, InAccount(a, "DEBIT")) = 0
          /\ Value(v.lines, InAccount(a, "CREDIT")) = 0
      BY <1>5, <2>3
    <3> QED  BY <2>1, <3>1, <3>2 DEF Scale
  <2> QED  BY <2>2, <2>3
<1>13. totals' \in [Accounts -> [debit : Nat, credit : Nat]]
  BY <1>1, <1>12
<1>14. BooksTypeOK'
  BY <1>9, <1>10, <1>11, <1>13 DEF BooksTypeOK, ValidatedEntries
<1>15. FormsInOrder'
  BY <1>10 DEF FormsInOrder
<1>16. BookBalances'
  <2>1. Declared(entries') = Declared(entries) + v.totalDebit
    BY <1>1, <1>2, <1>4, DeclaredOfAppend
  <2>2. Len(book') = Len(book) + Len(v.lines) /\ Len(book) \in Nat
        /\ Len(v.lines) \in Nat
    BY <1>1, <1>3, <1>4, ConcatProperties, Positions
  <2>3. book' # <<>>
    <3> SUFFICES ASSUME book' = <<>> PROVE FALSE
      OBVIOUS
    <3>1. Len(book') = 0
      OBVIOUS
    <3> QED  BY <1>2, <2>2, <3>1
  <2> QED  BY <1>2, <1>7, <1>8, <2>1, <2>3 DEF BooksInv, BookBalances
<1>17. TotalsAreOfTheBook'
  <2> SUFFICES ASSUME NEW a \in Accounts
               PROVE  /\ totals'[a].debit = Scale * Value(book', InAccount(a, "DEBIT"))
                      /\ totals'[a].credit = Scale * Value(book', InAccount(a, "CREDIT"))
    BY DEF TotalsAreOfTheBook
  <2>1. /\ totals[a].debit = Scale * Value(book, InAccount(a, "DEBIT"))
        /\ totals[a].credit = Scale * Value(book, InAccount(a, "CREDIT"))
    BY DEF BooksInv, TotalsAreOfTheBook
  <2> QED  BY <1>7, <1>8, <1>12, <2>1 DEF Scale
<1> QED
  BY <1>14, <1>15, <1>16, <1>17

\* The invariant holds of every state.
LEMMA BooksInvariance == BooksSpec => []BooksInv
<1>1. BooksInit => BooksInv
  BY BooksInitially
<1>2. BooksInv /\ [BooksNext]_booksVars => BooksInv'
  <2> SUFFICES ASSUME BooksInv, [BooksNext]_booksVars PROVE BooksInv'
    OBVIOUS
  <2>1. CASE BooksNext
    <3>1. PICK input \in Inputs : Submit(input)
      BY <2>1 DEF BooksNext
    <3> QED  BY <3>1, SubmitKeepsTypes DEF BooksInv
  <2>2. CASE UNCHANGED booksVars
    BY <2>2 DEF booksVars, BooksInv, BooksTypeOK, FormsInOrder, BookBalances,
               TotalsAreOfTheBook
  <2> QED  BY <2>1, <2>2
<1> QED
  BY <1>1, <1>2, PTL DEF BooksSpec
-----------------------------------------------------------------------------
(* Balances and trial balance of an array of lines.                        *)

\* The currencies of lines.
CurrenciesOf(ls) == {ls[i].currency : i \in DOMAIN ls}

\* Accounts and currencies of an array of lines are finitely many.
LEMMA FinitelyMany ==
  ASSUME NEW ls \in Seq(LineInputs)
  PROVE  /\ IsFiniteSet(AccountsOf(ls)) /\ AccountsOf(ls) \subseteq Nat
         /\ IsFiniteSet(CurrenciesOf(ls))
<1> DEFINE a == [i \in DOMAIN ls |-> ls[i].account]
           c == [i \in DOMAIN ls |-> ls[i].currency]
<1>1. IsFiniteSet(DOMAIN ls) /\ \A i \in DOMAIN ls : ls[i].account \in Nat
  BY Positions, LineFields
<1>2. /\ AccountsOf(ls) = {a[i] : i \in DOMAIN ls}
      /\ CurrenciesOf(ls) = {c[i] : i \in DOMAIN ls}
  BY DEF AccountsOf, CurrenciesOf
<1>3. AccountsOf(ls) \subseteq Nat
  BY <1>1 DEF AccountsOf
<1> HIDE DEF a, c
<1>4. IsFiniteSet({a[i] : i \in DOMAIN ls}) /\ IsFiniteSet({c[i] : i \in DOMAIN ls})
  BY <1>1, FiniteImage
<1> QED
  BY <1>2, <1>3, <1>4

\* The balances of an array, where it is not refused: values per account, in the
\* currency of every line of the account.  It is refused for two currencies only.
LEMMA BalancesAre ==
  ASSUME NEW ls \in Seq(LineInputs), ls # <<>>
  PROVE  LET b == BalancePerAccount(ls)
         IN  /\ b.error # "none" => b.error = "CURRENCY_MISMATCH" /\ \E i, j \in DOMAIN ls :
                                      ls[i].currency # ls[j].currency
             /\ b.error = "none" =>
                  /\ DOMAIN b.of = AccountsOf(ls)
                  /\ \A a \in AccountsOf(ls) :
                       /\ b.of[a].debit = Value(ls, InAccount(a, "DEBIT"))
                       /\ b.of[a].credit = Value(ls, InAccount(a, "CREDIT"))
                       /\ b.of[a].currency \in CurrenciesOf(ls)
                  /\ \A i \in DOMAIN ls : b.of[ls[i].account].currency = ls[i].currency
<1> DEFINE b == BalancePerAccount(ls)
           at(a) == {i \in DOMAIN ls : ls[i].account = a}
           opening(a) == ls[First(at(a))]
           of(a, side) == SumMoney(ls, {i \in DOMAIN ls : /\ ls[i].account = a
                                                           /\ ls[i].side = side})
           mixed == \E i \in DOMAIN ls : ls[i].currency # opening(ls[i].account).currency
           balance == [a \in AccountsOf(ls) |->
                         [currency |-> opening(a).currency,
                          debit |-> of(a, "DEBIT"), credit |-> of(a, "CREDIT"),
                          net |-> of(a, "DEBIT") - of(a, "CREDIT")]]
<1>1. b = IF mixed THEN [error |-> "CURRENCY_MISMATCH"]
          ELSE [error |-> "none", of |-> balance]
  BY DEF BalancePerAccount
<1>2. IsFiniteSet(DOMAIN ls) /\ DOMAIN ls \subseteq Nat
      /\ \A i \in DOMAIN ls : ls[i] \in LineInputs
  BY Positions
<1>3. ASSUME NEW a \in AccountsOf(ls)
      PROVE  First(at(a)) \in DOMAIN ls
  <2>1. at(a) # {} /\ at(a) \in SUBSET DOMAIN ls
    BY DEF AccountsOf
  <2>2. IsFiniteSet(at(a)) /\ at(a) \in SUBSET Nat
    BY <1>2, <2>1, FS_Subset
  <2>3. First(at(a)) \in at(a)
    <3> HIDE DEF at
    <3> QED  BY <2>1, <2>2, FirstExists
  <2> QED  BY <2>3
<1>4. ASSUME NEW a, NEW side PROVE of(a, side) = Value(ls, InAccount(a, side))
  <2>1. {i \in DOMAIN ls : ls[i].account = a /\ ls[i].side = side}
          = Wanted(ls, InAccount(a, side))
    BY <1>2 DEF Wanted, InAccount
  <2> QED  BY <2>1 DEF Value
<1>5. \A i \in DOMAIN ls : ls[i].account \in AccountsOf(ls)
  BY DEF AccountsOf
<1>6. mixed => \E i, j \in DOMAIN ls : ls[i].currency # ls[j].currency
  BY <1>3, <1>5
<1>7. CASE mixed
  <2>1. b.error = "CURRENCY_MISMATCH"
    <3> HIDE DEF balance, mixed
    <3> QED  BY <1>1, <1>7
  <2> QED  BY <1>6, <1>7, <2>1
<1>8. CASE ~mixed
  <2>1. b.error = "none" /\ b.of = balance
    <3> HIDE DEF balance, mixed
    <3> QED  BY <1>1, <1>8
  <2>2. \A a \in AccountsOf(ls) : opening(a).currency \in CurrenciesOf(ls)
    BY <1>3 DEF CurrenciesOf
  <2>3. \A i \in DOMAIN ls : opening(ls[i].account).currency = ls[i].currency
    BY <1>8
  <2> HIDE DEF opening, of, b
  <2> QED  BY <1>4, <1>5, <2>1, <2>2, <2>3 DEF b
<1> QED  BY <1>7, <1>8

\* A side of the array adds up to the balances of its accounts.
LEMMA SideOfAccounts ==
  ASSUME NEW ls \in Seq(LineInputs), NEW side, NEW total,
         \A a \in AccountsOf(ls) : total[a] = Value(ls, InAccount(a, side))
  PROVE  SumFunctionOnSet(total, AccountsOf(ls)) = Value(ls, OnSide(side))
<1> DEFINE I == AccountsOf(ls)
           S == Wanted(ls, OnSide(side))
           part == [a \in I |-> Wanted(ls, InAccount(a, side))]
           f == [i \in S |-> ls[i].amount]
           g(a) == [i \in Wanted(ls, InAccount(a, side)) |-> ls[i].amount]
<1>1. IsFiniteSet(I)
  BY FinitelyMany
<1>2. \A i \in DOMAIN ls : /\ ls[i] \in LineInputs /\ ls[i].account \in I
                           /\ ls[i].amount \in Int
  BY Positions, LineFields DEF AccountsOf
<1>3. \A i : i \in S <=> \E a \in I : i \in part[a]
  BY <1>2 DEF Wanted, OnSide, InAccount
<1>4. \A a, b \in I : a # b => part[a] \cap part[b] = {}
  BY DEF Wanted, InAccount
<1>5. \A i \in S : f[i] \in Int
  BY <1>2 DEF Wanted
<1>6. ASSUME NEW a \in I
      PROVE  IsFiniteSet(part[a]) /\ total[a] = SumFunctionOnSet(f, part[a])
  <2>1. IsFiniteSet(part[a])
    BY ValueType
  <2>2. total[a] = SumFunctionOnSet(g(a), part[a])
    BY SumOfIs DEF Value
  <2>3. \A i \in part[a] : g(a)[i] = f[i]
    BY <1>3
  <2>4. PICK h : h = g(a)
    OBVIOUS
  <2> HIDE DEF g, f, part, I, S
  <2> QED  BY <2>1, <2>2, <2>3, <2>4, SumEqual
<1>7. Value(ls, OnSide(side)) = SumFunctionOnSet(f, S)
  BY SumOfIs DEF Value
<1> HIDE DEF I, S, part, f
<1>8. Parts(f, S, I, part, total)
  BY <1>1, <1>3, <1>4, <1>5, <1>6 DEF Parts
<1>9. SumFunctionOnSet(f, S) = SumFunctionOnSet(total, I)
  BY <1>8, SumOfParts
<1> QED
  BY <1>7, <1>9 DEF I
-----------------------------------------------------------------------------
(* The properties.                                                         *)

\* A trial balance of one currency lists each account once and in order, and its
\* columns add up to the sides of the array.
LEMMA TrialBalanceOfOneCurrency ==
  ASSUME NEW ls \in Seq(LineInputs), ls # <<>>, NEW c, CurrenciesOf(ls) = {c}
  PROVE  LET tb == TrialBalanceFromLines(ls)
         IN  /\ tb.error = "none"
             /\ tb.totalDebit = Value(ls, OnSide("DEBIT"))
             /\ tb.balanced <=> Value(ls, OnSide("DEBIT")) = Value(ls, OnSide("CREDIT"))
             /\ {tb.rows[n].account : n \in DOMAIN tb.rows} = AccountsOf(ls)
             /\ \A m, n \in DOMAIN tb.rows :
                  m < n => tb.rows[m].account < tb.rows[n].account
<1> DEFINE b == BalancePerAccount(ls)
           of == b.of
           S == AccountsOf(ls)
           R == {p \in S \X S : p[1] < p[2]}
           row == Arranged(S, R)
           debit == [a \in S |-> of[a].debit]
           credit == [a \in S |-> of[a].credit]
           rows == [n \in DOMAIN row |-> [account |-> row[n], debit |-> of[row[n]].debit,
                                          credit |-> of[row[n]].credit]]
           D == SumFunctionOnSet(debit, S)
           C == SumFunctionOnSet(credit, S)
           tb == TrialBalanceFromLines(ls)
<1>1. \A i, j \in DOMAIN ls : ls[i].currency = ls[j].currency
  BY DEF CurrenciesOf
<1>2. b.error = "none"
  BY <1>1, BalancesAre
<1>3. /\ DOMAIN of = S
      /\ \A a \in S : /\ of[a].debit = Value(ls, InAccount(a, "DEBIT"))
                      /\ of[a].credit = Value(ls, InAccount(a, "CREDIT"))
                      /\ of[a].currency = c
  BY <1>2, BalancesAre
<1>4. IsFiniteSet(S) /\ S \subseteq Nat
  BY FinitelyMany
<1>5. S # {}
  <2>1. DOMAIN ls # {}
    BY DEF CurrenciesOf
  <2> QED  BY <2>1 DEF AccountsOf
<1>6. D = Value(ls, OnSide("DEBIT")) /\ C = Value(ls, OnSide("CREDIT"))
  <2>1. /\ \A a \in S : debit[a] = Value(ls, InAccount(a, "DEBIT"))
        /\ \A a \in S : credit[a] = Value(ls, InAccount(a, "CREDIT"))
    BY <1>3
  <2> HIDE DEF debit, credit
  <2> QED  BY <2>1, SideOfAccounts
<1>7. Orders(R, S)
  BY <1>4 DEF Orders
<1>8. Enumerates(row, S, R)
  <2> HIDE DEF S, R
  <2> QED  BY <1>4, <1>7, ArrangedEnumerates
<1>9. {of[a].currency : a \in DOMAIN of} = {c}
  BY <1>3, <1>5
<1>10. ~(Cardinality({of[a].currency : a \in DOMAIN of}) > 1)
  <2>1. Cardinality({c}) = 1
    BY FS_Singleton
  <2>2. PICK T : T = {of[a].currency : a \in DOMAIN of}
    OBVIOUS
  <2>3. Cardinality(T) = 1
    BY <1>9, <2>1, <2>2
  <2> HIDE DEF of
  <2> QED  BY <2>2, <2>3
<1>11. tb = [error |-> "none", rows |-> rows, totalDebit |-> D, totalCredit |-> C,
             balanced |-> D = C]
  <2>1. tb = TrialBalanceFromMap(of)
    BY <1>2 DEF TrialBalanceFromLines
  <2>2. SumFunction(debit) = D /\ SumFunction(credit) = C
    BY SumOverDomain
  <2>3. DOMAIN of # {} /\ DOMAIN of = S
    BY <1>3, <1>5
  <2> HIDE DEF b, S, D, C
  <2> QED  BY <1>10, <2>1, <2>2, <2>3 DEF TrialBalanceFromMap
<1>12. /\ DOMAIN row = 1..Cardinality(S) /\ Cardinality(S) \in Nat
       /\ \A n \in DOMAIN row : row[n] \in S
       /\ \A a \in S : \E n \in DOMAIN row : row[n] = a
       /\ \A m, n \in DOMAIN row : m < n => row[m] < row[n]
  <2>1. row \in Bijection(1..Cardinality(S), S)
        /\ \A m, n \in 1..Cardinality(S) : m < n => <<row[m], row[n]>> \in R
    BY <1>8 DEF Enumerates
  <2>2. Cardinality(S) \in Nat
    BY <1>4, FS_CardinalityType
  <2> HIDE DEF S, row
  <2> QED  BY <2>1, <2>2 DEF Bijection, Injection, Surjection
<1>13. {rows[n].account : n \in DOMAIN rows} = S
       /\ \A m, n \in DOMAIN rows : m < n => rows[m].account < rows[n].account
  <2> HIDE DEF S, row
  <2> QED  BY <1>12
<1> HIDE DEF tb, rows, D, C, S
<1>14. tb.error = "none" /\ tb.rows = rows /\ tb.totalDebit = D /\ (tb.balanced <=> D = C)
  BY <1>11
<1> QED
  BY <1>6, <1>13, <1>14 DEF tb, S

\* One of several currencies is refused.
LEMMA TrialBalanceOfSeveral ==
  ASSUME NEW ls \in Seq(LineInputs), ls # <<>>, Cardinality(CurrenciesOf(ls)) # 1
  PROVE  TrialBalanceFromLines(ls).error = "CURRENCY_MISMATCH"
<1> DEFINE b == BalancePerAccount(ls)
           of == b.of
           S == CurrenciesOf(ls)
<1>1. CASE b.error # "none"
  <2>1. TrialBalanceFromLines(ls) = b
    BY <1>1 DEF TrialBalanceFromLines
  <2> QED  BY <1>1, <2>1, BalancesAre
<1>2. CASE b.error = "none"
  <2>1. /\ DOMAIN of = AccountsOf(ls)
        /\ \A a \in AccountsOf(ls) : of[a].currency \in S
        /\ \A i \in DOMAIN ls : of[ls[i].account].currency = ls[i].currency
    BY <1>2, BalancesAre
  <2>2. {of[a].currency : a \in DOMAIN of} = S
    BY <2>1 DEF CurrenciesOf, AccountsOf
  <2>3. IsFiniteSet(S) /\ Cardinality(S) \in Nat
    BY FinitelyMany, FS_CardinalityType
  <2>4. DOMAIN ls # {}
    <3>1. Len(ls) \in Nat /\ Len(ls) # 0 /\ DOMAIN ls = 1..Len(ls)
      BY EmptySeq, LenProperties
    <3> QED  BY ONLY <3>1
  <2>5. S # {} /\ DOMAIN of # {}
    BY <2>1, <2>4 DEF CurrenciesOf, AccountsOf
  <2>6. Cardinality(S) > 1
    BY <2>3, <2>5, FS_EmptySet
  <2>7. TrialBalanceFromLines(ls) = TrialBalanceFromMap(of)
    BY <1>2 DEF TrialBalanceFromLines
  <2>8. Cardinality({of[a].currency : a \in DOMAIN of}) > 1
    BY <2>2, <2>6
  <2> HIDE DEF of
  <2> QED  BY <2>5, <2>7, <2>8 DEF TrialBalanceFromMap
<1> QED  BY <1>1, <1>2

\* What the invariant says of the book.
LEMMA BookFacts ==
  ASSUME BooksInv
  PROVE  /\ book \in Seq(LineInputs) /\ (entries # <<>> => book # <<>>)
         /\ AccountsOf(book) \subseteq Accounts
         /\ Currencies = CurrenciesOf(book)
<1>1. book \in Seq(Stored)
  BY BooksTypes DEF BooksInv
<1>2. \A i \in DOMAIN book : book[i] \in Stored
  BY <1>1, Positions
<1>3. AccountsOf(book) \subseteq Accounts
  BY <1>2 DEF AccountsOf, Stored
<1> QED
  BY <1>1, <1>3, StoredAreLines
     DEF BooksInv, BookBalances, Currencies, CurrenciesOf

\* However many accepted entries the caller's books hold, they are well-formed double
\* entries, whose lines are all in the book (posting.ts, validateEntry).
THEOREM BooksTypeCorrect == BooksSpec => []BooksTypeOK
<1>1. BooksInv => BooksTypeOK
  BY DEF BooksInv
<1> QED
  BY <1>1, BooksInvariance, PTL

\* The trial balance of all accepted lines balances, lists each account once and adds up
\* to what the entries declare; for several currencies there is none (balance.ts 82-126).
THEOREM BooksTrialBalances == BooksSpec => []TrialBalances
<1>1. BooksInv => TrialBalances
  <2> SUFFICES ASSUME BooksInv, entries # <<>>
               PROVE  LET tb == TrialBalanceFromLines(book)
                      IN  IF Cardinality(Currencies) = 1
                            THEN /\ tb.error = "none" /\ tb.balanced
                                 /\ tb.totalDebit =
                                      SumFunction([n \in DOMAIN entries |->
                                                          entries[n].totalDebit])
                                 /\ {tb.rows[n].account : n \in DOMAIN tb.rows}
                                      = AccountsOf(book)
                                 /\ \A m, n \in DOMAIN tb.rows :
                                      m < n => tb.rows[m].account < tb.rows[n].account
                            ELSE tb.error = "CURRENCY_MISMATCH"
    BY DEF TrialBalances
  <2>1. book \in Seq(LineInputs) /\ book # <<>> /\ Currencies = CurrenciesOf(book)
    BY BookFacts
  <2>2. Value(book, OnSide("DEBIT")) = Declared(entries)
        /\ Value(book, OnSide("CREDIT")) = Declared(entries)
    BY DEF BooksInv, BookBalances
  <2>3. SumFunction([n \in DOMAIN entries |-> entries[n].totalDebit])
          = Declared(entries)
    BY SumOverDomain DEF Declared
  <2>4. Cardinality(Currencies) = Cardinality(CurrenciesOf(book))
    BY <2>1
  <2>5. CASE Cardinality(CurrenciesOf(book)) = 1
    <3>1. PICK c : CurrenciesOf(book) = {c}
      BY <2>1, <2>5, FinitelyMany, FS_Singleton
    <3> QED  BY <2>1, <2>2, <2>3, <2>4, <2>5, <3>1, TrialBalanceOfOneCurrency
  <2>6. CASE Cardinality(CurrenciesOf(book)) # 1
    BY <2>1, <2>4, <2>6, TrialBalanceOfSeveral
  <2> QED  BY <2>5, <2>6
<1> QED
  BY <1>1, BooksInvariance, PTL

\* Totals kept entry by entry are the balances of all lines, in the scale of the deltas
\* (balance.ts 139-175 against 32-68).
THEOREM BooksDeltasAddUp == BooksSpec => []DeltasAddUp
<1>1. BooksInv => DeltasAddUp
  <2> SUFFICES ASSUME BooksInv, entries # <<>>,
                      BalancePerAccount(book).error = "none",
                      NEW a \in DOMAIN BalancePerAccount(book).of
               PROVE  /\ totals[a].debit =
                           Scale * BalancePerAccount(book).of[a].debit
                      /\ totals[a].credit =
                           Scale * BalancePerAccount(book).of[a].credit
    BY DEF DeltasAddUp
  <2>1. book \in Seq(LineInputs) /\ book # <<>>
        /\ AccountsOf(book) \subseteq Accounts
    BY BookFacts
  <2>2. /\ a \in AccountsOf(book)
        /\ BalancePerAccount(book).of[a].debit = Value(book, InAccount(a, "DEBIT"))
        /\ BalancePerAccount(book).of[a].credit = Value(book, InAccount(a, "CREDIT"))
    BY <2>1, BalancesAre
  <2> QED  BY <2>1, <2>2 DEF BooksInv, TotalsAreOfTheBook
<1> QED
  BY <1>1, BooksInvariance, PTL

\* Two accepted entries with the same lines have them in the same order, whatever the
\* order they came in, but for lines that differ in nothing but their memos (posting.ts
\* 20-21 and 73-78).
THEOREM BooksSameLinesSameForm == BooksSpec => []SameLinesSameForm
<1>1. BooksInv => SameLinesSameForm
  <2> SUFFICES ASSUME BooksInv, NEW m \in DOMAIN entries, NEW n \in DOMAIN entries,
                      SameLines(entries[m].lines, entries[n].lines)
               PROVE  LET ls == entries[m].lines
                          ms == entries[n].lines
                      IN  /\ \A i \in DOMAIN ls : AlikeButForMemo(ls[i], ms[i])
                          /\ (\A i, j \in DOMAIN ls :
                                AlikeButForMemo(ls[i], ls[j]) => ls[i] = ls[j])
                               => ls = ms
    BY DEF SameLinesSameForm
  <2>1. /\ entries \in Seq(ValidatedEntries)
        /\ \A i \in DOMAIN entries[m].lines :
             entries[m].lines[i].currency = entries[m].currency
    BY BooksTypes DEF BooksInv
  <2>2. entries[m] \in ValidatedEntries /\ entries[n] \in ValidatedEntries
    BY <2>1, Positions
  <2>3. entries[m].lines \in Seq(LineInputs) /\ entries[n].lines \in Seq(LineInputs)
    BY <2>2, StoredAreLines DEF ValidatedEntries
  <2>4. InOrder(entries[m].lines) /\ InOrder(entries[n].lines)
    BY DEF BooksInv, FormsInOrder
  <2>5. /\ DOMAIN entries[m].lines = DOMAIN entries[n].lines
        /\ \A k \in DOMAIN entries[m].lines :
             AlikeButForMemo(entries[m].lines[k], entries[n].lines[k])
    BY <2>1, <2>3, <2>4, OneForm
  <2>6. (\A i, j \in DOMAIN entries[m].lines :
           AlikeButForMemo(entries[m].lines[i], entries[m].lines[j]) =>
             entries[m].lines[i] = entries[m].lines[j])
          => entries[m].lines = entries[n].lines
    BY <2>3, <2>5, OneFormWithoutMemos
  <2> QED  BY <2>5, <2>6
<1> QED
  BY <1>1, BooksInvariance, PTL
=============================================================================
