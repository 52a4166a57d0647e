--------------------------- MODULE PostingProofs ----------------------------
(***************************************************************************)
(* For every set of calls, payloads, chart of accounts and pool size: the  *)
(* tables and answers stay well typed, a call leaves everything or         *)
(* nothing, a key yields one entry, the answers are true, and postEntry    *)
(* implements the idempotent ledger.                                       *)
(***************************************************************************)
EXTENDS Posting, Sums, SequenceTheorems, TLAPS

\* What an open transaction has inserted, by the statement its call is at.
StagedRows ==
  \A r \in Requests :
    /\ pc[r] \notin {"lines", "key", "outbox", "commit"} => staged[r] = NoRows
    /\ pc[r] \in {"lines", "key", "outbox", "commit"} => staged[r].entry
    /\ staged[r].key <=> pc[r] \in {"outbox", "commit"}
    /\ staged[r].outbox <=> pc[r] = "commit"
    /\ pc[r] = "lines" =>
         /\ Len(staged[r].lines) <= Len(Req[r].lines)
         /\ \A i \in 1..Len(staged[r].lines) : staged[r].lines[i] = Req[r].lines[i]
    /\ pc[r] \in {"key", "outbox", "commit"} => staged[r].lines = Req[r].lines

\* Among the calls of a slot at most one has an uncommitted key row, and then no
\* committed one exists.
KeyRowsExclusive ==
  \A r \in Requests : staged[r].key =>
    /\ keys[Slot(r)] = None
    /\ \A q \in Requests : staged[q].key /\ Slot(q) = Slot(r) => q = r

\* A call has no committed rows and no answer before it ends.
NothingBeforeTheEnd ==
  \A r \in Requests :
    /\ pc[r] \notin {"done", "lost"} => r \notin entries
    /\ answer[r] # None => pc[r] = "done"

\* A key row names an entry of its own slot.
KeysNameTheirOwn ==
  \A s \in Slots : keys[s] # None => Slot(keys[s]) = s

\* The inductive invariant.
IInv ==
  /\ TypeOK
  /\ StagedRows
  /\ KeyRowsExclusive
  /\ NothingBeforeTheEnd
  /\ KeysNameTheirOwn
  /\ AllOrNothing
  /\ AnswersAreTrue
-----------------------------------------------------------------------------
\* A call's slot is one of the slots.
LEMMA SlotInSlots == \A r \in Requests : Slot(r) \in Slots
  BY DEF Slots

\* What the COMMIT of calls that reached it does to the tables.
LEMMA InstallEffect ==
  ASSUME TypeOK, StagedRows, KeyRowsExclusive,
         NEW S \in SUBSET Requests, \A r \in S : pc[r] = "commit", Install(S)
  PROVE  /\ entries' = entries \cup S
         /\ outbox' = outbox \cup S
         /\ lines' \in [Requests -> Seq(Line)]
         /\ \A r \in S : lines'[r] = Req[r].lines
         /\ \A r \in Requests \ S : lines'[r] = lines[r]
         /\ keys' \in [Slots -> Requests \cup {None}]
         /\ \A r \in S : keys'[Slot(r)] = r
         /\ \A s \in Slots : (\A r \in S : Slot(r) # s) => keys'[s] = keys[s]
<1>1. \A r \in S : staged[r].entry /\ staged[r].outbox /\ staged[r].key
                   /\ staged[r].lines = Req[r].lines
  BY DEF StagedRows
<1>2. entries' = entries \cup S /\ outbox' = outbox \cup S
  BY <1>1 DEF Install
<1>3. /\ lines' \in [Requests -> Seq(Line)]
      /\ \A r \in S : lines'[r] = Req[r].lines
      /\ \A r \in Requests \ S : lines'[r] = lines[r]
  BY <1>1 DEF Install, TypeOK, Rows
<1>4. \A r \in S : keys'[Slot(r)] = r
  <2> TAKE r \in S
  <2>1. \A q \in S : staged[q].key /\ Slot(q) = Slot(r) => q = r
    BY <1>1 DEF KeyRowsExclusive
  <2>2. (CHOOSE q \in S : staged[q].key /\ Slot(q) = Slot(r)) = r
    BY <1>1, <2>1
  <2> QED
    BY <1>1, <2>2, SlotInSlots DEF Install
<1>5. \A s \in Slots : (\A r \in S : Slot(r) # s) => keys'[s] = keys[s]
  BY DEF Install
<1>6. keys' \in [Slots -> Requests \cup {None}]
  <2>1. \A s \in Slots : keys'[s] \in Requests \cup {None}
    <3> TAKE s \in Slots
    <3>1. CASE \A r \in S : Slot(r) # s
      BY <3>1, <1>5 DEF TypeOK
    <3>2. CASE \E r \in S : Slot(r) = s
      BY <3>2, <1>4
    <3> QED
      BY <3>1, <3>2
  <2>2. keys' = [s \in Slots |-> keys'[s]]
    BY DEF Install
  <2> QED
    BY <2>1, <2>2
<1> QED
  BY <1>2, <1>3, <1>4, <1>5, <1>6
-----------------------------------------------------------------------------
\* The empty transaction is well typed.
LEMMA NoRowsType == NoRows \in Rows
  BY DEF NoRows, Rows

\* An INSERT changes one field of the rows of one call.
LEMMA InsertEffect ==
  ASSUME NEW row \in Rows, NEW v
  PROVE  /\ [row EXCEPT !.entry = v] = [entry |-> v, lines |-> row.lines,
                                        key |-> row.key, outbox |-> row.outbox]
         /\ [row EXCEPT !.lines = v] = [entry |-> row.entry, lines |-> v,
                                        key |-> row.key, outbox |-> row.outbox]
         /\ [row EXCEPT !.key = v] = [entry |-> row.entry, lines |-> row.lines,
                                      key |-> v, outbox |-> row.outbox]
         /\ [row EXCEPT !.outbox = v] = [entry |-> row.entry, lines |-> row.lines,
                                         key |-> row.key, outbox |-> v]
  BY DEF Rows

\* The answers postEntry can give are Answers, and none of them is None.
LEMMA AnswerTypes ==
  /\ \A e \in Requests, cached \in BOOLEAN : Posted(e, cached) \in Answers
  /\ \A st \in {"bad_request", "conflict", "error"} : Failed(st) \in Answers
  /\ None \notin Answers
  BY PostingAssumption DEF Answers, Posted, Failed

\* A call that has inserted nothing may be said to insert nothing once more.
LEMMA NothingStaged ==
  ASSUME IInv, NEW r \in Requests, pc[r] \notin {"lines", "key", "outbox", "commit"}
  PROVE  staged = [staged EXCEPT ![r] = NoRows]
<1>1. staged[r] = NoRows
  BY DEF IInv, StagedRows
<1>2. staged \in [Requests -> Rows]
  BY DEF IInv, TypeOK
<1> QED
  BY <1>1, <1>2

\* The initial state.
LEMMA InitIInv == Init => IInv
  BY NoRowsType, PostingAssumption, SlotInSlots
     DEF Init, IInv, TypeOK, StagedRows, KeyRowsExclusive, NothingBeforeTheEnd, KeysNameTheirOwn,
         AllOrNothing, AnswersAreTrue, NoRows, InTransaction

\* A call that ends without COMMIT: its staged rows are gone, the tables are
\* untouched, and the answer is true by assumption.
LEMMA FinishIInv ==
  ASSUME IInv, NEW r \in Requests, pc[r] \notin {"done", "lost"},
         NEW a \in Answers, Finish(r, a), UNCHANGED tables,
         a.status = "posted" => /\ a.id \in entries
                                /\ Slot(a.id) = Slot(r)
                                /\ a.cached,
         a.status = "conflict" => keys[Slot(r)] # None
  PROVE  IInv'
<1> USE DEF IInv, Finish, tables
<1>1. TypeOK'
  BY NoRowsType DEF TypeOK
<1>2. StagedRows'
  BY DEF StagedRows, TypeOK, NoRows
<1>3. KeyRowsExclusive'
  BY DEF KeyRowsExclusive, TypeOK, NoRows
<1>4. NothingBeforeTheEnd'
  BY DEF NothingBeforeTheEnd, TypeOK
<1>5. KeysNameTheirOwn' /\ AllOrNothing'
  BY DEF KeysNameTheirOwn, AllOrNothing
<1>6. AnswersAreTrue'
  <2>1. keys[Slot(r)] # r
    BY SlotInSlots, PostingAssumption DEF AllOrNothing, NothingBeforeTheEnd
  <2>2. r \notin entries
    BY DEF NothingBeforeTheEnd
  <2> QED
    BY <2>1, <2>2, AnswerTypes DEF AnswersAreTrue, TypeOK, Answers
<1> QED
  BY <1>1, <1>2, <1>3, <1>4, <1>5, <1>6

\* A call that moves on inside its transaction without inserting a key row:
\* only what its staged rows must be at the next statement is left to show.
LEMMA MoveIInv ==
  ASSUME IInv, NEW r \in Requests, pc[r] \notin {"done", "lost", "commit", "outbox"},
         NEW p \in {"connect", "lookup", "entry", "lines", "key"},
         NEW rows \in Rows,
         pc' = [pc EXCEPT ![r] = p], staged' = [staged EXCEPT ![r] = rows],
         UNCHANGED <<tables, answer>>,
         ~rows.key, ~rows.outbox,
         p \notin {"lines", "key"} => rows = NoRows,
         p \in {"lines", "key"} => rows.entry,
         p = "lines" => /\ Len(rows.lines) <= Len(Req[r].lines)
                        /\ \A i \in 1..Len(rows.lines) : rows.lines[i] = Req[r].lines[i],
         p = "key" => rows.lines = Req[r].lines
  PROVE  IInv'
<1> USE DEF IInv, tables
<1>1. TypeOK'
  BY DEF TypeOK, InTransaction
<1>2. StagedRows'
  BY DEF StagedRows, TypeOK
<1>3. KeyRowsExclusive'
  BY DEF KeyRowsExclusive, TypeOK
<1>4. NothingBeforeTheEnd'
  BY DEF NothingBeforeTheEnd, TypeOK
<1>5. KeysNameTheirOwn' /\ AllOrNothing' /\ AnswersAreTrue'
  BY DEF KeysNameTheirOwn, AllOrNothing, AnswersAreTrue
<1> QED
  BY <1>1, <1>2, <1>3, <1>4, <1>5
-----------------------------------------------------------------------------
\* What COMMIT leaves behind, whether it was heard of or not: the transactions of
\* S are in the tables, and the calls of D, S among them, have ended.
LEMMA CommittedIInv ==
  ASSUME IInv, NEW S \in SUBSET Requests, \A r \in S : pc[r] = "commit", Install(S),
         NEW D \in SUBSET Requests, S \subseteq D,
         \A r \in D : pc[r] \notin {"unsent", "done", "lost"},
         \A r \in Requests \ D : /\ pc'[r] = pc[r]
                                 /\ staged'[r] = staged[r]
                                 /\ answer'[r] = answer[r],
         \A r \in D : /\ pc'[r] \in {"done", "lost"}
                      /\ staged'[r] = NoRows,
         \A r \in D : \/ answer'[r] = None
                      \/ /\ pc'[r] = "done"
                         /\ \/ answer'[r] = Failed("error")
                            \/ answer'[r] = Posted(r, FALSE) /\ r \in S,
         pc' = [r \in Requests |-> pc'[r]],
         staged' = [r \in Requests |-> staged'[r]],
         answer' = [r \in Requests |-> answer'[r]]
  PROVE  IInv'
<1> USE DEF IInv
<1>0. /\ entries' = entries \cup S
      /\ outbox' = outbox \cup S
      /\ lines' \in [Requests -> Seq(Line)]
      /\ \A r \in S : lines'[r] = Req[r].lines
      /\ \A r \in Requests \ S : lines'[r] = lines[r]
      /\ keys' \in [Slots -> Requests \cup {None}]
      /\ \A r \in S : keys'[Slot(r)] = r
      /\ \A s \in Slots : (\A r \in S : Slot(r) # s) => keys'[s] = keys[s]
  BY InstallEffect
<1>1. \A r \in S : staged[r].key /\ keys[Slot(r)] = None /\ r \notin entries
  BY DEF StagedRows, KeyRowsExclusive, NothingBeforeTheEnd
<1>2. \A e \in entries : keys'[Slot(e)] = e
  <2> TAKE e \in entries
  <2>1. keys[Slot(e)] = e /\ e \in Requests
    BY DEF AllOrNothing, TypeOK
  <2>2. \A r \in S : Slot(r) # Slot(e)
    BY <1>1, <2>1, PostingAssumption
  <2> QED
    BY <1>0, <2>1, <2>2, SlotInSlots
<1>3. TypeOK'
  <2>1. pc' \in [Requests -> {"unsent", "connect", "done", "lost"} \cup InTransaction]
    BY DEF TypeOK
  <2>2. staged' \in [Requests -> Rows]
    BY NoRowsType DEF TypeOK
  <2>3. answer' \in [Requests -> Answers \cup {None}]
    <3>1. \A r \in Requests : answer'[r] \in Answers \cup {None}
      <4> TAKE r \in Requests
      <4>1. Failed("error") \in Answers /\ Posted(r, FALSE) \in Answers
        BY AnswerTypes
      <4> QED
        BY <4>1 DEF TypeOK
    <3> QED
      BY <3>1
  <2> QED
    BY <1>0, <2>1, <2>2, <2>3 DEF TypeOK
<1>4. StagedRows'
  BY DEF StagedRows, NoRows
<1>5. KeyRowsExclusive'
  <2> SUFFICES ASSUME NEW r \in Requests, staged'[r].key
               PROVE  /\ keys'[Slot(r)] = None
                      /\ \A q \in Requests : staged'[q].key /\ Slot(q) = Slot(r) => q = r
    BY DEF KeyRowsExclusive
  <2>1. r \notin D /\ staged[r].key
    BY DEF NoRows
  <2>2. \A q \in S : Slot(q) # Slot(r)
    BY <1>1, <2>1 DEF KeyRowsExclusive
  <2>3. keys'[Slot(r)] = None
    BY <1>0, <2>1, <2>2, SlotInSlots DEF KeyRowsExclusive
  <2>4. \A q \in Requests : staged'[q].key => staged[q].key
    BY DEF NoRows
  <2> QED
    BY <2>1, <2>3, <2>4 DEF KeyRowsExclusive
<1>6. NothingBeforeTheEnd'
  BY <1>0, AnswerTypes DEF NothingBeforeTheEnd
<1>7. AllOrNothing'
  <2>1. \A e \in entries' : /\ lines'[e] = Req[e].lines
                            /\ keys'[Slot(e)] = e
                            /\ e \in outbox'
    BY <1>0, <1>1, <1>2 DEF AllOrNothing, TypeOK
  <2>2. outbox' \subseteq entries'
    BY <1>0 DEF AllOrNothing
  <2>3. \A r \in Requests \ entries' : lines'[r] = <<>>
    BY <1>0 DEF AllOrNothing
  <2>4. \A s \in Slots : keys'[s] # None => keys'[s] \in entries'
    BY <1>0 DEF AllOrNothing
  <2> QED
    BY <2>1, <2>2, <2>3, <2>4 DEF AllOrNothing
<1>8. AnswersAreTrue'
  <2> SUFFICES ASSUME NEW r \in Requests, answer'[r] # None
               PROVE  /\ answer'[r].status = "posted" =>
                           /\ answer'[r].id \in entries'
                           /\ Slot(answer'[r].id) = Slot(r)
                           /\ answer'[r].cached <=> answer'[r].id # r
                      /\ answer'[r].status = "conflict" => keys'[Slot(r)] \notin {r, None}
                      /\ answer'[r].status \in {"bad_request", "conflict"} => r \notin entries'
    BY DEF AnswersAreTrue
  <2>1. CASE r \in D
    <3>1. \/ answer'[r] = Failed("error")
          \/ answer'[r] = Posted(r, FALSE) /\ r \in S
      BY <2>1
    <3>2. CASE answer'[r] = Failed("error")
      BY <3>2 DEF Failed
    <3>3. CASE answer'[r] = Posted(r, FALSE) /\ r \in S
      BY <3>3, <1>0 DEF Posted
    <3> QED
      BY <3>1, <3>2, <3>3
  <2>2. CASE r \notin D
    <3>1. answer'[r] = answer[r] /\ pc[r] = "done" /\ r \notin S
      BY <2>2 DEF NothingBeforeTheEnd
    <3>2. answer[r].status = "conflict" => keys'[Slot(r)] = keys[Slot(r)]
      BY <1>0, <1>1, <3>1, SlotInSlots DEF AnswersAreTrue
    <3> QED
      BY <1>0, <3>1, <3>2 DEF AnswersAreTrue
  <2> QED
    BY <2>1, <2>2
<1>9. KeysNameTheirOwn'
  BY <1>0 DEF KeysNameTheirOwn
<1> QED
  BY <1>3, <1>4, <1>5, <1>6, <1>7, <1>8, <1>9
\* The end of one call at its COMMIT.
LEMMA EndIInv ==
  ASSUME IInv, NEW r \in Requests, pc[r] = "commit",
         NEW S \in SUBSET {r}, Install(S), NEW a, Finish(r, a),
         \/ a = Failed("error")
         \/ a = Posted(r, FALSE) /\ S = {r}
  PROVE  IInv'
<1>1. /\ S \in SUBSET Requests /\ {r} \in SUBSET Requests /\ S \subseteq {r}
      /\ \A q \in S : pc[q] = "commit"
      /\ \A q \in {r} : pc[q] \notin {"unsent", "done", "lost"}
  OBVIOUS
<1>2. /\ pc \in [Requests -> {"unsent", "connect", "done", "lost"} \cup InTransaction]
      /\ DOMAIN staged = Requests /\ staged = [q \in Requests |-> staged[q]]
      /\ answer = [q \in Requests |-> answer[q]]
  BY DEF IInv, TypeOK
<1>3. /\ pc' = [pc EXCEPT ![r] = "done"]
      /\ staged' = [staged EXCEPT ![r] = NoRows]
      /\ answer' = [answer EXCEPT ![r] = a]
  BY DEF Finish
<1>4. /\ pc' = [q \in Requests |-> pc'[q]]
      /\ staged' = [q \in Requests |-> staged'[q]]
      /\ answer' = [q \in Requests |-> answer'[q]]
  BY <1>2, <1>3
<1>5. \A q \in Requests \ {r} : /\ pc'[q] = pc[q]
                                /\ staged'[q] = staged[q]
                                /\ answer'[q] = answer[q]
  BY <1>2, <1>3
<1>6. pc'[r] = "done" /\ staged'[r] = NoRows /\ answer'[r] = a
  BY <1>2, <1>3
<1>7. \A q \in {r} : \/ answer'[q] = None
                     \/ /\ pc'[q] = "done"
                        /\ \/ answer'[q] = Failed("error")
                           \/ answer'[q] = Posted(q, FALSE) /\ q \in S
  BY <1>6
<1> QED
  BY <1>1, <1>4, <1>5, <1>6, <1>7, CommittedIInv

-----------------------------------------------------------------------------
\* Every step keeps the inductive invariant.
LEMMA NextIInv == IInv /\ [Next]_vars => IInv'
<1> SUFFICES ASSUME IInv, [Next]_vars PROVE IInv'
  OBVIOUS
<1>1. ASSUME NEW r \in Requests, Arrive(r) PROVE IInv'
  <2>1. CASE Balanced(Req[r].lines)
    <3>1. staged' = [staged EXCEPT ![r] = NoRows]
      BY <1>1, <2>1, NothingStaged DEF Arrive
    <3> QED
      BY <1>1, <2>1, <3>1, MoveIInv, NoRowsType DEF Arrive, NoRows
  <2>2. CASE ~Balanced(Req[r].lines)
    BY <1>1, <2>2, FinishIInv, AnswerTypes DEF Arrive, Failed
  <2> QED
    BY <2>1, <2>2
<1>2. ASSUME NEW r \in Requests, Connect(r) PROVE IInv'
  <2>1. staged' = [staged EXCEPT ![r] = NoRows]
    BY <1>2, NothingStaged DEF Connect, tables
  <2> QED
    BY <1>2, <2>1, MoveIInv, NoRowsType DEF Connect, NoRows, tables
<1>3. ASSUME NEW r \in Requests, NEW status \in {"error", "conflict"},
             pc[r] \in InTransaction \cup {"connect"}, Abort(r, status),
             status = "conflict" => keys[Slot(r)] # None
      PROVE  IInv'
  BY <1>3, FinishIInv, AnswerTypes DEF Abort, Failed, InTransaction
<1>4. ASSUME NEW r \in Requests, Lookup(r) PROVE IInv'
  <2>1. CASE keys[Slot(r)] # None
    <3>1. keys[Slot(r)] \in entries /\ Slot(keys[Slot(r)]) = Slot(r)
      BY <2>1, SlotInSlots DEF IInv, KeysNameTheirOwn, AllOrNothing, TypeOK
    <3>2. Posted(keys[Slot(r)], TRUE) \in Answers
      BY <3>1, AnswerTypes DEF IInv, TypeOK
    <3> QED
      BY <1>4, <2>1, <3>1, <3>2, FinishIInv DEF Lookup, Posted
  <2>2. CASE keys[Slot(r)] = None
    <3>1. staged' = [staged EXCEPT ![r] = NoRows]
      BY <1>4, <2>2, NothingStaged DEF Lookup
    <3> QED
      BY <1>4, <2>2, <3>1, MoveIInv, NoRowsType DEF Lookup, NoRows, tables
  <2> QED
    BY <2>1, <2>2
<1>5. ASSUME NEW r \in Requests, InsertEntry(r) PROVE IInv'
  <2>1. staged[r] = NoRows
    BY <1>5 DEF InsertEntry, IInv, StagedRows
  <2> DEFINE rows == [entry |-> TRUE, lines |-> <<>>, key |-> FALSE, outbox |-> FALSE]
  <2>2. staged' = [staged EXCEPT ![r] = rows]
    <3>1. [NoRows EXCEPT !.entry = TRUE] =
            [entry |-> TRUE, lines |-> NoRows.lines,
             key |-> NoRows.key, outbox |-> NoRows.outbox]
      BY NoRowsType, InsertEffect
    <3> QED
      BY <1>5, <2>1, <3>1 DEF InsertEntry, NoRows
  <2>3. /\ rows \in Rows
        /\ rows.entry /\ ~rows.key /\ ~rows.outbox
        /\ Len(rows.lines) = 0
        /\ \A i \in 1..Len(rows.lines) : rows.lines[i] = Req[r].lines[i]
    BY DEF Rows
  <2>4. Len(rows.lines) <= Len(Req[r].lines)
    BY <2>3, PostingAssumption
  <2> HIDE DEF rows
  <2> QED
    BY <1>5, <2>2, <2>3, <2>4, MoveIInv DEF InsertEntry, tables
<1>6. ASSUME NEW r \in Requests, InsertLine(r) PROVE IInv'
  <2> DEFINE rows == staged[r]
             n == Len(rows.lines) + 1
             l == Req[r].lines[n]
  <2>1. /\ pc[r] = "lines"
        /\ rows \in Rows
        /\ Req[r].lines \in Seq(Line)
        /\ rows.entry /\ ~rows.key /\ ~rows.outbox
        /\ Len(rows.lines) <= Len(Req[r].lines)
        /\ \A i \in 1..Len(rows.lines) : rows.lines[i] = Req[r].lines[i]
    BY <1>6, PostingAssumption DEF InsertLine, IInv, TypeOK, StagedRows
  <2>2. CASE n > Len(Req[r].lines)
    <3>1. rows.lines = Req[r].lines
      <4>1. Len(rows.lines) = Len(Req[r].lines)
        BY <2>1, <2>2
      <4> QED
        BY <2>1, <4>1, SeqEqual DEF Rows
    <3>2. staged' = [staged EXCEPT ![r] = rows]
      BY <1>6, <2>2 DEF InsertLine, IInv, TypeOK
    <3> QED
      BY <1>6, <2>1, <2>2, <3>1, <3>2, MoveIInv DEF InsertLine
  <2>3. CASE /\ n <= Len(Req[r].lines)
             /\ <<Req[r].tenant, l.account>> \in Accounts /\ Storable(l.amount)
    <3> DEFINE more == [entry |-> TRUE, lines |-> Append(rows.lines, l),
                         key |-> FALSE, outbox |-> FALSE]
    <3>1. l \in Line /\ Append(rows.lines, l) \in Seq(Line)
      BY <2>1, <2>3 DEF Rows
    <3>2. /\ more \in Rows
          /\ more.entry /\ ~more.key /\ ~more.outbox
          /\ more.lines = Append(rows.lines, l)
      BY <2>1, <3>1 DEF Rows
    <3>3. /\ Len(more.lines) = n
          /\ \A i \in 1..n : more.lines[i] = Req[r].lines[i]
      BY <2>1, <3>1, <3>2
    <3>4. /\ staged' = [staged EXCEPT ![r] = more]
          /\ pc' = [pc EXCEPT ![r] = "lines"]
          /\ UNCHANGED <<tables, answer>>
      <4>1. [rows EXCEPT !.lines = Append(@, l)] =
              [entry |-> rows.entry, lines |-> Append(rows.lines, l),
               key |-> rows.key, outbox |-> rows.outbox]
        BY <2>1, InsertEffect
      <4>3. rows.entry = TRUE /\ rows.key = FALSE /\ rows.outbox = FALSE
        BY <2>1 DEF Rows
      <4>2. /\ staged' = [staged EXCEPT ![r] = [rows EXCEPT !.lines = Append(@, l)]]
            /\ UNCHANGED <<pc, tables, answer>>
        BY <1>6, <2>1, <2>3 DEF InsertLine, Rows
      <4> QED
        BY <2>1, <4>1, <4>2, <4>3 DEF IInv, TypeOK
    <3> HIDE DEF more
    <3> QED
      BY <2>1, <2>3, <3>2, <3>3, <3>4, MoveIInv
  <2>4. CASE /\ n <= Len(Req[r].lines)
             /\ ~(<<Req[r].tenant, l.account>> \in Accounts /\ Storable(l.amount))
    BY <1>6, <2>1, <2>4, <1>3 DEF InsertLine, InTransaction
  <2> QED
    BY <2>1, <2>2, <2>3, <2>4
<1>7. ASSUME NEW r \in Requests, InsertKey(r) PROVE IInv'
  <2>1. CASE keys[Slot(r)] # None
    BY <1>7, <2>1, <1>3 DEF InsertKey, InTransaction
  <2>2. CASE keys[Slot(r)] = None
    <3>1. /\ pc[r] = "key" /\ KeyHolders(r) = {}
          /\ staged' = [staged EXCEPT ![r].key = TRUE]
          /\ pc' = [pc EXCEPT ![r] = "outbox"]
          /\ UNCHANGED <<tables, answer>>
      BY <1>7, <2>2 DEF InsertKey
    <3>2. TypeOK' /\ StagedRows'
      <4> DEFINE row == staged[r]
                 more == [entry |-> row.entry, lines |-> row.lines,
                          key |-> TRUE, outbox |-> row.outbox]
      <4>1. row \in Rows /\ more \in Rows
        BY DEF IInv, TypeOK, Rows
      <4>2. staged' = [staged EXCEPT ![r] = more]
        <5>1. [row EXCEPT !.key = TRUE] = more
          BY <4>1, InsertEffect
        <5> QED
          BY <3>1, <5>1
      <4>3. TypeOK'
        BY <3>1, <4>1, <4>2 DEF IInv, TypeOK, InTransaction, tables
      <4>4. StagedRows'
        <5>1. ASSUME NEW q \in Requests, q # r
              PROVE  pc'[q] = pc[q] /\ staged'[q] = staged[q]
          BY <3>1, <4>2, <5>1 DEF IInv, TypeOK
        <5>2. /\ pc'[r] = "outbox"
              /\ staged'[r] = more
          BY <3>1, <4>2 DEF IInv, TypeOK
        <5>3. /\ staged'[r].entry
              /\ staged'[r].key
              /\ ~staged'[r].outbox
              /\ staged'[r].lines = Req[r].lines
          BY <3>1, <5>2 DEF IInv, StagedRows
        <5> QED
          BY <5>1, <5>2, <5>3 DEF IInv, StagedRows
      <4> QED
        BY <4>3, <4>4
    <3>3. KeyRowsExclusive'
      <4>1. \A q \in Requests : staged'[q].key <=> staged[q].key \/ q = r
        BY <3>1 DEF IInv, TypeOK
      <4>2. \A q \in Requests : staged[q].key /\ Slot(q) = Slot(r) => q = r
        BY <3>1 DEF KeyHolders
      <4> QED
        BY <2>2, <3>1, <4>1, <4>2 DEF IInv, KeyRowsExclusive, tables
    <3>4. /\ NothingBeforeTheEnd' /\ KeysNameTheirOwn'
          /\ AllOrNothing' /\ AnswersAreTrue'
      BY <3>1 DEF IInv, TypeOK, NothingBeforeTheEnd, KeysNameTheirOwn, AllOrNothing,
                  AnswersAreTrue, tables
    <3> QED
      BY <3>2, <3>3, <3>4 DEF IInv
  <2> QED
    BY <2>1, <2>2
<1>8. ASSUME NEW r \in Requests, InsertOutbox(r) PROVE IInv'
  <2>1. TypeOK' /\ StagedRows'
    <3> DEFINE row == staged[r]
               more == [entry |-> row.entry, lines |-> row.lines,
                        key |-> row.key, outbox |-> TRUE]
    <3>1. row \in Rows /\ more \in Rows
      BY DEF IInv, TypeOK, Rows
    <3>2. staged' = [staged EXCEPT ![r] = more]
      <4>1. [row EXCEPT !.outbox = TRUE] = more
        BY <3>1, InsertEffect
      <4> QED
        BY <1>8, <4>1 DEF InsertOutbox
    <3>3. TypeOK'
      BY <1>8, <3>1, <3>2 DEF InsertOutbox, IInv, TypeOK, InTransaction, tables
    <3>4. StagedRows'
      <4>1. ASSUME NEW q \in Requests, q # r
            PROVE  pc'[q] = pc[q] /\ staged'[q] = staged[q]
        BY <1>8, <3>2, <4>1 DEF InsertOutbox, IInv, TypeOK
      <4>2. /\ pc'[r] = "commit"
            /\ staged'[r] = more
        BY <1>8, <3>2 DEF InsertOutbox, IInv, TypeOK
      <4>3. /\ staged'[r].entry
            /\ staged'[r].key
            /\ staged'[r].outbox
            /\ staged'[r].lines = Req[r].lines
        BY <1>8, <4>2 DEF InsertOutbox, IInv, StagedRows
      <4> QED
        BY <4>1, <4>2, <4>3 DEF IInv, StagedRows
    <3> QED
      BY <3>3, <3>4
  <2>2. KeyRowsExclusive'
    BY <1>8 DEF InsertOutbox, IInv, TypeOK, KeyRowsExclusive, tables
  <2>3. /\ NothingBeforeTheEnd' /\ KeysNameTheirOwn'
        /\ AllOrNothing' /\ AnswersAreTrue'
    BY <1>8 DEF InsertOutbox, IInv, TypeOK, NothingBeforeTheEnd, KeysNameTheirOwn,
                AllOrNothing, AnswersAreTrue, tables
  <2> QED
    BY <2>1, <2>2, <2>3 DEF IInv
<1>9. ASSUME NEW r \in Requests, Commit(r) PROVE IInv'
  <2>1. /\ pc[r] = "commit"
        /\ Install({r})
        /\ Finish(r, Posted(r, FALSE))
    BY <1>9 DEF Commit
  <2> QED
    BY <2>1, EndIInv
<1>10. ASSUME NEW r \in Requests, CommitFails(r) PROVE IInv'
  <2>1. PICK S \in SUBSET {r} : Install(S)
    BY <1>10 DEF CommitFails
  <2>2. pc[r] = "commit" /\ Finish(r, Failed("error"))
    BY <1>10 DEF CommitFails
  <2> QED
    BY <2>1, <2>2, EndIInv
<1>11. ASSUME Crash PROVE IInv'
  <2> DEFINE D == {r \in Requests : pc[r] \in InTransaction \cup {"connect"}}
  <2>1. PICK S \in SUBSET {r \in Requests : pc[r] = "commit"} : Install(S)
    BY <1>11 DEF Crash
  <2>2. /\ pc' = [r \in Requests |-> IF r \in D THEN "lost" ELSE pc[r]]
        /\ staged' = [r \in Requests |-> NoRows]
        /\ answer' = answer
    BY <1>11 DEF Crash
  <2>3. \A r \in Requests \ D : staged[r] = NoRows /\ pc[r] # "commit"
    BY DEF IInv, StagedRows, InTransaction
  <2>4. \A r \in D : answer[r] = None /\ pc[r] \notin {"unsent", "done", "lost"}
    BY DEF IInv, NothingBeforeTheEnd, InTransaction
  <2>5. /\ S \in SUBSET Requests /\ D \in SUBSET Requests /\ S \subseteq D
        /\ \A r \in S : pc[r] = "commit"
    BY <2>1, <2>3
  <2>6. /\ pc' = [r \in Requests |-> pc'[r]]
        /\ staged' = [r \in Requests |-> staged'[r]]
        /\ answer' = [r \in Requests |-> answer'[r]]
    BY <2>2 DEF IInv, TypeOK
  <2>7. \A r \in Requests \ D : /\ pc'[r] = pc[r]
                                /\ staged'[r] = staged[r]
                                /\ answer'[r] = answer[r]
    BY <2>2, <2>3
  <2>8. \A r \in D : pc'[r] = "lost" /\ staged'[r] = NoRows /\ answer'[r] = None
    BY <2>2, <2>4
  <2> HIDE DEF D
  <2> QED
    <3>1. \A r \in D : pc'[r] \in {"done", "lost"} /\ staged'[r] = NoRows
      BY <2>8
    <3>2. \A r \in D : \/ answer'[r] = None
                       \/ /\ pc'[r] = "done"
                          /\ \/ answer'[r] = Failed("error")
                             \/ answer'[r] = Posted(r, FALSE) /\ r \in S
      BY <2>8
    <3> QED
      BY <2>1, <2>4, <2>5, <2>6, <2>7, <3>1, <3>2, CommittedIInv
<1>12. CASE UNCHANGED vars
  BY <1>12 DEF vars, tables, IInv, TypeOK, StagedRows, KeyRowsExclusive,
               NothingBeforeTheEnd, KeysNameTheirOwn, AllOrNothing, AnswersAreTrue
<1> QED
  BY <1>1, <1>2, <1>3, <1>4, <1>5, <1>6, <1>7, <1>8, <1>9, <1>10, <1>11, <1>12
     DEF Next, Step, ConnectFails, StatementFails
-----------------------------------------------------------------------------
\* The inductive invariant holds throughout.
THEOREM Invariance == Spec => []IInv
<1>1. Init => IInv
  BY InitIInv
<1>2. IInv /\ [Next]_vars => IInv'
  BY NextIInv
<1> QED
  BY <1>1, <1>2, PTL DEF Spec

\* Tables, open transactions and answers are well typed (ledger.service.ts 28-100).
THEOREM PostingTypeCorrect == Spec => []TypeOK
<1>1. IInv => TypeOK
  BY DEF IInv
<1> QED
  BY <1>1, Invariance, PTL

\* A failure at any statement, a lost COMMIT or a crash leaves all of a call's rows
\* or none of them (ledger.service.ts 33-91).
THEOREM PostingAllOrNothing == Spec => []AllOrNothing
<1>1. IInv => AllOrNothing
  BY DEF IInv
<1> QED
  BY <1>1, Invariance, PTL

\* A tenant's key yields at most one entry, for any number of overlapping calls and
\* retries (ledger.service.ts 36-47 and 74-78).
THEOREM PostingIdempotent == Spec => []OneEntryPerKey
<1>1. IInv => OneEntryPerKey
  BY DEF IInv, AllOrNothing, OneEntryPerKey
<1> QED
  BY <1>1, Invariance, PTL

\* What callers are told is true of the ledger (ledger.service.ts 46, 87 and 93).
THEOREM PostingAnswersTrue == Spec => []AnswersAreTrue
<1>1. IInv => AnswersAreTrue
  BY DEF IInv
<1> QED
  BY <1>1, Invariance, PTL
-----------------------------------------------------------------------------
(* The books balance.                                                      *)

\* What COMMIT lets through, and that it is finitely much: the pool bounds the open
\* transactions.
CommittedBalance ==
  /\ \A e \in entries : Balanced(lines[e])
  /\ IsFiniteSet(entries)
  /\ IsFiniteSet(Open)

\* Any step but a crash moves one call, and commits at most its balanced lines.
LEMMA OneCallMoves ==
  ASSUME IInv, NEW r \in Requests, Arrive(r) \/ Step(r) \/ StatementFails(r)
  PROVE  /\ \A q \in Requests : q # r => pc'[q] = pc[q]
         /\ \/ UNCHANGED <<entries, lines>>
            \/ \E S \in SUBSET {r} : /\ \A q \in S : pc[q] = "commit"
                                     /\ \A q \in S : Balanced(staged[q].lines)
                                     /\ Install(S)
<1>1. pc \in [Requests -> {"unsent", "connect", "done", "lost"} \cup InTransaction]
  BY DEF IInv, TypeOK
<1>2. CASE Arrive(r)
  BY <1>1, <1>2 DEF Arrive, Finish, tables
<1>3. CASE Connect(r) \/ ConnectFails(r) \/ StatementFails(r) \/ InsertEntry(r) \/ InsertOutbox(r)
  BY <1>1, <1>3
     DEF Connect, ConnectFails, StatementFails, InsertEntry, InsertOutbox, Abort, Finish, tables
<1>4. CASE Lookup(r) \/ InsertKey(r)
  BY <1>1, <1>4 DEF Lookup, InsertKey, Abort, Finish, tables
<1>5. CASE InsertLine(r)
  BY <1>1, <1>5 DEF InsertLine, Abort, Finish, tables
<1>6. CASE Commit(r)
  BY <1>1, <1>6 DEF Commit, Finish, EnforceBalancedEntry
<1>7. CASE CommitFails(r)
  BY <1>1, <1>7 DEF CommitFails, Finish, EnforceBalancedEntry
<1> QED
  BY <1>2, <1>3, <1>4, <1>5, <1>6, <1>7 DEF Step

\* What COMMIT of balanced entries does to the committed ones.
LEMMA InstallBalances ==
  ASSUME IInv, CommittedBalance, NEW S \in SUBSET Requests, IsFiniteSet(S), Install(S),
         \A r \in S : pc[r] = "commit", \A r \in S : Balanced(staged[r].lines)
  PROVE  (\A e \in entries' : Balanced(lines'[e])) /\ IsFiniteSet(entries')
<1>1. /\ entries' = entries \cup S
      /\ \A r \in S : lines'[r] = staged[r].lines
      /\ \A r \in Requests \ S : lines'[r] = lines[r]
  <2>1. entries' = entries \cup S
    BY InstallEffect DEF IInv
  <2> QED
    BY <2>1 DEF Install
<1>2. entries \subseteq Requests
  BY DEF IInv, TypeOK
<1>3. IsFiniteSet(entries')
  BY <1>1, FS_Union DEF CommittedBalance
<1> QED
  BY <1>1, <1>2, <1>3 DEF CommittedBalance

LEMMA CommittedBalanceKept ==
  IInv /\ CommittedBalance /\ [Next]_vars => CommittedBalance'
<1> SUFFICES ASSUME IInv, CommittedBalance, [Next]_vars
             PROVE  CommittedBalance'
  OBVIOUS
<1>1. ASSUME NEW r \in Requests, Arrive(r) \/ Step(r) \/ StatementFails(r)
      PROVE  CommittedBalance'
  <2>1. IsFiniteSet(Open')
    <3>1. Open' \subseteq Open \cup {r}
      BY <1>1, OneCallMoves DEF Open
    <3>2. IsFiniteSet(Open \cup {r})
      BY FS_AddElement DEF CommittedBalance
    <3> QED
      BY <3>1, <3>2, FS_Subset
  <2>2. CASE UNCHANGED <<entries, lines>>
    BY <2>1, <2>2 DEF CommittedBalance, Balanced, Total
  <2>3. ASSUME NEW S \in SUBSET {r}, Install(S), \A q \in S : pc[q] = "commit",
               \A q \in S : Balanced(staged[q].lines)
        PROVE  CommittedBalance'
    <3>1. IsFiniteSet(S)
      BY FS_Singleton, FS_Subset
    <3>2. (\A e \in entries' : Balanced(lines'[e])) /\ IsFiniteSet(entries')
      BY <2>3, <3>1, InstallBalances
    <3> QED
      BY <2>1, <3>2 DEF CommittedBalance, Balanced, Total
  <2> QED
    BY <1>1, <2>2, <2>3, OneCallMoves
<1>2. CASE Crash
  <2>1. PICK S \in SUBSET {r \in Requests : pc[r] = "commit" /\ EnforceBalancedEntry(r)} :
          Install(S)
    BY <1>2 DEF Crash
  <2>2. IsFiniteSet(S)
    <3>1. S \subseteq Open
      BY DEF Open, InTransaction
    <3> QED
      BY <3>1, FS_Subset DEF CommittedBalance
  <2>3. (\A e \in entries' : Balanced(lines'[e])) /\ IsFiniteSet(entries')
    BY <2>1, <2>2, InstallBalances DEF EnforceBalancedEntry
  <2>4. Open' = {}
    BY <1>2 DEF Open, Crash, InTransaction
  <2> QED
    BY <2>3, <2>4, FS_EmptySet DEF CommittedBalance, Balanced, Total
<1>3. CASE UNCHANGED vars
  BY <1>3 DEF vars, tables, CommittedBalance, Open, Balanced, Total
<1> QED
  BY <1>1, <1>2, <1>3 DEF Next

\* The lines of an entry are lines.
LEMMA LinesType ==
  ASSUME NEW ls \in Seq(Line), NEW i \in DOMAIN ls
  PROVE  ls[i].amount \in Nat /\ ls[i].direction \in {"debit", "credit"}
<1>1. ls[i] \in Line
  BY ElementOfSeq, LenProperties
<1> QED
  BY <1>1 DEF Line

\* The signed amounts of the lines of a balanced entry add up to zero.
LEMMA SignedSum ==
  ASSUME NEW ls \in Seq(Line), Balanced(ls), NEW f,
         \A i \in DOMAIN ls : f[i] = IF ls[i].direction = "debit" THEN ls[i].amount
                                                                  ELSE 0 - ls[i].amount
  PROVE  IsFiniteSet(DOMAIN ls) /\ SumFunctionOnSet(f, DOMAIN ls) = 0
<1> DEFINE D == DOMAIN ls
           debit == [i \in D |-> IF ls[i].direction = "debit" THEN ls[i].amount ELSE 0]
           credit == [i \in D |-> IF ls[i].direction = "credit" THEN ls[i].amount ELSE 0]
<1>1. IsFiniteSet(D)
  BY LenProperties, FS_Interval
<1>2. \A i \in D : ls[i].amount \in Nat /\ ls[i].direction \in {"debit", "credit"}
  BY LinesType
<1>3. \A i \in D : /\ debit[i] \in Int /\ f[i] \in Int /\ credit[i] \in Int
                   /\ debit[i] = f[i] + credit[i]
  BY <1>2
<1>4. SumFunctionOnSet(debit, D) = SumFunctionOnSet(f, D) + SumFunctionOnSet(credit, D)
  <2> HIDE DEF debit, credit, D
  <2> QED
    BY <1>1, <1>3, SumPlus
<1>5. SumFunctionOnSet(debit, D) = SumFunctionOnSet(credit, D)
  <2>1. Total(ls, "debit") = SumFunctionOnSet(debit, D)
    BY DEF Total, SumFunction
  <2>2. Total(ls, "credit") = SumFunctionOnSet(credit, D)
    BY DEF Total, SumFunction
  <2> QED
    BY <2>1, <2>2 DEF Balanced
<1>6. SumFunctionOnSet(f, D) \in Int /\ SumFunctionOnSet(credit, D) \in Int
  <2> HIDE DEF debit, credit, D
  <2> QED
    BY <1>1, <1>3, SumInt
<1> QED
  BY <1>1, <1>4, <1>5, <1>6

\* Entries that balance add up to balanced books.
LEMMA BalancedBooks == IInv /\ CommittedBalance => BooksBalance
<1> DEFINE Signed(l) == IF l.direction = "debit" THEN l.amount ELSE 0 - l.amount
           Its(e) == {<<e, i>> : i \in DOMAIN lines[e]}
<1> SUFFICES ASSUME IInv, CommittedBalance, NEW t
             PROVE  LET E == {d \in entries : Req[d].tenant = t}
                        L == UNION {Its(e) : e \in E}
                    IN  SumFunction([row \in L |-> Signed(lines[row[1]][row[2]])]) = 0
  BY DEF BooksBalance
<1> DEFINE E == {d \in entries : Req[d].tenant = t}
           L == UNION {Its(e) : e \in E}
           f == [row \in L |-> Signed(lines[row[1]][row[2]])]
           part == [e \in E |-> Its(e)]
           total == [e \in E |-> 0]
<1>1. IsFiniteSet(E)
  BY FS_Subset DEF CommittedBalance
<1>2. \A e \in E : lines[e] \in Seq(Line) /\ Balanced(lines[e])
  BY DEF IInv, TypeOK, CommittedBalance
<1>3. ASSUME NEW e \in E
      PROVE  IsFiniteSet(part[e]) /\ SumFunctionOnSet(f, part[e]) = 0
  <2> DEFINE D == DOMAIN lines[e]
             g == [i \in D |-> Signed(lines[e][i])]
             p == [i \in D |-> <<e, i>>]
  <2>1. IsFiniteSet(D) /\ SumFunctionOnSet(g, D) = 0
    BY <1>2, SignedSum
  <2>2. \A i \in D : g[i] \in Int /\ f[p[i]] = g[i]
    <3>1. \A i \in D : lines[e][i].amount \in Nat
      BY <1>2, LinesType
    <3> QED
      BY <3>1
  <2>3. \A i, j \in D : p[i] = p[j] => i = j
    OBVIOUS
  <2>4. part[e] = {p[i] : i \in D}
    OBVIOUS
  <2> HIDE DEF D, g, p, f
  <2>5. IsFiniteSet({p[i] : i \in D}) /\ SumFunctionOnSet(f, {p[i] : i \in D}) = 0
    BY <2>1, <2>2, <2>3, SumRenamed
  <2> QED
    BY <2>4, <2>5
<1>4. \A e \in E : IsFiniteSet(part[e]) /\ total[e] = SumFunctionOnSet(f, part[e])
  BY <1>3
<1>5. \A d, e \in E : d # e => part[d] \cap part[e] = {}
  OBVIOUS
<1>6. \A row \in L : f[row] \in Int
  <2> SUFFICES ASSUME NEW e \in E, NEW i \in DOMAIN lines[e]
               PROVE  Signed(lines[e][i]) \in Int
    OBVIOUS
  <2>1. lines[e][i].amount \in Nat
    BY <1>2, LinesType
  <2> QED
    BY <2>1
<1>7. \A row : row \in L <=> \E e \in E : row \in part[e]
  OBVIOUS
<1>8. SumFunctionOnSet(total, E) = 0
  <2>1. \A e \in E : total[e] = 0
    OBVIOUS
  <2> HIDE DEF total, E
  <2> QED
    BY <1>1, <2>1, SumZero
<1>9. SumFunctionOnSet(f, L) = SumFunctionOnSet(total, E)
  <2> HIDE DEF f, part, total, E, L
  <2>1. Parts(f, L, E, part, total)
    BY <1>1, <1>4, <1>5, <1>6, <1>7 DEF Parts
  <2> QED
    BY <2>1, SumOfParts
<1>10. SumFunction(f) = SumFunctionOnSet(f, L)
  BY DEF SumFunction
<1> QED
  BY <1>8, <1>9, <1>10

\* The journal of every tenant adds up to zero: what validateBalance and the deferred
\* trigger are for (ledger.service.ts 213-223 and the trigger trg_balanced_entry).
THEOREM PostingBooksBalance == Spec => []BooksBalance
<1>1. Init => CommittedBalance
  <2>1. Init => entries = {} /\ Open = {}
    BY DEF Init, Open, InTransaction
  <2> QED
    BY <2>1, FS_EmptySet DEF CommittedBalance
<1> QED
  BY <1>1, CommittedBalanceKept, BalancedBooks, Invariance, PTL DEF Spec
-----------------------------------------------------------------------------
(* Refinement.                                                             *)

\* The abstract slots are the slots.
LEMMA SameSlots == /\ Ledger!Slots = Slots
                   /\ \A r \in Requests : SlotFunction[r] = Slot(r)
  BY DEF Ledger!Slots, Slots, SlotFunction

\* A call that ends without COMMIT replays its slot's entry or is refused.
LEMMA FinishRefines ==
  ASSUME IInv, NEW r \in Requests, pc[r] \notin {"done", "lost"},
         NEW a \in Answers, Finish(r, a), UNCHANGED tables,
         a.status = "posted" => keys[Slot(r)] # None /\ a.id = keys[Slot(r)]
  PROVE  Ledger!Next
<1>1. a # None /\ answer[r] = None /\ DOMAIN answer = Requests
  BY AnswerTypes DEF IInv, NothingBeforeTheEnd, TypeOK
<1>2. told[r] = None
  BY <1>1 DEF told, Told
<1>3. keys' = keys
  BY DEF tables
<1>4. told' = [told EXCEPT ![r] = Told(a)]
  <2>1. answer' = [answer EXCEPT ![r] = a]
    BY DEF Finish
  <2>2. answer'[r] = a /\ \A q \in Requests : q # r => answer'[q] = answer[q]
    BY <1>1, <2>1
  <2> QED
    BY <2>2 DEF told
<1>5. CASE a.status = "posted"
  <2>1. Ledger!Replay(r)
    BY <1>1, <1>2, <1>3, <1>4, <1>5, SameSlots DEF Ledger!Replay, Told
  <2> QED
    BY <2>1 DEF Ledger!Next
<1>6. CASE a.status # "posted"
  <2>1. Ledger!Refuse(r)
    BY <1>1, <1>2, <1>3, <1>4, <1>6 DEF Ledger!Refuse, Told
  <2> QED
    BY <2>1 DEF Ledger!Next
<1> QED
  BY <1>5, <1>6

\* A call that ends at COMMIT binds its slot, or is refused.
LEMMA EndRefines ==
  ASSUME IInv, NEW r \in Requests, pc[r] = "commit",
         NEW S \in SUBSET {r}, Install(S), NEW a, Finish(r, a),
         \/ a = Failed("error")
         \/ a = Posted(r, FALSE) /\ S = {r}
  PROVE  Ledger!Next
<1>1. answer[r] = None /\ DOMAIN answer = Requests
  BY DEF IInv, NothingBeforeTheEnd, TypeOK
<1>2. told[r] = None
  BY <1>1 DEF told, Told
<1>3. told' = [told EXCEPT ![r] = Told(a)]
  <2>1. answer' = [answer EXCEPT ![r] = a]
    BY DEF Finish
  <2>2. answer'[r] = a /\ \A q \in Requests : q # r => answer'[q] = answer[q]
    BY <1>1, <2>1
  <2> QED
    BY <2>2 DEF told
<1>4. /\ keys \in [Slots -> Requests \cup {None}]
      /\ keys' \in [Slots -> Requests \cup {None}]
      /\ r \in S => keys'[Slot(r)] = r
      /\ \A s \in Slots : (\A q \in S : Slot(q) # s) => keys'[s] = keys[s]
  BY InstallEffect DEF IInv, TypeOK
<1>5. keys[Slot(r)] = None
  BY DEF IInv, StagedRows, KeyRowsExclusive
<1>6. Told(a) = r \/ Told(a) = "refused"
  <2>1. Failed("error") # None /\ Posted(r, FALSE) # None
    BY AnswerTypes
  <2>2. CASE a = Failed("error")
    BY <2>1, <2>2 DEF Failed, Told
  <2>3. CASE a = Posted(r, FALSE)
    BY <2>1, <2>3 DEF Posted, Told
  <2> QED
    BY <2>2, <2>3
<1>7. CASE S = {r}
  <2>1. keys' = [keys EXCEPT ![Slot(r)] = r]
    <3>1. \A s \in Slots : s # Slot(r) => keys'[s] = keys[s]
      BY <1>4, <1>7
    <3>2. keys'[Slot(r)] = r
      BY <1>4, <1>7
    <3> QED
      BY <1>4, <3>1, <3>2
  <2>2. Ledger!Bind(r)
    BY <1>2, <1>3, <1>5, <1>6, <2>1, SameSlots DEF Ledger!Bind
  <2> QED
    BY <2>2 DEF Ledger!Next
<1>8. CASE S = {}
  <2>1. keys' = keys
    BY <1>4, <1>8
  <2>2. Told(a) = "refused"
    <3>1. a = Failed("error") /\ Failed("error") \in Answers
      BY <1>8, AnswerTypes
    <3>2. a # None /\ a.status = "error"
      BY <3>1, AnswerTypes DEF Failed
    <3> QED
      BY <3>2 DEF Told
  <2>3. Ledger!Refuse(r)
    BY <1>2, <1>3, <2>1, <2>2 DEF Ledger!Refuse
  <2> QED
    BY <2>3 DEF Ledger!Next
<1> QED
  BY <1>7, <1>8

\* A crash of the API is a crash of the abstract ledger.
LEMMA CrashRefines == IInv /\ Crash => Ledger!Next
<1> SUFFICES ASSUME IInv, Crash PROVE Ledger!Crash
  BY DEF Ledger!Next
<1>1. PICK S \in SUBSET {r \in Requests : pc[r] = "commit"} : Install(S)
  BY DEF Crash
<1>2. \A r \in S : /\ staged[r].key
                   /\ keys[Slot(r)] = None
                   /\ answer[r] = None
  BY <1>1 DEF IInv, StagedRows, KeyRowsExclusive, NothingBeforeTheEnd
<1>3. S \in SUBSET {r \in Requests : told[r] = None /\ keys[SlotFunction[r]] = None}
  BY <1>1, <1>2, SameSlots DEF told, Told
<1>4. \A r, s \in S : SlotFunction[r] = SlotFunction[s] => r = s
  BY <1>1, <1>2, SameSlots DEF IInv, KeyRowsExclusive
<1>5. /\ keys' \in [Slots -> Requests \cup {None}]
      /\ \A r \in S : keys'[Slot(r)] = r
      /\ \A s \in Slots : (\A r \in S : Slot(r) # s) => keys'[s] = keys[s]
  BY <1>1, InstallEffect DEF IInv
<1>6. keys' = [t \in Slots |-> IF \E r \in S : SlotFunction[r] = t
                                 THEN CHOOSE r \in S : SlotFunction[r] = t
                                 ELSE keys[t]]
  <2>1. ASSUME NEW t \in Slots
        PROVE  keys'[t] = IF \E r \in S : SlotFunction[r] = t
                            THEN CHOOSE r \in S : SlotFunction[r] = t
                            ELSE keys[t]
    <3>1. CASE \E r \in S : SlotFunction[r] = t
      <4>1. PICK r \in S : SlotFunction[r] = t
        BY <3>1
      <4>2. (CHOOSE q \in S : SlotFunction[q] = t) = r
        BY <1>4, <4>1
      <4> QED
        BY <1>1, <1>5, <4>1, <4>2, SameSlots
    <3>2. CASE ~ \E r \in S : SlotFunction[r] = t
      BY <1>1, <1>5, <3>2, SameSlots
    <3> QED
      BY <3>1, <3>2
  <2> QED
    BY <1>5, <2>1
<1>7. told' = told
  BY DEF Crash, told
<1> QED
  BY <1>3, <1>4, <1>6, <1>7, SameSlots DEF Ledger!Crash

\* Every step of postEntry is a step of the abstract ledger, or none.
LEMMA StepRefines == IInv /\ [Next]_vars => [Ledger!Next]_<<keys, told>>
<1> SUFFICES ASSUME IInv, [Next]_vars
             PROVE  Ledger!Next \/ UNCHANGED <<keys, told>>
  OBVIOUS
<1>1. (UNCHANGED <<keys, answer>>) => UNCHANGED <<keys, told>>
  BY DEF told
<1>2. ASSUME NEW r \in Requests, NEW status \in {"error", "conflict", "bad_request"},
             pc[r] \notin {"done", "lost"}, Abort(r, status)
      PROVE  Ledger!Next
  BY <1>2, FinishRefines, AnswerTypes DEF Abort, Failed
<1>3. ASSUME NEW r \in Requests, Arrive(r)
      PROVE  Ledger!Next \/ UNCHANGED <<keys, answer>>
  BY <1>3, <1>2 DEF Arrive, Abort, tables
<1>4. ASSUME NEW r \in Requests, Lookup(r)
      PROVE  Ledger!Next \/ UNCHANGED <<keys, answer>>
  <2>1. CASE keys[Slot(r)] # None
    <3>1. Posted(keys[Slot(r)], TRUE) \in Answers
      BY <2>1, AnswerTypes, SlotInSlots DEF IInv, TypeOK
    <3> QED
      BY <1>4, <2>1, <3>1, FinishRefines DEF Lookup, Posted
  <2>2. CASE keys[Slot(r)] = None
    BY <1>4, <2>2 DEF Lookup, tables
  <2> QED
    BY <2>1, <2>2
<1>5. ASSUME NEW r \in Requests,
             Connect(r) \/ InsertEntry(r) \/ InsertOutbox(r)
      PROVE  UNCHANGED <<keys, answer>>
  BY <1>5 DEF Connect, InsertEntry, InsertOutbox, tables
<1>6. ASSUME NEW r \in Requests, InsertLine(r)
      PROVE  Ledger!Next \/ UNCHANGED <<keys, answer>>
  BY <1>6, <1>2 DEF InsertLine, tables
<1>7. ASSUME NEW r \in Requests, InsertKey(r)
      PROVE  Ledger!Next \/ UNCHANGED <<keys, answer>>
  BY <1>7, <1>2 DEF InsertKey, tables
<1>8. ASSUME NEW r \in Requests, Commit(r) PROVE Ledger!Next
  BY <1>8, EndRefines DEF Commit
<1>9. ASSUME NEW r \in Requests, CommitFails(r) PROVE Ledger!Next
  BY <1>9, EndRefines DEF CommitFails
<1>10. ASSUME NEW r \in Requests, ConnectFails(r) \/ StatementFails(r)
       PROVE  Ledger!Next
  BY <1>10, <1>2 DEF ConnectFails, StatementFails, InTransaction
<1>11. CASE UNCHANGED vars
  BY <1>1, <1>11 DEF vars, tables
<1> QED
  BY <1>1, <1>3, <1>4, <1>5, <1>6, <1>7, <1>8, <1>9, <1>10, <1>11, CrashRefines
     DEF Next, Step

\* Seen through the key table and the answers, the transactions of postEntry are
\* one atomic, idempotent post per call (ledger.service.ts 28-100).
THEOREM PostingImplementsLedger == Spec => ImplementsLedger
<1>1. Init => Ledger!Init
  BY SameSlots DEF Init, Ledger!Init, told, Told
<1>2. IInv /\ [Next]_vars => [Ledger!Next]_<<keys, told>>
  BY StepRefines
<1> QED
  BY <1>1, <1>2, Invariance, PTL DEF Spec, ImplementsLedger, Ledger!Spec
=============================================================================
