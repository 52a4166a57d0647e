--------------------------- MODULE MCOutboxRelay ----------------------------
(***************************************************************************)
(* Instances of OutboxRelay for TLC.  Event 1 announces a journal entry,   *)
(* event 2 has none to project (another event type, or no aggregate).      *)
(***************************************************************************)
EXTENDS OutboxRelay, TLC

CONSTANTS w1, w2, entry1

TheEntries == <<entry1, None>>
EntryOfFirst(n) == [e \in 1..n |-> TheEntries[e]]

OneEvent == 1..1
TwoEvents == 1..2
EntryOf1 == EntryOfFirst(1)
EntryOf2 == EntryOfFirst(2)

WorkersAreAlike == Permutations(Workers)
=============================================================================
