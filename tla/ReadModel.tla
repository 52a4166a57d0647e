----------------------------- MODULE ReadModel ------------------------------
(***************************************************************************)
(* What the projection promises its readers: ledger_projection and         *)
(* account_balances change together, one journal entry at a time, and an   *)
(* entry enters them at most once, with each of its lines counted once.    *)
(***************************************************************************)
EXTENDS Naturals

CONSTANTS
  Lines,         \* journal lines
  EntryOf        \* line -> its journal entry

VARIABLES
  projected,     \* the entries in ledger_projection
  counted        \* line -> how often account_balances has added it up

Init ==
  /\ projected = {}
  /\ counted = [l \in Lines |-> 0]

\* An entry enters the read model.
Apply(n) ==
  /\ n \notin projected
  /\ projected' = projected \cup {n}
  /\ counted' = [l \in Lines |-> IF EntryOf[l] = n THEN counted[l] + 1 ELSE counted[l]]

Next == \E n \in {EntryOf[l] : l \in Lines} : Apply(n)

Spec == Init /\ [][Next]_<<projected, counted>>
=============================================================================
