-------------------------- MODULE IdempotentLedger --------------------------
(***************************************************************************)
(* What POST /ledger/entries promises its callers, with no transaction in  *)
(* sight: a slot - a pair of tenant and idempotency key - is bound at most  *)
(* once, to the entry of the call that bound it, and every successful      *)
(* answer names the entry its slot is bound to.                            *)
(***************************************************************************)
CONSTANTS
  Requests,      \* the calls
  SlotOf,        \* call -> the slot it asks for
  None           \* no entry, no answer

VARIABLES
  ledger,        \* slot -> the entry it is bound to, or None
  answer         \* call -> the entry named in its answer, "refused", or None

Slots == {SlotOf[r] : r \in Requests}

Init ==
  /\ ledger = [s \in Slots |-> None]
  /\ answer = [r \in Requests |-> None]

\* The call binds its free slot; the caller may be told of a failure all the same
\* (the connection to the database went away during COMMIT).
Bind(r) ==
  /\ answer[r] = None
  /\ ledger[SlotOf[r]] = None
  /\ ledger' = [ledger EXCEPT ![SlotOf[r]] = r]
  /\ \E a \in {r, "refused"} : answer' = [answer EXCEPT ![r] = a]

\* The call finds its slot bound and answers with the entry of the first call.
Replay(r) ==
  /\ answer[r] = None
  /\ ledger[SlotOf[r]] # None
  /\ answer' = [answer EXCEPT ![r] = ledger[SlotOf[r]]]
  /\ UNCHANGED ledger

\* The call fails and leaves nothing behind.
Refuse(r) ==
  /\ answer[r] = None
  /\ answer' = [answer EXCEPT ![r] = "refused"]
  /\ UNCHANGED ledger

\* A crash of the server: calls that were being committed may have bound their
\* free slots, and nobody is answered.
Crash ==
  /\ \E S \in SUBSET {r \in Requests : answer[r] = None /\ ledger[SlotOf[r]] = None} :
       /\ \A r, s \in S : SlotOf[r] = SlotOf[s] => r = s
       /\ ledger' = [t \in Slots |->
                       IF \E r \in S : SlotOf[r] = t
                         THEN CHOOSE r \in S : SlotOf[r] = t
                         ELSE ledger[t]]
  /\ UNCHANGED answer

Next ==
  \/ \E r \in Requests : Bind(r) \/ Replay(r) \/ Refuse(r)
  \/ Crash

Spec == Init /\ [][Next]_<<ledger, answer>>
=============================================================================
