-------------------------- MODULE OutboxLifecycle ---------------------------
(***************************************************************************)
(* What the outbox promises the rest of the system, whatever the number of *)
(* workers: a stored event is delivered at least once before it counts as  *)
(* published, its entry is projected only after a delivery and before it   *)
(* counts as published, and "published" and "dead_letter" are final.       *)
(***************************************************************************)
CONSTANTS
  Events,        \* the outbox rows
  EntryOf,       \* event -> the journal entry to project, or None
  None

VARIABLES
  status,        \* event -> "absent", "pending", "published" or "dead_letter"
  received,      \* the events the receiver has been handed at least once
  projected      \* the journal entries in the read model

Entries == {EntryOf[e] : e \in Events} \ {None}

Init ==
  /\ status = [e \in Events |-> "absent"]
  /\ received = {}
  /\ projected = {}

\* The API commits an event with its entry.
Enqueue(e) ==
  /\ status[e] = "absent"
  /\ status' = [status EXCEPT ![e] = "pending"]
  /\ UNCHANGED <<received, projected>>

\* A delivery, the first or a further one, maybe after the event was settled.
Deliver(e) ==
  /\ status[e] # "absent"
  /\ received' = received \cup {e}
  /\ UNCHANGED <<status, projected>>

\* The entry of a delivered event enters the read model, once.
Project(e) ==
  /\ e \in received
  /\ EntryOf[e] \in Entries \ projected
  /\ projected' = projected \cup {EntryOf[e]}
  /\ UNCHANGED <<status, received>>

\* Delivered and projected events are settled.
Publish(S) ==
  /\ \A e \in S : /\ status[e] = "pending"
                  /\ e \in received
                  /\ EntryOf[e] \in projected \cup {None}
  /\ status' = [e \in Events |-> IF e \in S THEN "published" ELSE status[e]]
  /\ UNCHANGED <<received, projected>>

\* An event is given up.
GiveUp(e) ==
  /\ status[e] = "pending"
  /\ status' = [status EXCEPT ![e] = "dead_letter"]
  /\ UNCHANGED <<received, projected>>

Next ==
  \/ \E e \in Events : Enqueue(e) \/ Deliver(e) \/ Project(e) \/ GiveUp(e)
  \/ \E S \in SUBSET Events : Publish(S)

Spec == Init /\ [][Next]_<<status, received, projected>>
=============================================================================
