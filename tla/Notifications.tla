--------------------------- MODULE Notifications ----------------------------
(***************************************************************************)
(* NotificationService: send() tries the channels of a notification one    *)
(* after the other, awaiting each, so that sends interleave; the in-app    *)
(* channel puts the notification into its user's list, kept in memory and  *)
(* rewritten as one file after each change.  The process may die at any    *)
(* moment, in the middle of that write too, and loads the file when it     *)
(* comes back.                                                             *)
(***************************************************************************)
EXTENDS Naturals, Sequences

CONSTANTS
  Notes,         \* the notifications sent
  UserOf,        \* note -> its userId, "system" when it has none
  ChannelsOf,    \* note -> the channels it asks for, in order
  Enabled,       \* the channels the environment enables
  TelegramSet,   \* a bot token and a chat id are configured
  MaxList,       \* the length a user's list is kept to
  Unreadable,    \* what a write that was cut off leaves
  MaxCrashes     \* bound on the times the process dies

Users == {UserOf[n] : n \in Notes}

ASSUME NotificationsAssumption ==
  /\ \A n \in Notes : ChannelsOf[n] \in Seq(STRING)
  /\ TelegramSet \in BOOLEAN
  /\ MaxList \in Nat \ {0}
  /\ Unreadable \notin [Users -> Seq(Notes)]
  /\ MaxCrashes \in Nat

VARIABLES
  file,          \* inbox.json: user -> list, or Unreadable
  inbox,         \* the Map in memory: user -> list
  up,            \* the process runs
  pc,            \* note -> "unsent", "sending", "done", or "cut" by a crash
  results,       \* note -> the success flags send() has collected
  delivered,     \* history: pairs of a note and a channel that has really taken it
  pushed,        \* history: user -> what was loaded and then listed, in order
  torn,          \* history: the last write of the file did not succeed
  crashes

vars == <<file, inbox, up, pc, results, delivered, pushed, torn, crashes>>

NoNotes == [u \in Users |-> <<>>]

\* No file yet, which loads as no lists.
Init ==
  /\ file = NoNotes /\ inbox = NoNotes /\ pushed = NoNotes
  /\ up = TRUE /\ torn = FALSE /\ crashes = 0
  /\ pc = [n \in Notes |-> "unsent"]
  /\ results = [n \in Notes |-> <<>>]
  /\ delivered = {}
-----------------------------------------------------------------------------
Sending(n) == up /\ pc[n] = "sending"

\* The channel the for loop of send() is at.
Channel(n) == ChannelsOf[n][Len(results[n]) + 1]
At(n, c) == Sending(n) /\ Len(results[n]) < Len(ChannelsOf[n]) /\ Channel(n) = c

\* results.push.
Result(n, success) == results' = [results EXCEPT ![n] = Append(@, success)]

\* Faulty: the list grows.
PushedWithoutLimit(n) == [inbox EXCEPT ![UserOf[n]] = Append(@, n)]

\* Faulty: the list drops its newest element instead of its oldest.
PushedDroppingNewest(n) ==
  [inbox EXCEPT ![UserOf[n]] = IF Len(@) = MaxList THEN @ ELSE Append(@, n)]

\* list.push(payload), and list.shift() above the limit.
Pushed(n) ==
  [inbox EXCEPT ![UserOf[n]] = LET list == Append(@, n)
                               IN  IF Len(list) > MaxList THEN Tail(list) ELSE list]

\* Faulty: the file is written before the list is changed.
SaveBefore(m) == file' = inbox /\ torn' = FALSE

\* saveInbox: the file is rewritten, or the error is logged and forgotten.
Save(m) ==
  \/ file' = m /\ torn' = FALSE
  \/ file' \in {file, Unreadable} /\ torn' = TRUE

Send(n) ==
  /\ up
  /\ pc[n] = "unsent"
  /\ pc' = [pc EXCEPT ![n] = "sending"]
  /\ UNCHANGED <<file, inbox, up, results, delivered, pushed, torn, crashes>>

\* sendInApp, which does not wait for anything.
InApp(n) ==
  /\ At(n, "in_app")
  /\ IF "in_app" \in Enabled
       THEN /\ inbox' = Pushed(n)
            /\ pushed' = [pushed EXCEPT ![UserOf[n]] = Append(@, n)]
            /\ Save(inbox')
            /\ Result(n, TRUE)
            /\ delivered' = delivered \cup {<<n, "in_app">>}
       ELSE /\ Result(n, FALSE)
            /\ UNCHANGED <<file, inbox, delivered, pushed, torn>>
  /\ UNCHANGED <<up, pc, crashes>>

\* Faulty: the answer's status is not looked at.
TelegramUnchecked(n) ==
  /\ At(n, "telegram")
  /\ delivered' \in {delivered, delivered \cup {<<n, "telegram">>}}
  /\ Result(n, "telegram" \in Enabled /\ TelegramSet)
  /\ UNCHANGED <<file, inbox, up, pc, pushed, torn, crashes>>

\* sendTelegram: the message is taken; or there is an error answer, or none within
\* the timeout, and it may have been taken all the same.
Telegram(n) ==
  /\ At(n, "telegram")
  /\ IF "telegram" \in Enabled /\ TelegramSet
       THEN \/ delivered' = delivered \cup {<<n, "telegram">>} /\ Result(n, TRUE)
            \/ delivered' \in {delivered, delivered \cup {<<n, "telegram">>}} /\ Result(n, FALSE)
       ELSE Result(n, FALSE) /\ UNCHANGED delivered
  /\ UNCHANGED <<file, inbox, up, pc, pushed, torn, crashes>>

\* Faulty: an unknown channel ends the loop of the others.
OtherOnly(n) ==
  /\ \E c \in {"email", "sms"} : At(n, c) /\ Result(n, c \in Enabled)
  /\ UNCHANGED <<file, inbox, up, pc, delivered, pushed, torn, crashes>>

\* sendEmail and sendSms, which send nothing and report success, and the channels
\* send() does not know.
Other(n) ==
  /\ Sending(n) /\ Len(results[n]) < Len(ChannelsOf[n])
  /\ Channel(n) \notin {"in_app", "telegram"}
  /\ Result(n, Channel(n) \in {"email", "sms"} \cap Enabled)
  /\ UNCHANGED <<file, inbox, up, pc, delivered, pushed, torn, crashes>>

Return(n) ==
  /\ Sending(n)
  /\ Len(results[n]) = Len(ChannelsOf[n])
  /\ pc' = [pc EXCEPT ![n] = "done"]
  /\ UNCHANGED <<file, inbox, up, results, delivered, pushed, torn, crashes>>

\* The process dies; while it writes the file, of which the beginning stays.
Crash ==
  /\ up /\ crashes < MaxCrashes
  /\ up' = FALSE /\ crashes' = crashes + 1
  /\ inbox' = NoNotes
  /\ pc' = [n \in Notes |-> IF pc[n] = "sending" THEN "cut" ELSE pc[n]]
  /\ \/ UNCHANGED <<file, torn>>
     \/ /\ \E n \in Notes : At(n, "in_app") /\ "in_app" \in Enabled
        /\ file' = Unreadable /\ torn' = TRUE
  /\ UNCHANGED <<results, delivered, pushed>>

\* The module is loaded: loadInbox, for which an unreadable file is an empty one.
Start ==
  /\ ~up
  /\ up' = TRUE
  /\ inbox' = IF file = Unreadable THEN NoNotes ELSE file
  /\ pushed' = inbox'
  /\ UNCHANGED <<file, pc, results, delivered, torn, crashes>>

Step(n) == InApp(n) \/ Telegram(n) \/ Other(n) \/ Return(n)

Next == (\E n \in Notes : Send(n) \/ Step(n)) \/ Crash \/ Start

Spec == Init /\ [][Next]_vars

\* A send goes on: no channel waits longer than its timeout.
FairSpec == Spec /\ \A n \in Notes : WF_vars(Step(n))
-----------------------------------------------------------------------------
(* Correctness.                                                            *)

\* The type invariant; no list outgrows its limit.
TypeOK ==
  /\ file \in [Users -> Seq(Notes)] \cup {Unreadable}
  /\ inbox \in [Users -> Seq(Notes)]
  /\ \A u \in Users : Len(inbox[u]) <= MaxList
  /\ up \in BOOLEAN /\ torn \in BOOLEAN /\ crashes \in 0..MaxCrashes
  /\ pc \in [Notes -> {"unsent", "sending", "done", "cut"}]
  /\ results \in [Notes -> Seq(BOOLEAN)]
  /\ delivered \subseteq Notes \X {"in_app", "telegram"}
  /\ pushed \in [Users -> Seq(Notes)]

Newest(s) == SubSeq(s, IF Len(s) > MaxList THEN Len(s) - MaxList + 1 ELSE 1, Len(s))

\* What a user is shown is the newest of what was listed for that user since the
\* process started and of what it had loaded, in order, however sends of several
\* users and channels interleave (lines 57-62 and 86-88).
ListsAreTheNewest == up => \A u \in Users : inbox[u] = Newest(pushed[u])

\* The inbox outlives the process: one that starts after the last write had succeeded
\* shows what the one before it had listed (line 6).
OutlivesTheProcess ==
  [][~up /\ up' /\ ~torn => \A u \in Users : inbox'[u] = Newest(pushed[u])]_vars

\* A success send() reports for a list or for Telegram has happened, and what it reports
\* for a channel does not depend on how the channels before it fared (lines 40-56).
ResultsAreTrue ==
  \A n \in Notes : \A i \in DOMAIN results[n] :
    LET c == ChannelsOf[n][i]
    IN  /\ results[n][i] /\ c \in {"in_app", "telegram"} => <<n, c>> \in delivered
        /\ ~results[n][i] /\ c \in Enabled => c \notin {"in_app", "email", "sms"}

\* Every send returns, with a result for every channel, unless the process dies.
EverySendReturns ==
  \A n \in Notes : pc[n] = "sending" ~>
    \/ pc[n] = "cut"
    \/ pc[n] = "done" /\ Len(results[n]) = Len(ChannelsOf[n])
=============================================================================
