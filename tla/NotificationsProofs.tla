------------------------ MODULE NotificationsProofs ------------------------
(***************************************************************************)
(* For every set of notifications, users and channels, every limit and     *)
(* every number of crashes: a list holds the newest, it outlives the       *)
(* process if its last write succeeded, and reported successes happened.   *)
(***************************************************************************)
EXTENDS Notifications, SequenceTheorems, TLAPS

\* What is on disk: lists within the limit, and those the memory holds or held last,
\* unless a write failed.
FileIsNewest ==
  /\ file # Unreadable => \A u \in Users : Len(file[u]) <= MaxList
  /\ ~torn => file # Unreadable /\ \A u \in Users : file[u] = Newest(pushed[u])

\* send() has no more results than channels.
ResultPerChannel == \A n \in Notes : Len(results[n]) <= Len(ChannelsOf[n])

\* The inductive invariant.
IInv ==
  /\ TypeOK
  /\ ListsAreTheNewest
  /\ FileIsNewest
  /\ ResultPerChannel
  /\ ResultsAreTrue
-----------------------------------------------------------------------------
(* The newest of a list.                                                   *)

\* A list within the limit is its own newest part.
LEMMA NewestOfShort ==
  ASSUME NEW s \in Seq(Notes), Len(s) <= MaxList
  PROVE  Newest(s) = s
<1>1. Len(s) \in Nat /\ MaxList \in Nat \ {0}
  BY NotificationsAssumption, LenProperties
<1> DEFINE m == IF Len(s) > MaxList THEN Len(s) - MaxList + 1 ELSE 1
<1>2. m = 1
  BY <1>1
<1>3. Newest(s) = SubSeq(s, m, Len(s))
  BY DEF Newest
<1> HIDE DEF m
<1> QED  BY <1>2, <1>3, SubSeqFull

\* The newest part is a list within the limit; it is the whole list up to the limit, and
\* as long as the limit beyond.
LEMMA NewestType ==
  ASSUME NEW s \in Seq(Notes)
  PROVE  /\ Newest(s) \in Seq(Notes)
         /\ Len(Newest(s)) = IF Len(s) > MaxList THEN MaxList ELSE Len(s)
         /\ \A i \in 1..Len(Newest(s)) : Newest(s)[i] = s[i + Len(s) - Len(Newest(s))]
<1> DEFINE m == IF Len(s) > MaxList THEN Len(s) - MaxList + 1 ELSE 1
<1>1. Len(s) \in Nat /\ m \in 1..(Len(s) + 1) /\ MaxList \in Nat \ {0}
  BY NotificationsAssumption, LenProperties
<1>2. \A i \in m..Len(s) : s[i] \in Notes
  BY <1>1, ElementOfSeq
<1>3. /\ SubSeq(s, m, Len(s)) \in Seq(Notes)
      /\ Len(SubSeq(s, m, Len(s))) = IF m <= Len(s) THEN Len(s) - m + 1 ELSE 0
      /\ \A i \in 1..Len(s) - m + 1 : SubSeq(s, m, Len(s))[i] = s[m + i - 1]
  <2> HIDE DEF m
  <2> QED  BY <1>1, <1>2, SubSeqProperties
<1>4. Newest(s) = SubSeq(s, m, Len(s))
  BY DEF Newest
<1>5. CASE Len(s) > MaxList
  BY <1>1, <1>3, <1>4, <1>5
<1>6. CASE Len(s) <= MaxList
  <2>1. Newest(s) = s
    BY <1>6, NewestOfShort
  <2> QED  BY <2>1, <1>1, <1>6
<1> QED  BY <1>1, <1>5, <1>6

\* The list of the newest, with an element more and cut above the limit, is again that of the
\* newest: what sendInApp does.
LEMMA NewestOfAppend ==
  ASSUME NEW s \in Seq(Notes), NEW n \in Notes
  PROVE  Newest(Append(s, n)) = LET list == Append(Newest(s), n)
                                IN  IF Len(list) > MaxList THEN Tail(list) ELSE list
<1> DEFINE a == Append(s, n)
           list == Append(Newest(s), n)
           cut == IF Len(list) > MaxList THEN Tail(list) ELSE list
<1>1. Len(s) \in Nat /\ MaxList \in Nat \ {0}
  BY NotificationsAssumption, LenProperties
<1>2. /\ a \in Seq(Notes) /\ Len(a) = Len(s) + 1
      /\ \A i \in 1..Len(s) : a[i] = s[i]
      /\ a[Len(s) + 1] = n
  BY AppendProperties
<1>3. /\ Newest(s) \in Seq(Notes)
      /\ Len(Newest(s)) = IF Len(s) > MaxList THEN MaxList ELSE Len(s)
      /\ \A i \in 1..Len(Newest(s)) : Newest(s)[i] = s[i + Len(s) - Len(Newest(s))]
  BY NewestType
<1>4. /\ list \in Seq(Notes) /\ list # <<>> /\ Len(list) = Len(Newest(s)) + 1
      /\ \A i \in 1..Len(Newest(s)) : list[i] = Newest(s)[i]
      /\ list[Len(Newest(s)) + 1] = n
  BY <1>3, AppendProperties
<1>5. /\ Tail(list) \in Seq(Notes) /\ Len(Tail(list)) = Len(list) - 1
      /\ \A i \in 1..Len(Tail(list)) : Tail(list)[i] = list[i + 1]
  BY <1>4, HeadTailProperties
<1>6. /\ Newest(a) \in Seq(Notes)
      /\ Len(Newest(a)) = IF Len(a) > MaxList THEN MaxList ELSE Len(a)
      /\ \A i \in 1..Len(Newest(a)) : Newest(a)[i] = a[i + Len(a) - Len(Newest(a))]
  BY <1>2, NewestType
<1> HIDE DEF a, list
<1>7. cut \in Seq(Notes) /\ Len(cut) = Len(Newest(a))
  <2>1. Len(cut) = IF Len(list) > MaxList THEN Len(list) - 1 ELSE Len(list)
    BY <1>5
  <2>2. Len(cut) = Len(Newest(a))
    <3> HIDE DEF cut
    <3> QED  BY <2>1, <1>1, <1>2, <1>3, <1>4, <1>6
  <2> QED  BY <2>2, <1>4, <1>5
<1>8. ASSUME NEW i \in 1..Len(Newest(a))
      PROVE  Newest(a)[i] = cut[i]
  <2> DEFINE k == Len(Newest(s))
  <2>0. k \in Nat /\ (k = MaxList \/ k = Len(s)) /\ k <= MaxList /\ k <= Len(s)
    BY <1>1, <1>3
  <2>1. CASE k = MaxList
    <3>1. Len(list) > MaxList /\ cut = Tail(list) /\ Len(Tail(list)) = k
      BY <2>1, <1>1, <1>4, <1>5
    <3>2. Newest(a)[i] = a[i + Len(s) + 1 - k] /\ i \in 1..k
      <4>1. Len(a) > MaxList /\ Len(Newest(a)) = k
        BY <2>0, <2>1, <1>1, <1>2, <1>6
      <4>2. i + Len(a) - k = i + Len(s) + 1 - k
        BY <4>1, <2>0, <1>1, <1>2
      <4> QED  BY <4>1, <4>2, <1>6
    <3>3. cut[i] = list[i + 1]
      BY <3>1, <3>2, <1>5
    <3>4. CASE i = k
      BY <3>2, <3>3, <3>4, <2>0, <1>1, <1>2, <1>4
    <3>5. CASE i # k
      <4>1. i + 1 \in 1..k /\ i + Len(s) + 1 - k \in 1..Len(s)
        BY <3>2, <3>5, <2>0, <1>1
      <4>2. list[i + 1] = Newest(s)[i + 1] /\ Newest(s)[i + 1] = s[(i + 1) + Len(s) - k]
        BY <4>1, <1>3, <1>4
      <4>3. (i + 1) + Len(s) - k = i + Len(s) + 1 - k
        BY <4>1, <2>0, <1>1
      <4> QED  BY <4>1, <4>2, <4>3, <3>2, <3>3, <1>2
    <3> QED  BY <3>4, <3>5
  <2>2. CASE k # MaxList
    <3>1. ~(Len(list) > MaxList) /\ cut = list /\ k = Len(s) /\ ~(Len(s) > MaxList)
      BY <2>0, <2>2, <1>1, <1>4
    <3>2. Newest(a) = a /\ Newest(s) = s
      BY <3>1, <2>0, <2>2, <1>1, <1>2, NewestOfShort
    <3> QED  BY <3>1, <3>2 DEF a, list
  <2> QED  BY <2>1, <2>2
<1>9. Newest(a) = cut
  <2> HIDE DEF cut
  <2> QED  BY <1>6, <1>7, <1>8, SeqEqual
<1> QED  BY <1>9 DEF a, list
-----------------------------------------------------------------------------
(* The invariant.                                                          *)

LEMMA Limit == MaxList \in Nat /\ 0 < MaxList /\ 0 <= MaxList
  BY NotificationsAssumption

LEMMA UserIn == \A n \in Notes : UserOf[n] \in Users
  BY DEF Users

\* A list with an element more.
LEMMA PushedType ==
  ASSUME TypeOK, NEW n \in Notes
  PROVE  /\ Pushed(n) \in [Users -> Seq(Notes)]
         /\ \A u \in Users : Len(Pushed(n)[u]) <= MaxList
         /\ ListsAreTheNewest /\ up =>
              \A u \in Users :
                Pushed(n)[u] = Newest([pushed EXCEPT ![UserOf[n]] = Append(@, n)][u])
<1> DEFINE l == inbox[UserOf[n]]
<1>1. /\ UserOf[n] \in Users /\ inbox \in [Users -> Seq(Notes)]
      /\ pushed \in [Users -> Seq(Notes)]
      /\ l \in Seq(Notes) /\ Len(l) <= MaxList /\ \A u \in Users : Len(inbox[u]) <= MaxList
  BY UserIn DEF TypeOK
<1> HIDE DEF l
<1>2. MaxList \in Nat /\ 0 < MaxList /\ Len(l) \in Nat
  BY <1>1, Limit, LenProperties
<1>3. Append(l, n) \in Seq(Notes) /\ Append(l, n) # <<>> /\ Len(Append(l, n)) = Len(l) + 1
  BY <1>1, AppendProperties
<1>4. Tail(Append(l, n)) \in Seq(Notes) /\ Len(Tail(Append(l, n))) = Len(l)
  BY <1>1, <1>2, <1>3, HeadTailProperties
<1> DEFINE new == IF Len(Append(l, n)) > MaxList THEN Tail(Append(l, n)) ELSE Append(l, n)
<1>5. Pushed(n) = [inbox EXCEPT ![UserOf[n]] = new]
  BY DEF Pushed, l
<1>6. new \in Seq(Notes) /\ Len(new) <= MaxList
  <2>1. CASE Len(Append(l, n)) > MaxList
    BY <2>1, <1>1, <1>2, <1>3, <1>4
  <2>2. CASE ~(Len(Append(l, n)) > MaxList)
    BY <2>2, <1>1, <1>2, <1>3, <1>4
  <2> QED  BY <2>1, <2>2
<1>7. ListsAreTheNewest /\ up => new = Newest(Append(pushed[UserOf[n]], n))
  <2> SUFFICES ASSUME ListsAreTheNewest, up
               PROVE  new = Newest(Append(pushed[UserOf[n]], n))
    OBVIOUS
  <2>1. l = Newest(pushed[UserOf[n]])
    BY <1>1 DEF l, ListsAreTheNewest
  <2>2. pushed[UserOf[n]] \in Seq(Notes)
    BY <1>1
  <2> QED  BY <2>1, <2>2, NewestOfAppend
<1> HIDE DEF new
<1> QED  BY <1>1, <1>5, <1>6, <1>7 DEF ListsAreTheNewest

LEMMA InitIInv == Init => IInv
<1> SUFFICES ASSUME Init
             PROVE  IInv
  OBVIOUS
<1>1. <<>> \in Seq(Notes) /\ <<>> \in Seq(BOOLEAN) /\ Len(<<>>) = 0 /\ DOMAIN <<>> = {}
  BY EmptySeq
<1>2. NoNotes \in [Users -> Seq(Notes)] /\ \A u \in Users : NoNotes[u] = <<>>
  BY <1>1 DEF NoNotes
<1>3. Newest(<<>>) = <<>>
  BY <1>1, NewestOfShort, Limit
<1>4. TypeOK
  <2>1. crashes \in 0..MaxCrashes
    BY NotificationsAssumption DEF Init
  <2>2. \A u \in Users : Len(inbox[u]) <= MaxList
    BY <1>1, <1>2, Limit DEF Init
  <2> QED  BY <1>1, <1>2, <2>1, <2>2 DEF Init, TypeOK
<1>5. ListsAreTheNewest
  BY <1>2, <1>3 DEF Init, ListsAreTheNewest
<1>6. FileIsNewest
  <2>1. file # Unreadable
    BY <1>2, NotificationsAssumption DEF Init
  <2>2. \A u \in Users : Len(file[u]) <= MaxList
    BY <1>1, <1>2, Limit DEF Init
  <2> QED  BY <1>2, <1>3, <2>1, <2>2 DEF Init, FileIsNewest
<1>7. ResultPerChannel
  <2> SUFFICES ASSUME NEW n \in Notes
               PROVE  Len(results[n]) <= Len(ChannelsOf[n])
    BY DEF ResultPerChannel
  <2>1. results[n] = <<>>
    BY DEF Init
  <2>2. Len(ChannelsOf[n]) \in Nat
    BY NotificationsAssumption, LenProperties
  <2> QED  BY <1>1, <2>1, <2>2
<1>8. ResultsAreTrue
  BY <1>1 DEF Init, ResultsAreTrue
<1> QED  BY <1>4, <1>5, <1>6, <1>7, <1>8 DEF IInv

\* A step that adds a true result and takes nothing back keeps what there is to say of
\* results.
LEMMA ResultAdded ==
  ASSUME TypeOK, ResultPerChannel, ResultsAreTrue,
         NEW n \in Notes, NEW s \in BOOLEAN, Result(n, s),
         Len(results[n]) < Len(ChannelsOf[n]), delivered \subseteq delivered',
         s /\ Channel(n) \in {"in_app", "telegram"} => <<n, Channel(n)>> \in delivered',
         ~s /\ Channel(n) \in Enabled => Channel(n) \notin {"in_app", "email", "sms"}
  PROVE  results' \in [Notes -> Seq(BOOLEAN)] /\ ResultPerChannel' /\ ResultsAreTrue'
<1> DEFINE r == results[n]
<1>1. r \in Seq(BOOLEAN) /\ Len(r) \in Nat /\ DOMAIN r = 1..Len(r)
  BY LenProperties DEF TypeOK
<1>2. Len(ChannelsOf[n]) \in Nat
  BY NotificationsAssumption, LenProperties
<1>3. /\ Append(r, s) \in Seq(BOOLEAN) /\ Len(Append(r, s)) = Len(r) + 1
      /\ \A i \in 1..Len(r) : Append(r, s)[i] = r[i]
      /\ Append(r, s)[Len(r) + 1] = s
      /\ DOMAIN Append(r, s) = 1..Len(r) + 1
  <2> HIDE DEF r
  <2>1. /\ Append(r, s) \in Seq(BOOLEAN) /\ Len(Append(r, s)) = Len(r) + 1
        /\ \A i \in 1..Len(r) : Append(r, s)[i] = r[i]
        /\ Append(r, s)[Len(r) + 1] = s
    BY <1>1, AppendProperties
  <2> QED  BY <2>1, LenProperties
<1>4. results' = [results EXCEPT ![n] = Append(r, s)] /\ results \in [Notes -> Seq(BOOLEAN)]
  BY DEF Result, TypeOK
<1>5. \A m \in Notes : results'[m] = IF m = n THEN Append(r, s) ELSE results[m]
  BY <1>4
<1>6. Channel(n) = ChannelsOf[n][Len(r) + 1]
  BY DEF Channel
<1> HIDE DEF r
<1>7. results' \in [Notes -> Seq(BOOLEAN)]
  BY <1>3, <1>4
<1>8. ResultPerChannel'
  <2>1. Len(r) < Len(ChannelsOf[n])
    BY DEF r
  <2>2. Len(Append(r, s)) <= Len(ChannelsOf[n])
    BY <1>1, <1>2, <1>3, <2>1
  <2> QED  BY <1>5, <2>2 DEF ResultPerChannel
<1>9. ResultsAreTrue'
  <2> SUFFICES ASSUME NEW m \in Notes, NEW i \in DOMAIN results'[m]
               PROVE  LET c == ChannelsOf[m][i]
                      IN  /\ results'[m][i] /\ c \in {"in_app", "telegram"} =>
                               <<m, c>> \in delivered'
                          /\ ~results'[m][i] /\ c \in Enabled =>
                               c \notin {"in_app", "email", "sms"}
    BY DEF ResultsAreTrue
  <2>1. CASE m # n
    BY <2>1, <1>5 DEF ResultsAreTrue
  <2>2. CASE m = n /\ i \in 1..Len(r)
    <3>1. i \in DOMAIN results[n] /\ results'[m][i] = results[n][i]
      BY <2>2, <1>1, <1>3, <1>5 DEF r
    <3> QED  BY <2>2, <3>1 DEF ResultsAreTrue
  <2>3. CASE m = n /\ i = Len(r) + 1
    BY <2>3, <1>3, <1>5, <1>6
  <2>4. m = n => i \in 1..Len(r) \/ i = Len(r) + 1
    <3>1. m = n => i \in 1..Len(r) + 1
      BY <1>3, <1>5
    <3> QED  BY <3>1, <1>1
  <2> QED  BY <2>1, <2>2, <2>3, <2>4
<1> QED  BY <1>7, <1>8, <1>9

\* What a step that leaves the lists and the file alone leaves of the invariant.
LEMMA ListsKept ==
  ASSUME IInv, UNCHANGED <<file, inbox, up, pushed, torn>>
  PROVE  ListsAreTheNewest' /\ FileIsNewest'
BY DEF IInv, ListsAreTheNewest, FileIsNewest, Newest

\* What a step that adds no result and takes no delivery back leaves of it.
LEMMA ResultsKept ==
  ASSUME IInv, UNCHANGED results, delivered \subseteq delivered'
  PROVE  ResultPerChannel' /\ ResultsAreTrue'
BY DEF IInv, ResultPerChannel, ResultsAreTrue

LEMMA SendIInv ==
  ASSUME IInv, NEW n \in Notes, Send(n)
  PROVE  IInv'
<1>1. TypeOK'
  BY DEF IInv, TypeOK, Send
<1>2. ListsAreTheNewest' /\ FileIsNewest'
  BY ListsKept DEF Send
<1>3. ResultPerChannel' /\ ResultsAreTrue'
  BY ResultsKept DEF Send
<1> QED  BY <1>1, <1>2, <1>3 DEF IInv

LEMMA ReturnIInv ==
  ASSUME IInv, NEW n \in Notes, Return(n)
  PROVE  IInv'
<1>1. TypeOK'
  BY DEF IInv, TypeOK, Return
<1>2. ListsAreTheNewest' /\ FileIsNewest'
  BY ListsKept DEF Return
<1>3. ResultPerChannel' /\ ResultsAreTrue'
  BY ResultsKept DEF Return
<1> QED  BY <1>1, <1>2, <1>3 DEF IInv

LEMMA OtherIInv ==
  ASSUME IInv, NEW n \in Notes, Other(n)
  PROVE  IInv'
<1> DEFINE s == Channel(n) \in {"email", "sms"} \cap Enabled
<1>1. /\ s \in BOOLEAN /\ Result(n, s)
      /\ Len(results[n]) < Len(ChannelsOf[n]) /\ delivered' = delivered
      /\ Channel(n) \notin {"in_app", "telegram"}
  BY DEF Other
<1>2. ~s /\ Channel(n) \in Enabled => Channel(n) \notin {"in_app", "email", "sms"}
  BY <1>1
<1> HIDE DEF s
<1>3. results' \in [Notes -> Seq(BOOLEAN)] /\ ResultPerChannel' /\ ResultsAreTrue'
  BY <1>1, <1>2, ResultAdded DEF IInv
<1>4. TypeOK'
  BY <1>3 DEF IInv, TypeOK, Other
<1>5. ListsAreTheNewest' /\ FileIsNewest'
  BY ListsKept DEF Other
<1> QED  BY <1>3, <1>4, <1>5 DEF IInv

LEMMA TelegramIInv ==
  ASSUME IInv, NEW n \in Notes, Telegram(n)
  PROVE  IInv'
<1>1. \E s \in BOOLEAN : Result(n, s) /\ (s => <<n, "telegram">> \in delivered')
  BY DEF Telegram
<1>2. /\ Len(results[n]) < Len(ChannelsOf[n]) /\ Channel(n) = "telegram"
      /\ delivered' \in {delivered, delivered \cup {<<n, "telegram">>}}
  BY DEF Telegram, At
<1>3. results' \in [Notes -> Seq(BOOLEAN)] /\ ResultPerChannel' /\ ResultsAreTrue'
  BY <1>1, <1>2, ResultAdded DEF IInv
<1>4. TypeOK'
  BY <1>2, <1>3 DEF IInv, TypeOK, Telegram
<1>5. ListsAreTheNewest' /\ FileIsNewest'
  BY ListsKept DEF Telegram
<1> QED  BY <1>3, <1>4, <1>5 DEF IInv

\* The list in memory gets its element and is written, or the write goes wrong.
LEMMA InAppIInv ==
  ASSUME IInv, NEW n \in Notes, InApp(n)
  PROVE  IInv'
<1>1. CASE "in_app" \in Enabled
  <2>1. /\ inbox' = Pushed(n) /\ up
        /\ pushed' = [pushed EXCEPT ![UserOf[n]] = Append(@, n)]
        /\ Save(inbox') /\ Result(n, TRUE)
        /\ delivered' = delivered \cup {<<n, "in_app">>}
        /\ UNCHANGED <<up, pc, crashes>>
        /\ Len(results[n]) < Len(ChannelsOf[n]) /\ Channel(n) = "in_app"
    BY <1>1 DEF InApp, At, Sending
  <2>2. /\ inbox' \in [Users -> Seq(Notes)]
        /\ \A u \in Users : Len(inbox'[u]) <= MaxList
        /\ \A u \in Users : inbox'[u] = Newest(pushed'[u])
    BY <2>1, PushedType DEF IInv
  <2>3. pushed' \in [Users -> Seq(Notes)]
    <3>1. UserOf[n] \in Users /\ pushed \in [Users -> Seq(Notes)]
      BY UserIn DEF IInv, TypeOK
    <3>2. Append(pushed[UserOf[n]], n) \in Seq(Notes)
      BY <3>1, AppendProperties
    <3> QED  BY <2>1, <3>1, <3>2
  <2>4. results' \in [Notes -> Seq(BOOLEAN)] /\ ResultPerChannel' /\ ResultsAreTrue'
    BY <2>1, ResultAdded DEF IInv
  <2>5. \/ file' = inbox' /\ torn' = FALSE
        \/ file' \in {file, Unreadable} /\ torn' = TRUE
    BY <2>1 DEF Save
  <2>6. TypeOK'
    <3>1. file' \in [Users -> Seq(Notes)] \cup {Unreadable} /\ torn' \in BOOLEAN
      BY <2>2, <2>5 DEF IInv, TypeOK
    <3>2. delivered' \subseteq Notes \X {"in_app", "telegram"}
      BY <2>1 DEF IInv, TypeOK
    <3> QED  BY <2>1, <2>2, <2>3, <2>4, <3>1, <3>2 DEF IInv, TypeOK
  <2>7. ListsAreTheNewest'
    BY <2>2 DEF ListsAreTheNewest, Newest
  <2>8. FileIsNewest'
    <3>1. CASE file' = inbox' /\ torn' = FALSE
      BY <3>1, <2>2, NotificationsAssumption DEF FileIsNewest, Newest
    <3>2. CASE file' \in {file, Unreadable} /\ torn' = TRUE
      BY <3>2 DEF IInv, FileIsNewest
    <3> QED  BY <2>5, <3>1, <3>2
  <2> QED  BY <2>4, <2>6, <2>7, <2>8 DEF IInv
<1>2. CASE "in_app" \notin Enabled
  <2>1. /\ Result(n, FALSE) /\ Channel(n) = "in_app"
        /\ UNCHANGED <<file, inbox, up, pc, delivered, pushed, torn, crashes>>
        /\ Len(results[n]) < Len(ChannelsOf[n])
    BY <1>2 DEF InApp, At
  <2>2. results' \in [Notes -> Seq(BOOLEAN)] /\ ResultPerChannel' /\ ResultsAreTrue'
    BY <1>2, <2>1, ResultAdded DEF IInv
  <2>3. TypeOK'
    BY <2>1, <2>2 DEF IInv, TypeOK
  <2>4. ListsAreTheNewest' /\ FileIsNewest'
    BY <2>1, ListsKept
  <2> QED  BY <2>2, <2>3, <2>4 DEF IInv
<1> QED  BY <1>1, <1>2

LEMMA CrashIInv ==
  ASSUME IInv, Crash
  PROVE  IInv'
<1>1. TypeOK'
  <2>1. NoNotes \in [Users -> Seq(Notes)] /\ \A u \in Users : Len(NoNotes[u]) <= MaxList
    <3>1. <<>> \in Seq(Notes) /\ Len(<<>>) = 0
      BY EmptySeq
    <3> QED  BY <3>1, Limit DEF NoNotes
  <2>2. crashes' \in 0..MaxCrashes
    BY NotificationsAssumption DEF IInv, TypeOK, Crash
  <2>3. pc' \in [Notes -> {"unsent", "sending", "done", "cut"}]
    BY DEF IInv, TypeOK, Crash
  <2> QED  BY <2>1, <2>2, <2>3 DEF IInv, TypeOK, Crash
<1>2. ListsAreTheNewest'
  BY DEF Crash, ListsAreTheNewest
<1>3. FileIsNewest'
  BY DEF IInv, Crash, FileIsNewest, Newest
<1>4. ResultPerChannel' /\ ResultsAreTrue'
  BY ResultsKept DEF Crash
<1> QED  BY <1>1, <1>2, <1>3, <1>4 DEF IInv

\* What is loaded is within the limit, and therefore its own newest part.
LEMMA StartLoads ==
  ASSUME IInv, Start
  PROVE  /\ inbox' \in [Users -> Seq(Notes)] /\ pushed' = inbox'
         /\ \A u \in Users : Len(inbox'[u]) <= MaxList /\ inbox'[u] = Newest(inbox'[u])
         /\ file # Unreadable => inbox' = file
<1>1. /\ inbox' = IF file = Unreadable THEN NoNotes ELSE file
      /\ pushed' = inbox'
  BY DEF Start
<1>2. NoNotes \in [Users -> Seq(Notes)] /\ \A u \in Users : Len(NoNotes[u]) <= MaxList
  <2>1. <<>> \in Seq(Notes) /\ Len(<<>>) = 0
    BY EmptySeq
  <2> QED  BY <2>1, Limit DEF NoNotes
<1>3. inbox' \in [Users -> Seq(Notes)] /\ \A u \in Users : Len(inbox'[u]) <= MaxList
  BY <1>1, <1>2 DEF IInv, TypeOK, FileIsNewest
<1>4. \A u \in Users : inbox'[u] = Newest(inbox'[u])
  BY <1>3, NewestOfShort
<1> QED  BY <1>1, <1>3, <1>4

LEMMA StartIInv ==
  ASSUME IInv, Start
  PROVE  IInv'
<1>1. TypeOK'
  BY StartLoads DEF IInv, TypeOK, Start
<1>2. ListsAreTheNewest'
  BY StartLoads DEF ListsAreTheNewest, Newest
<1>3. FileIsNewest'
  BY StartLoads DEF IInv, FileIsNewest, Newest, Start
<1>4. ResultPerChannel' /\ ResultsAreTrue'
  BY ResultsKept DEF Start
<1> QED  BY <1>1, <1>2, <1>3, <1>4 DEF IInv

LEMMA NextIInv == IInv /\ [Next]_vars => IInv'
<1> SUFFICES ASSUME IInv, [Next]_vars
             PROVE  IInv'
  OBVIOUS
<1>1. ASSUME NEW n \in Notes, Send(n) \/ Step(n)
      PROVE  IInv'
  BY <1>1, SendIInv, InAppIInv, TelegramIInv, OtherIInv, ReturnIInv DEF Step
<1>2. CASE UNCHANGED vars
  BY <1>2, ListsKept, ResultsKept DEF vars, IInv, TypeOK
<1> QED  BY <1>1, <1>2, CrashIInv, StartIInv DEF Next

LEMMA SpecIInv == Spec => []IInv
BY InitIInv, NextIInv, PTL DEF Spec
-----------------------------------------------------------------------------
(* The theorems.                                                           *)

\* The variables keep their types, and no list outgrows its limit.
THEOREM NotificationsTypeCorrect == Spec => []TypeOK
BY SpecIInv, PTL DEF IInv

\* A user is shown the newest notifications, in order (lines 57-62 and 86-88).
THEOREM NewestAreShown == Spec => []ListsAreTheNewest
BY SpecIInv, PTL DEF IInv

\* A success that is reported has happened (lines 40-56).
THEOREM ReportedHasHappened == Spec => []ResultsAreTrue
BY SpecIInv, PTL DEF IInv

\* A process that starts after a write that succeeded shows the lists of the one before
\* it (line 6).
THEOREM InboxSurvives == Spec => OutlivesTheProcess
<1>1. IInv /\ [Next]_vars =>
        [~up /\ up' /\ ~torn => \A u \in Users : inbox'[u] = Newest(pushed[u])]_vars
  <2> SUFFICES ASSUME IInv, Next, ~up, up', ~torn
               PROVE  \A u \in Users : inbox'[u] = Newest(pushed[u])
    BY DEF vars
  <2>1. Start
    BY DEF Next, Step, Send, InApp, Telegram, Other, Return, At, Sending, Crash
  <2> QED  BY <2>1, StartLoads DEF IInv, FileIsNewest
<1> QED  BY <1>1, SpecIInv, PTL DEF Spec, OutlivesTheProcess
=============================================================================
