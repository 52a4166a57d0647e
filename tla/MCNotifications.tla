-------------------------- MODULE MCNotifications ---------------------------
(***************************************************************************)
(* An instance of Notifications for TLC: four notifications, three of them *)
(* for one user, over different channels.                                  *)
(***************************************************************************)
EXTENDS Notifications, TLC

CONSTANTS n1, n2, n3, n4

TheUserOf == n1 :> "ann" @@ n2 :> "ann" @@ n3 :> "ann" @@ n4 :> "system"
TheChannelsOf ==
  n1 :> <<"in_app", "telegram">> @@ n2 :> <<"telegram", "in_app">>
    @@ n3 :> <<"sms", "in_app">> @@ n4 :> <<"in_app", "push">>
=============================================================================
