---------------------------- MODULE MCProjection ----------------------------
(***************************************************************************)
(* Instances of Projection for TLC: two entries that book on the same two  *)
(* accounts, the second with two lines on one of them.                     *)
(***************************************************************************)
EXTENDS Projection, TLC

CONSTANTS w1, w2, w3, e1, e2, l1, l2, l3, l4, l5, cash, sales

EntryOfLine == l1 :> e1 @@ l2 :> e1 @@ l3 :> e2 @@ l4 :> e2 @@ l5 :> e2
AccountOfLine == l1 :> cash @@ l2 :> sales @@ l3 :> sales @@ l4 :> cash @@ l5 :> sales

WorkersAreAlike == Permutations(Workers)
=============================================================================
