----------------------------- MODULE MCPipeline -----------------------------
(***************************************************************************)
(* An instance of Pipeline for TLC: two events, whose entries have two     *)
(* lines each on the same accounts.                                        *)
(***************************************************************************)
EXTENDS Pipeline, TLC

CONSTANTS w1, w2, e1, e2, l1, l2, l3, l4, cash, sales

TwoEvents == 1..2
TwoEntries == <<e1, e2>>
TheEntryOfLine == l1 :> e1 @@ l2 :> e1 @@ l3 :> e2 @@ l4 :> e2
TheAccountOf == l1 :> cash @@ l2 :> sales @@ l3 :> cash @@ l4 :> sales

WorkersAreAlike == Permutations(Workers)
=============================================================================
