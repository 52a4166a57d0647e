------------------------------ MODULE MCReports -----------------------------
(***************************************************************************)
(* Instances of Reports for TLC: entries of two lines over all accounts    *)
(* and of three, with doubles that hold the amount or not.                 *)
(***************************************************************************)
EXTENDS Reports

Line(a, dir, amount) == [account |-> a, direction |-> dir, amount |-> amount]

Transfers == {<<Line(a, "debit", amount), Line(b, "credit", amount)>> :
                amount \in {1, 4}, a \in Codes, b \in Codes}

Splits == {<<Line(a, "debit", 1 + amount), Line(bc[1], "credit", 1),
             Line(bc[2], "credit", amount)>> :
             amount \in {2, 4}, a \in Codes, bc \in {p \in Codes \X Codes : p[1] <= p[2]}}

AllPostings == Transfers \cup Splits
=============================================================================
