----------------------------- MODULE MCPosting ------------------------------
(***************************************************************************)
(* Instances of Posting for TLC: two calls with one slot, another tenant's *)
(* call with the same key text, and calls that cannot succeed.             *)
(***************************************************************************)
EXTENDS Posting, TLC

CONSTANTS first, retry, other, crooked, stranger

Side(account, amount, direction) ==
  [account |-> account, amount |-> amount, direction |-> direction, currency |-> "USD"]
D(account, amount) == Side(account, amount, "debit")
C(account, amount) == Side(account, amount, "credit")

Dto(tenant, key, ls) == [tenant |-> tenant, key |-> key, lines |-> ls]

\* first and retry are one client's call and its retry (with other amounts, which
\* the server does not compare); other is another tenant that chose the same key;
\* crooked does not balance, stranger names an account its tenant has not.
Calls == first :> Dto("acme", "k", <<D("1000", 2), C("4000", 2)>>)
      @@ retry :> Dto("acme", "k", <<D("1000", 3), C("4000", 1), C("4100", 2)>>)
      @@ other :> Dto("bolt", "k", <<D("1000", 1), C("4000", 1)>>)
      @@ crooked :> Dto("acme", "m", <<D("1000", 2), C("4000", 1)>>)
      @@ stranger :> Dto("acme", "k", <<D("1000", 1), C("9999", 1)>>)

Chart == {<<"acme", "1000">>, <<"acme", "4000">>, <<"acme", "4100">>,
          <<"bolt", "1000">>, <<"bolt", "4000">>}
=============================================================================
