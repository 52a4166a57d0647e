---------------------------- MODULE MCLedgerReads ---------------------------
(***************************************************************************)
(* An instance of LedgerReads for TLC: two entries of one tenant, an entry *)
(* of another, lists of one row, every request of the first tenant, and    *)
(* the second's for an entry of the first and for its own list.            *)
(***************************************************************************)
EXTENDS LedgerReads, TLC

CONSTANTS c1, c2, k1, k2, n1, n2, n3, a, b

TheTenantOf == n1 :> a @@ n2 :> a @@ n3 :> b
TheCreatedAt == n1 :> 2 @@ n2 :> 1 @@ n3 :> 1
TheProjectedAt == n1 :> 1 @@ n2 :> 1 @@ n3 :> 1

Ask(kind, tenant, entry) ==
  [kind |-> kind, tenant |-> tenant, entry |-> entry, limit |-> 1]

TheRequests ==
  {Ask("post", a, n2), Ask("post", a, n1), Ask("post", b, n3),
   Ask("entry", b, n1), Ask("entries", b, n3)}
    \cup {Ask(kind, a, n1) : kind \in OfJournal \cup OfReadModel}

ClientsAndConnectionsAreAlike == Permutations(Clients) \cup Permutations(Connections)
=============================================================================
