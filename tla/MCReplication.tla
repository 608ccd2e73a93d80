--------------------------- MODULE MCReplication ---------------------------
(***************************************************************************)
(* Instances of Replication for TLC: a server and the peer it pulls from,  *)
(* one identity i1 and up to three service keys.                           *)
(***************************************************************************)
EXTENDS Replication

CONSTANTS k1, k2, k3, i1, n1, n2, n3

Keys == {k1, k2, k3, i1}

Order == [k \in PubKey |-> CASE k = k1 -> 1 [] k = k2 -> 2 [] k = k3 -> 3 [] k = i1 -> 4]

(* n1 pulls from n3, which is gone, and from n2, and pushes to n2.         *)
OneWay == [n \in Node |-> IF n = n1 THEN <<n3, n2>> ELSE <<>>]

Live(k, serial, issued, ttl) ==
    [key |-> k, identity |-> i1, not_after |-> U64Max, delegated_by |-> i1,
     serial |-> serial, issued_at |-> issued, ttl |-> ttl, body |-> "live",
     endpoints |-> 1, successor |-> NoKey, signed_by |-> k]

Revoked(k, serial, issued) ==
    [Live(k, serial, issued, 1) EXCEPT !.body = "revoked", !.endpoints = 0, !.signed_by = i1]

Superseded(k, serial, issued, next) ==
    [Revoked(k, serial, issued) EXCEPT !.body = "superseded", !.successor = next]

(* The key is superseded on one server and revoked on another.             *)
TwoRetirements == {Live(k1, 1, 0, 2), Superseded(k1, 2, 1, k2), Revoked(k1, 2, 1)}

(* A refresh with a shorter time to live than the record it replaces.      *)
ShorterLived == {Live(k1, 1, 0, 3), Live(k1, 2, 0, 1)}

(* Three keys, one refreshed, one retired and one that lapses: more than a *)
(* batch holds, but never a batch of one second with more to come.         *)
Mixed == {Live(k1, 1, 0, 3), Revoked(k2, 1, 1), Live(k3, 1, 1, 1), Live(k1, 2, 2, 3)}

(* A key refreshed and another retired in the same second.                 *)
TwoKeys == {Live(k1, 1, 0, 2), Live(k1, 2, 1, 2), Revoked(k2, 1, 1)}

(* Retirements of two keys in one second, and one of a third key later.    *)
OneSecond == {Revoked(k1, 1, 0), Revoked(k2, 1, 0), Revoked(k3, 1, 1)}
=============================================================================
