----------------------------- MODULE MCResolver -----------------------------
(***************************************************************************)
(* Instances of Resolver for TLC.                                          *)
(***************************************************************************)
EXTENDS Resolver, TLC

(* A record, its refresh, and the key's retirement, from each identity.    *)
(* The refresh outlives its delegation.                                    *)
Few ==
    {[identity |-> i, terminal |-> FALSE, serial |-> 1, expires_at |-> 1, not_after |-> 2]
        : i \in Identity}
    \union
    {[identity |-> i, terminal |-> FALSE, serial |-> 2, expires_at |-> 3, not_after |-> 2]
        : i \in Identity}
    \union
    {[identity |-> i, terminal |-> TRUE, serial |-> 1, expires_at |-> 1, not_after |-> 2]
        : i \in Identity}

(* Callers and identities are alike.                                       *)
Symmetry == Permutations(Lookup) \union Permutations(Identity)
=============================================================================
