------------------------------- MODULE Merge -------------------------------
(***************************************************************************)
(* The decision Store::put (crates/sqnsd/src/store.rs) makes about a       *)
(* record: the checks on the record alone, and those against what the      *)
(* store already holds.                                                    *)
(***************************************************************************)
EXTENDS Records

retired(r) == r # NoRecord /\ is_terminal(r)

(* Mutant: a lapsed delegation also bars a retirement.                     *)
admissible_lapsed(r, t) ==
    /\ validate(r)
    /\ verify(r)
    /\ r.issued_at <= t + MaxClockSkew
    /\ ~is_expired(r, t)
    /\ ~delegation_expired(r, t)

(* The checks made before any lock is taken, at the time t.                *)
admissible(r, t) ==
    /\ validate(r)
    /\ verify(r)
    /\ r.issued_at <= t + MaxClockSkew
    /\ ~is_expired(r, t)
    /\ is_terminal(r) \/ ~delegation_expired(r, t)

(* Mutant: the binding is not looked at.                                   *)
mergeable_unbound(r, held, bound) ==
    /\ ~retired(held)
    /\ held # NoRecord => supersedes(r, held)

(* Mutant: whatever comes last is kept.                                    *)
mergeable_latest(r, held, bound) ==
    /\ ~retired(held)
    /\ bound \in {NoKey, r.identity}

(* The checks made under the `records' lock against what is held.          *)
mergeable(r, held, bound) ==
    /\ ~retired(held)
    /\ bound \in {NoKey, r.identity}
    /\ held # NoRecord => supersedes(r, held)
=============================================================================
