------------------------------ MODULE MCStore ------------------------------
(***************************************************************************)
(* Instances of Store for TLC: one service key, one or two identities that *)
(* claim it, and the records they may present.  k2 is only ever named as a *)
(* successor.                                                              *)
(***************************************************************************)
EXTENDS Store

CONSTANTS k1, k2, i1, i2

Keys == {k1, k2, i1, i2}

Signed(i, body, serial, issued, ttl, until) ==
    [key |-> k1, identity |-> i, not_after |-> until, delegated_by |-> i,
     serial |-> serial, issued_at |-> issued, ttl |-> ttl, body |-> body,
     endpoints |-> IF body = "live" THEN 1 ELSE 0, successor |-> NoKey,
     signed_by |-> IF body = "live" THEN k1 ELSE i]

(* A live record, its refresh and a supersede under a delegation that      *)
(* lapses, and a revocation whose delegation already has.                  *)
Claims(i) ==
    {Signed(i, "live", 1, 0, 2, 99),
     Signed(i, "live", 2, 1, 2, 2),
     [Signed(i, "superseded", 1, 1, 3, 2) EXCEPT !.successor = k2],
     Signed(i, "revoked", 1, 2, 3, 1)}

(* A retirement the service key signed for itself: refused by verify.      *)
SelfRetired(i) == [Signed(i, "revoked", 3, 0, 3, 99) EXCEPT !.signed_by = k1]

(* The second identity has no delegation that lapses.                      *)
Rivals == Claims(i1) \union {Signed(i2, "live", 2, 0, 2, 99), Signed(i2, "revoked", 1, 1, 3, 99)}

TwoIdentities == Claims(i1) \union Claims(i2) \union {SelfRetired(i1)}
=============================================================================
