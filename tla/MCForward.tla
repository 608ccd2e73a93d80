----------------------------- MODULE MCForward -----------------------------
(***************************************************************************)
(* Instances of Forward for TLC.                                           *)
(***************************************************************************)
EXTENDS Forward

CONSTANTS a, b, c, i, j, l1, l2

(* a and b ask each other, and nobody holds the key.                       *)
Mutual == [s \in Server |-> IF s = a THEN <<b>> ELSE <<a>>]

(* A leaf a asks b, who asks the root c, and then c itself.                *)
Detour == [s \in Server |-> CASE s = a -> <<b, c>> [] s = b -> <<c>> [] s = c -> <<>>]

(* A lookup may be sent to any server; or one enters at the leaf and the   *)
(* other further up.                                                       *)
Anywhere == [l \in Client |-> Server]
LeafOrAbove == [l \in Client |-> IF l = l1 THEN {a} ELSE {b, c}]

Nowhere == [s \in Server |-> None]
AtRoot == [s \in Server |-> IF s = c THEN i ELSE None]
=============================================================================
