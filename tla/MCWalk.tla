------------------------------- MODULE MCWalk -------------------------------
(***************************************************************************)
(* Instances of Walk for TLC: all graphs of records on a few keys.         *)
(***************************************************************************)
EXTENDS Walk

Endpoint(i, p, w) == [at |-> i, priority |-> p, weight |-> w]

(* Records without endpoints, with two of any priority, and with three of  *)
(* one priority.                                                           *)
FewEndpoints ==
    {<<>>}
      \union {<<Endpoint(1, p, v), Endpoint(2, q, w)>> : p, q \in {0, 1}, v, w \in {0, 2}}
      \union {<<Endpoint(1, 0, u), Endpoint(2, 0, v), Endpoint(3, 0, w)>> : u, v \in {0, 1}, w \in {0, 2}}
=============================================================================
