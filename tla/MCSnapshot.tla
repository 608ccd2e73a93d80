----------------------------- MODULE MCSnapshot -----------------------------
(***************************************************************************)
(* Instances of Snapshot for TLC: long and short versions alternate, so an *)
(* older image can be longer than the one written over it.                 *)
(***************************************************************************)
EXTENDS Snapshot

Sizes == [v \in Version |-> 2 - (v % 2)]
=============================================================================
