------------------------------ MODULE MCRetire ------------------------------
(***************************************************************************)
(* Instances of Retire for TLC.                                            *)
(***************************************************************************)
EXTENDS Retire, TLC

(* Invocations are alike.  Keys are not: they are listed in order.         *)
Symmetry == Permutations(Command)
=============================================================================
