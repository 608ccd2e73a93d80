------------------------------- MODULE MCDial -------------------------------
(***************************************************************************)
(* The instance of Dial for TLC: every answer of up to three addresses.    *)
(***************************************************************************)
EXTENDS Dial
=============================================================================
