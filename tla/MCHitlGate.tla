------------------------------ MODULE MCHitlGate ------------------------------
(* Instances of HitlGate for TLC. *)
EXTENDS HitlGate

CONSTANTS a, b   \* consoles
=============================================================================
