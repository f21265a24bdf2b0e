---------------------------- MODULE MCMotionToGo ----------------------------
(* The instances of MotionToGo that TLC checks: three slots as in the code. *)
EXTENDS MotionToGo
=============================================================================
