---------------------------- MODULE MCFrameStream ----------------------------
(* The instances of FrameStream that TLC checks. *)
EXTENDS FrameStream
=============================================================================
