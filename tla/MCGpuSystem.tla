---------------------------- MODULE MCGpuSystem ----------------------------
(* The instances of GpuSystem that TLC checks: two or three slots, and      *)
(* lists whose content does not matter.                                     *)
EXTENDS GpuSystem
=============================================================================
