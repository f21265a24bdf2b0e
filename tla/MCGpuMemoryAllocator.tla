------------------------ MODULE MCGpuMemoryAllocator ------------------------
(* The instances of GpuMemoryAllocator that TLC checks. *)
EXTENDS GpuMemoryAllocator
=============================================================================
