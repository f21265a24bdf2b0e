---------------------- MODULE MCGpuDescriptorAllocator ----------------------
(* The instances of GpuDescriptorAllocator that TLC checks. *)
EXTENDS GpuDescriptorAllocator
=============================================================================
