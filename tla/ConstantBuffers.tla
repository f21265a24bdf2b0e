--------------------------- MODULE ConstantBuffers ---------------------------
(***************************************************************************)
(* The constants of the compute shaders (GpuBufferHelper.hpp).  A shader   *)
(* has one ConstantBuffer for all slots: the CPU changes a record of its   *)
(* own, staging_, and UploadToGpu copies the whole of it into memory that  *)
(* stays mapped, while dispatches that will read that memory wait in the   *)
(* queues.                                                                 *)
(***************************************************************************)
EXTENDS ShaderBindings

VARIABLES
    staging,        \* per shader, the record that the CPU changes
    mapped          \* per shader, the memory that the GPU reads

constant_vars == <<staging, mapped>>

\* What AddFrame fills in for the first frame (sizes, radii, numbers of samples) is one
\* field. Only propagate has a timespan, in half_exposure_x_framerate.
Zeroed == [shader \in ShaderSet |-> [sizes |-> FALSE, timespan |-> 0]]

ConstantInit ==
    /\ staging = Zeroed
    /\ mapped = Zeroed

UploadToGpu(shaders) ==
    mapped' = [shader \in ShaderSet |->
                 IF shader \in shaders THEN staging'[shader] ELSE mapped[shader]]

WritesConstants == pc \in {"add_frame", "timespan"} /\ pc' # pc

\* propagate is uploaded later, with its timespan.
AddFrameConstants ==
    /\ pc = "add_frame" /\ WritesConstants
    /\ IF first_frame'
         THEN /\ staging' = [shader \in ShaderSet |-> [staging[shader] EXCEPT !.sizes = TRUE]]
              /\ UploadToGpu(ShaderSet \ {"propagate"})
         ELSE UNCHANGED constant_vars

TimespanConstants ==
    /\ pc = "timespan" /\ WritesConstants
    /\ staging' = [staging EXCEPT !["propagate"].timespan = cb']
    /\ UploadToGpu({"propagate"})

\* What a step of the program does to the constants.
ConstantStep ==
    \/ AddFrameConstants
    \/ TimespanConstants
    \/ ~WritesConstants /\ UNCHANGED constant_vars

(***************************************************************************)
(* Properties                                                              *)
(***************************************************************************)

\* When the GPU reaches a dispatch, its constants have been uploaded, those of
\* propagate too, which AddFrame leaves for PropagateMotionBlur.
ConstantsReady ==
    \A n \in Dispatches :
        LET shader == queue[Compute][n].job.op
        IN  n = 1 => /\ mapped[shader].sizes
                     /\ shader = "propagate" => mapped[shader].timespan # 0

\* When the GPU reaches a dispatch, the CPU has written all that its shader reads besides
\* the textures themselves, and the views are still those of its slot.
DispatchesFindTheirInputs == ShadersFindTheirTextures /\ ConstantsReady

=============================================================================
