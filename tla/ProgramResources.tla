-------------------------- MODULE ProgramResources --------------------------
(***************************************************************************)
(* The program with everything its command lists refer to: the states of   *)
(* its textures, the descriptors of its shaders and their constants.  The  *)
(* CPU writes all three while it records; the GPU needs them later, and on *)
(* two queues.                                                             *)
(***************************************************************************)
EXTENDS ResourceStates, ConstantBuffers

resource_vars == <<vars, state_vars, descriptors, constant_vars>>

ProgramInit ==
    /\ ResourceInit
    /\ BindingInit
    /\ ConstantInit

ProgramNext ==
    /\ ResourceNext
    /\ BindingStep
    /\ ConstantStep

ProgramSpec == ProgramInit /\ [][ProgramNext]_resource_vars

=============================================================================
