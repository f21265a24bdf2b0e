-------------------------- MODULE ResourceBarriers --------------------------
(***************************************************************************)
(* The state transitions of src/Source/Gpu/GpuTexture2D.cpp (and, for a    *)
(* resource of one subresource, of GpuBuffer.cpp), as commands of a        *)
(* command list.  A handle on the CPU tracks the states its resource will  *)
(* have once the GPU has run what was recorded; a barrier names the state  *)
(* it finds and the one it leaves, and the GPU takes the first on trust.   *)
(*                                                                         *)
(* States are functions from subresources, which count from 0.             *)
(***************************************************************************)
EXTENDS Integers, Sequences

\* States between which a barrier orders accesses although it changes nothing.
Unordered == {"UNORDERED_ACCESS", "RAYTRACING_ACCELERATION_STRUCTURE"}

\* A barrier covers some subresources: it finds them as in before and leaves them as in
\* after.
Barrier(covered, before, after) ==
    [kind |-> "barrier", covered |-> covered, before |-> before, after |-> after]

\* A command that works on a subresource, which has to be in a state.
Use(sub_resource, state, curr_states) ==
    [kind |-> "use", covered |-> {}, before |-> curr_states, after |-> curr_states,
     sub_resource |-> sub_resource, state |-> state]

\* What the GPU makes of the states of a resource.
AfterCommand(c, states) ==
    [s \in DOMAIN states |-> IF s \in c.covered THEN c.after[s] ELSE states[s]]

All(curr_states, state) == [s \in DOMAIN curr_states |-> state]

\* The loop stops one subresource too early.
SameStateButLast(curr_states) ==
    \A s \in DOMAIN curr_states : s + 1 \in DOMAIN curr_states => curr_states[s] = curr_states[0]

SameState(curr_states) == \A s \in DOMAIN curr_states : curr_states[s] = curr_states[0]

\* Only subresource 0 is looked at.
OnlyOrders(curr_states, target) == curr_states[0] = target /\ target \in Unordered

\* Transition of one subresource.
TransitionSub(curr_states, s, target) ==
    Barrier(IF curr_states[s] # target THEN {s} ELSE {}, curr_states,
            [curr_states EXCEPT ![s] = target])

\* Transition of all: a barrier that only orders, one barrier for all subresources, or one
\* for each that is in another state.
Transition(curr_states, target) ==
    IF OnlyOrders(curr_states, target)
      THEN Barrier({}, curr_states, All(curr_states, target))
    ELSE IF SameState(curr_states)
      THEN Barrier(IF curr_states[0] # target THEN DOMAIN curr_states ELSE {},
                   All(curr_states, curr_states[0]), All(curr_states, target))
      ELSE Barrier({s \in DOMAIN curr_states : curr_states[s] # target},
                   curr_states, All(curr_states, target))

=============================================================================
