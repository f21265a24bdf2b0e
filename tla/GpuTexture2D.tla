---------------------------- MODULE GpuTexture2D ----------------------------
(***************************************************************************)
(* One texture (src/Source/Gpu/GpuTexture2D.cpp): the states its handle    *)
(* tracks on the CPU while commands are recorded, the states its           *)
(* subresources really have on the GPU, and the commands in between, which *)
(* one queue runs in order.                                                *)
(***************************************************************************)
EXTENDS ResourceBarriers

CONSTANTS
    NumSubResources,    \* mip levels * planes
    States,
    CommandBound        \* bounds the commands that wait for the GPU

ASSUME TextureAssumption ==
    /\ NumSubResources \in Nat \ {0}
    /\ {"COMMON", "COPY_DEST", "COPY_SOURCE"} \subseteq States
    /\ CommandBound \in Nat

VARIABLES
    curr_states,    \* as the handle tracks them, Empty for a handle without a resource
    gpu_states,     \* as they are
    commands        \* recorded and not yet run

vars == <<curr_states, gpu_states, commands>>

SubResources == 0 .. NumSubResources - 1
Empty == <<>>

Init ==
    /\ curr_states = Empty
    /\ gpu_states = Empty
    /\ commands = <<>>

\* The constructors: a resource is made in some state or comes in one.
Create(init_state) ==
    /\ curr_states = Empty
    /\ curr_states' = [s \in SubResources |-> init_state]
    /\ gpu_states' = [s \in SubResources |-> init_state]
    /\ UNCHANGED commands

\* Reset, and assigning another texture. The caller lets the GPU finish first.
Reset ==
    /\ curr_states # Empty
    /\ commands = <<>>
    /\ curr_states' = Empty
    /\ gpu_states' = Empty
    /\ UNCHANGED commands

Room == Len(commands) < CommandBound

\* What Transition relies on and does not check: with subresources in different states, it
\* leaves out their barriers if subresource 0 alone is in the target state already. Callers
\* are taken to respect it, as all of the program do; what becomes of others is not modelled.
ShortcutSafe(target) ==
    curr_states[0] = target /\ target \in Unordered => \A s \in SubResources : curr_states[s] = target

TransitionOne(s, target) ==
    /\ curr_states # Empty /\ Room
    /\ LET barrier == TransitionSub(curr_states, s, target)
       IN  /\ commands' = Append(commands, barrier)
           /\ curr_states' = barrier.after
    /\ UNCHANGED gpu_states

TransitionAll(target) ==
    /\ curr_states # Empty /\ Room
    /\ ShortcutSafe(target)
    /\ LET barrier == Transition(curr_states, target)
       IN  /\ commands' = Append(commands, barrier)
           /\ curr_states' = barrier.after
    /\ UNCHANGED gpu_states

\* A copy out of or into a subresource, between a transition of all subresources and one
\* back to what subresource 0 was in.
Copy(s, state) ==
    /\ curr_states # Empty /\ Room
    /\ ShortcutSafe(state)
    /\ LET there == Transition(curr_states, state)
           copy == Use(s, state, there.after)
           back == Transition(there.after, curr_states[0])
       IN  /\ commands' = Append(Append(Append(commands, there), copy), back)
           /\ curr_states' = back.after
    /\ UNCHANGED gpu_states

Upload(s) == Copy(s, "COPY_DEST")
Readback(s) == Copy(s, "COMMON")
CopyFrom(s) == Copy(s, "COPY_DEST")
CopyFromOther(s) == Copy(s, "COPY_SOURCE")

GpuRuns ==
    /\ commands # <<>>
    /\ gpu_states' = AfterCommand(Head(commands), gpu_states)
    /\ commands' = Tail(commands)
    /\ UNCHANGED curr_states

Next ==
    \/ \E state \in States : Create(state) \/ TransitionAll(state)
    \/ Reset
    \/ \E s \in SubResources :
         \/ \E state \in States : TransitionOne(s, state)
         \/ Upload(s) \/ Readback(s) \/ CopyFrom(s) \/ CopyFromOther(s)
    \/ GpuRuns

Spec == Init /\ [][Next]_vars

TextureStates == [SubResources -> States]
BarrierCommands ==
    [kind : {"barrier"}, covered : SUBSET SubResources, before : TextureStates, after : TextureStates]
UseCommands ==
    [kind : {"use"}, covered : {{}}, before : TextureStates, after : TextureStates,
     sub_resource : SubResources, state : States]

TypeOK ==
    /\ curr_states \in TextureStates \cup {Empty}
    /\ gpu_states \in TextureStates \cup {Empty}
    /\ commands \in Seq(BarrierCommands \cup UseCommands)

\* When the GPU reaches a barrier, its subresources are in the states that the CPU named
\* when it recorded the barrier, whatever such a caller recorded before and is still to run.
BarriersMatch ==
    commands # <<>> =>
        \A s \in Head(commands).covered : gpu_states[s] = Head(commands).before[s]

\* When the GPU reaches a copy, its subresource is in the state the copy needs, also if the
\* subresources were in different states before.
CopiesMatch ==
    commands # <<>> /\ Head(commands).kind = "use" =>
        gpu_states[Head(commands).sub_resource] = Head(commands).state

\* The handle has kept track for every command that it recorded, however far the GPU is
\* behind.
CommandsMatch == BarriersMatch /\ CopiesMatch

\* Once the GPU has run everything, the handle knows the states of its texture.
TrackedWhenIdle == commands = <<>> => curr_states = gpu_states

=============================================================================
