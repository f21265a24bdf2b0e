--------------------------- MODULE ResourceStates ---------------------------
(***************************************************************************)
(* The program and the states of its textures: what the command lists of   *)
(* MotionToGo.tla record, and both queues running them command by command. *)
(* The CPU tracks the states in the order it records the lists; whether    *)
(* the GPU finds them so depends on the waits between the two queues.      *)
(* An NV12 texture has two subresources, its planes.                       *)
(***************************************************************************)
EXTENDS MotionToGo, ResourceBarriers

VARIABLES
    curr_states,    \* per texture, its states as its handle tracks them
    gpu_states,     \* per texture, its states as they are
    lists           \* per queue and list on it, the commands that are still to run

state_vars == <<curr_states, gpu_states, lists>>

\* The textures of a slot, with the one that the video decoder hands out for it (and takes
\* back only when the copy has run), and the table of random numbers there is one of. "mv"
\* stands for the motion vectors and for their neighbour-max, which every pass takes along.
TextureOf(name, slot) == <<name, slot>>
RandomTable == TextureOf("random", 0)
Textures == (((TexNames \ {"memory"}) \cup {"decoded"}) \X Gpu!Slots) \cup {RandomTable}

IsNv12(t) == t[1] \in {"nv12", "scaled", "decoded"} \cup (IF Video THEN {"frame"} ELSE {})

\* A new texture.
NewStates(t) == [s \in (IF IsNv12(t) THEN {0, 1} ELSE {0}) |-> "COMMON"]

(***************************************************************************)
(* What a list records, as a script of transitions and uses.               *)
(***************************************************************************)

To(t, state) == [act |-> "to", tex |-> t, state |-> state]
Using(t, sub_resource, state) ==
    [act |-> "use", tex |-> t, sub_resource |-> sub_resource, state |-> state]

AllTo(views, state) == [n \in DOMAIN views |-> To(views[n][1], state)]
AllUsed(views, state) == [n \in DOMAIN views |-> Using(views[n][1], views[n][2], state)]

DispatchLeavesUav(srvs, uavs) ==
    AllTo(srvs, "COMMON") \o AllTo(uavs, "UNORDERED_ACCESS")
    \o AllUsed(srvs, "COMMON") \o AllUsed(uavs, "UNORDERED_ACCESS")

\* RunComputeShader, for the subresources that are read and the ones that are written.
Dispatch(srvs, uavs) ==
    AllTo(srvs, "COMMON") \o AllTo(uavs, "UNORDERED_ACCESS")
    \o AllUsed(srvs, "COMMON") \o AllUsed(uavs, "UNORDERED_ACCESS")
    \o AllTo(uavs, "COMMON")

\* GpuTexture2D::CopyFrom and Upload, for one plane.
CopyScript(dst, src, p) ==
    <<To(src, "COPY_SOURCE"), To(dst, "COPY_DEST"),
      Using(src, p, "COPY_SOURCE"), Using(dst, p, "COPY_DEST"),
      To(src, curr_states[src][0]), To(dst, curr_states[dst][0])>>
UploadScript(dst) ==
    <<To(dst, "COPY_DEST"), Using(dst, 0, "COPY_DEST"), To(dst, curr_states[dst][0])>>
ReadbackScript(src) ==
    <<To(src, "COMMON"), Using(src, 0, "COMMON"), To(src, curr_states[src][0])>>

\* EstimateMotionVectors
EstimateScript(ref, input_frame, output) ==
    <<To(ref, "VIDEO_ENCODE_READ"), To(input_frame, "VIDEO_ENCODE_READ"),
      Using(input_frame, 0, "VIDEO_ENCODE_READ"), Using(ref, 0, "VIDEO_ENCODE_READ"),
      To(output, "VIDEO_ENCODE_WRITE"), Using(output, 0, "VIDEO_ENCODE_WRITE"),
      To(ref, "COMMON"), To(input_frame, "COMMON"), To(output, "COMMON")>>

Script(job) ==
    LET T(name) == TextureOf(name, job.slot)
    IN  CASE job.op = "read" ->
               IF Video THEN CopyScript(T("frame"), T("decoded"), job.plane) ELSE UploadScript(T("frame"))
          [] job.op = "copy_in" ->
               CopyScript(T(IF Video THEN "nv12" ELSE "rgb"), T("frame"), job.plane)
          [] job.op = "to_rgb" ->
               Dispatch(<< <<T("nv12"), 0>>, <<T("nv12"), 1>> >>, << <<T("rgb"), 0>> >>)
          [] job.op = "to_nv12" ->
               Dispatch(<< <<T("rgb"), 0>> >>, << <<T("scaled"), 0>>, <<T("scaled"), 1>> >>)
          [] job.op = "copy_out" -> CopyScript(T("blurred"), T("rgb"), 0)
          [] job.op = "estimate" ->
               EstimateScript(TextureOf("scaled", Gpu!PrevSlot(job.slot)), T("scaled"), T("raw_mv"))
          [] job.op = "propagate" -> Dispatch(<< <<T("raw_mv"), 0>> >>, << <<T("mv"), 0>> >>)
          [] job.op = "gather" ->
               Dispatch(<< <<T("rgb"), 0>>, <<T("mv"), 0>>, <<RandomTable, 0>> >>,
                        << <<T("blurred"), 0>> >>)
          [] job.op = "overlay" -> Dispatch(<< <<T("mv"), 0>> >>, << <<T("blurred"), 0>> >>)
          [] job.op = "readback" -> ReadbackScript(T("blurred"))

\* Recording an act adds its command and, for a transition, changes the tracked states.
RecordAct(act, recorded) ==
    LET states == recorded.states[act.tex]
        c == IF act.act = "to" THEN Transition(states, act.state)
                               ELSE Use(act.sub_resource, act.state, states)
    IN  [commands |-> Append(recorded.commands, [tex |-> act.tex, command |-> c]),
         states |-> [recorded.states EXCEPT ![act.tex] = c.after]]

\* What is recorded after the first n acts of a script.
Recording(script) ==
    LET recorded[n \in 0 .. Len(script)] ==
            IF n = 0 THEN [commands |-> <<>>, states |-> curr_states]
                     ELSE RecordAct(script[n], recorded[n - 1])
    IN  recorded

Recorded(job) == Recording(Script(job))[Len(Script(job))]

(***************************************************************************)
(* The program's steps.                                                    *)
(***************************************************************************)

ResourceInit ==
    /\ Init
    /\ curr_states = [t \in Textures |-> NewStates(t)]
    /\ gpu_states = curr_states
    /\ lists = [q \in Gpu!CmdQueues |-> <<>>]

HasCommands(entry) == entry.kind = "exec" /\ entry.job # NoJob

\* The job of the list that a step of the CPU hands to a queue, if it does. It submits one
\* at most.
Submitted(q) ==
    {queue'[q][n].job : n \in {k \in Len(queue[q]) + 1 .. Len(queue'[q]) : HasCommands(queue'[q][k])}}

\* A frame of a video comes in a texture of the decoder and is copied into a new texture.
NewTextures ==
    IF Video /\ curr_frame' # curr_frame /\ GivesTexture(curr_frame')
      THEN {TextureOf("decoded", Slot), TextureOf("frame", Slot)}
      ELSE {}

Records(q, job) ==
    /\ lists' = [lists EXCEPT ![q] = Append(@, Recorded(job).commands)]
    /\ curr_states' = Recorded(job).states
    /\ UNCHANGED gpu_states

RecordsNothing ==
    /\ UNCHANGED lists
    /\ curr_states' = [t \in Textures |-> IF t \in NewTextures THEN NewStates(t) ELSE curr_states[t]]
    /\ gpu_states' = [t \in Textures |-> IF t \in NewTextures THEN NewStates(t) ELSE gpu_states[t]]

CpuStep ==
    /\ Main
    /\ \/ \E q \in Gpu!CmdQueues : \E job \in Submitted(q) : Records(q, job)
       \/ (\A q \in Gpu!CmdQueues : Submitted(q) = {}) /\ RecordsNothing

SavingStep ==
    /\ \E k \in DOMAIN writer : WriteFile(k)
    /\ UNCHANGED state_vars

\* A queue is in the list at its head until the last command has run.
Executing(q) == queue[q] # <<>> /\ HasCommands(Head(queue[q]))

GpuRunsCommand(q) ==
    /\ Executing(q) /\ Head(lists[q]) # <<>>
    /\ LET c == Head(Head(lists[q]))
       IN  gpu_states' = [gpu_states EXCEPT ![c.tex] = AfterCommand(c.command, @)]
    /\ lists' = [lists EXCEPT ![q][1] = Tail(@)]
    /\ UNCHANGED <<vars, curr_states>>

GpuRunsEntry(q) ==
    /\ Executing(q) => Head(lists[q]) = <<>>
    /\ GpuRuns(q)
    /\ lists' = IF Executing(q) THEN [lists EXCEPT ![q] = Tail(@)] ELSE lists
    /\ UNCHANGED <<curr_states, gpu_states>>

ResourceNext ==
    \/ CpuStep
    \/ SavingStep
    \/ \E q \in Gpu!CmdQueues : GpuRunsCommand(q) \/ GpuRunsEntry(q)

(***************************************************************************)
(* Properties                                                              *)
(***************************************************************************)

AtHead(q) == Head(Head(lists[q]))
Reached(q, kind) == Executing(q) /\ Head(lists[q]) # <<>> /\ AtHead(q).command.kind = kind

\* A barrier finds the states that the CPU named when it recorded it.
BarriersFindTheirStates ==
    \A q \in Gpu!CmdQueues : Reached(q, "barrier") =>
        LET c == AtHead(q)
        IN  \A s \in c.command.covered : gpu_states[c.tex][s] = c.command.before[s]

\* A shader, a copy and the motion estimator find their textures in the states they need.
UsesFindTheirStates ==
    \A q \in Gpu!CmdQueues : Reached(q, "use") =>
        LET c == AtHead(q)
        IN  gpu_states[c.tex][c.command.sub_resource] = c.command.state

\* When the GPU reaches a command, the texture is as the CPU took it to be when it recorded
\* the command, whatever it has recorded since and whichever queue is ahead.
CommandsFindTheirStates == BarriersFindTheirStates /\ UsesFindTheirStates

\* The two queues never work on one texture at a time.
QueuesShareNoTexture ==
    Executing(Compute) /\ Executing(VideoEncode) =>
        LET Touched(q) == {Head(lists[q])[n].tex : n \in DOMAIN Head(lists[q])}
        IN  Touched(Compute) \cap Touched(VideoEncode) = {}

\* A list of the video queue can name no state of the compute queue.
VideoListStates ==
    \A n \in DOMAIN lists[VideoEncode] : \A k \in DOMAIN lists[VideoEncode][n] :
        LET c == lists[VideoEncode][n][k].command
        IN  \A s \in c.covered :
              {c.before[s], c.after[s]} \subseteq
                  {"COMMON", "VIDEO_ENCODE_READ", "VIDEO_ENCODE_WRITE"}

\* The video queue takes no texture from the compute queue and leaves none behind in a way
\* that only one of them can do with: they never touch one texture at a time, and what the
\* compute queue has left a texture in is a state that a list of the video queue may name.
QueuesKeepApart == QueuesShareNoTexture /\ VideoListStates

=============================================================================
