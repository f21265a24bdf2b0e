------------------------------ MODULE MotionToGo ------------------------------
(***************************************************************************)
(* The program: main's loop (src/Source/MotionToGo.cpp), the readers, the  *)
(* motion blur generator and the threads that write the files, on top of   *)
(* GpuSystem.  A texture holds the symbol of its content and a command     *)
(* list is a job that computes one texture from others when the GPU        *)
(* reaches it, so a list that runs too early or on a texture that was      *)
(* overwritten gives a wrong symbol in a file.                             *)
(***************************************************************************)
EXTENDS Integers, Sequences

CONSTANTS
    FrameCount, NoJob, RewindAllowed, CallsFail, FenceBound, PendingBound,
    Sources,        \* subset of {"images", "video"}
    FrameNums,      \* how many frames a source may hold
    Unreadables,    \* which of them ReadFrame may count and not give: sets of their numbers
    VariableRate    \* do the frames of a video differ in timespan?

VARIABLES device, frame_index, fence_vals, fence, event, queue, pool, open, call, wait_queue

VARIABLES
    input,          \* the command line, -L, and what is at the input: its kind and frames
    pc,             \* the next operation of the CPU thread
    i,              \* main's loop counter
    total_frames,   \* main's, 0 while unknown
    plane,          \* the plane a loop over CopyFrom has reached
    curr_frame,     \* the reader's: frames read so far
    first_frame,    \* AddFrame's
    created,        \* frames_ hold textures
    fence_value,    \* AddFrame's, of the last submission
    cb,             \* timespan in neighbor_max_cs_.cb as the GPU sees it
    tex,            \* per name of a texture and slot, its content
    saved,          \* contents handed to saving threads, in order
    writer,         \* per saving thread: "running", "ready" or "erased"
    file            \* per frame, what its file holds

\* What a command list does: the operation, the slot of its textures, and the plane and
\* the frame where they matter.
Jobs ==
    [op : {"read"}, slot : 0 .. FrameCount - 1, plane : {0, 1}, frame : Nat]
    \cup [op : {"copy_in"}, slot : 0 .. FrameCount - 1, plane : {0, 1}]
    \cup [op : {"to_rgb", "to_nv12", "copy_out", "estimate", "propagate", "gather", "overlay",
                "readback"},
          slot : 0 .. FrameCount - 1]

Gpu == INSTANCE GpuSystem

ASSUME ProgramAssumption ==
    /\ Gpu!GpuAssumption
    /\ Sources \subseteq {"images", "video"}
    /\ FrameNums \subseteq Nat
    /\ Unreadables \subseteq SUBSET Nat
    /\ VariableRate \in BOOLEAN

main_vars == <<input, i, total_frames, plane, curr_frame, first_frame, created, fence_value, cb,
               saved, writer, file>>
gpu_vars == <<device, frame_index, fence_vals, fence, event, queue, pool, open, call, wait_queue>>
vars == <<gpu_vars, main_vars, pc, tex>>

Video == input.source = "video"
LastPlane == IF Video THEN 1 ELSE 0
Slot == frame_index

Stream == INSTANCE FrameStream WITH Depth <- FrameCount, taken <- curr_frame

\* The content of a texture is the sequence of what went into it: numbers of frames
\* and, once a motion vector field is scaled, the timespan it was scaled by. What the
\* reader gives holds one number per plane.
TexNames == {"frame", "nv12", "rgb", "scaled", "raw_mv", "mv", "blurred", "memory"}
Nothing == <<>>
Blank == [p \in 1 .. LastPlane + 1 |-> 0]

Init ==
    /\ Gpu!Init
    /\ input \in Stream!Inputs
    /\ input.unreadable \subseteq 1 .. input.frames
    /\ pc = "random_tex"
    /\ i = 0
    /\ total_frames = 0
    /\ plane = 0
    /\ curr_frame = 0
    /\ first_frame = FALSE
    /\ created = FALSE
    /\ fence_value = 0
    /\ cb = 0
    /\ tex = [name \in TexNames |-> [s \in Gpu!Slots |->
                IF name \in {"frame", "nv12"} THEN Blank ELSE Nothing]]
    /\ saved = <<>>
    /\ writer = <<>>
    /\ file = [k \in 1 .. input.frames |-> Nothing]

Goto(label) == pc' = label

(***************************************************************************)
(* Reader::ReadFrame.  A video frame gets new textures at once, while the  *)
(* GPU may still read the old ones; an image is uploaded into the texture  *)
(* of the slot.  An image that cannot be decoded, and a sample whose       *)
(* buffer is no texture of the GPU, counts as a frame and leaves the slot  *)
(* as it is.                                                               *)
(***************************************************************************)

Compute == Gpu!Compute
VideoEncode == Gpu!VideoEncode
NoWait == Gpu!MaxFenceValue
Idle == call = "idle"

\* The operations that submit a list open one first, unless ExecuteAndReset left one.
Submits(q) ==
    pc \in IF q = VideoEncode
             THEN {"estimate"}
             ELSE {"random_tex", "upload", "mf_copy", "copy_in", "to_rgb", "to_nv12", "copy_out", "propagate",
                   "gather", "overlay", "readback"}

CreateCommandList(q) ==
    /\ Submits(q)
    /\ Gpu!CreateCommandList(q)
    /\ UNCHANGED <<main_vars, pc, tex>>

GivesTexture(n) == n \notin input.unreadable

ReadFrame ==
    /\ pc = "loop" /\ Idle
    /\ total_frames = 0
    /\ IF curr_frame < input.frames
         THEN /\ curr_frame' = curr_frame + 1
              /\ plane' = 0
              /\ IF GivesTexture(curr_frame')
                   THEN /\ Goto(IF Video THEN "mf_copy" ELSE "upload")
                        /\ tex' = IF Video THEN [tex EXCEPT !["frame"][Slot] = Blank] ELSE tex
                   ELSE Goto("add_frame") /\ UNCHANGED tex
              /\ UNCHANGED total_frames
         ELSE /\ total_frames' = i
              /\ Goto("after")
              /\ UNCHANGED <<curr_frame, plane, tex>>
    /\ UNCHANGED <<gpu_vars, input, i, first_frame, created, fence_value, cb, saved, writer, file>>

SkipRead ==
    /\ pc = "loop" /\ total_frames # 0
    /\ Goto("after")
    /\ UNCHANGED <<gpu_vars, main_vars, tex>>

Job(op) == [op |-> op, slot |-> Slot]
PlaneJob(op) == [op |-> op, slot |-> Slot, plane |-> plane]
ReadJob == [op |-> "read", slot |-> Slot, plane |-> plane, frame |-> curr_frame]

Upload ==
    /\ pc = "upload"
    /\ Gpu!Execute(Compute, NoWait, ReadJob)
    /\ Goto("add_frame")
    /\ UNCHANGED <<main_vars, tex>>

\* CopyFrom submits the list after each plane and leaves it open, so what is executed
\* after the loop is an empty list.
PlaneNotReset(label, job, next) ==
    /\ pc = label
    /\ Gpu!ExecuteAndReset(Compute, NoWait, job)
    /\ plane' = plane + 1
    /\ IF plane < LastPlane THEN UNCHANGED pc ELSE Goto(next)
    /\ UNCHANGED <<input, i, total_frames, curr_frame, first_frame, created, fence_value, cb, saved,
                   writer, file, tex>>

CopyPlane(label, job, next) ==
    /\ pc = label
    /\ Gpu!ExecuteAndReset(Compute, NoWait, job)
    /\ IF plane < LastPlane THEN plane' = plane + 1 /\ UNCHANGED pc
                            ELSE plane' = 0 /\ Goto(next)
    /\ UNCHANGED <<input, i, total_frames, curr_frame, first_frame, created, fence_value, cb, saved,
                   writer, file, tex>>

ExecuteEmpty(label, next) ==
    /\ pc = label
    /\ Gpu!Execute(Compute, NoWait, NoJob)
    /\ Goto(next)
    /\ UNCHANGED <<main_vars, tex>>

\* MotionBlurGenerator's constructor submits a first list before the loop; what it uploads,
\* the table of random numbers, is no texture of a frame.
UploadRandomTex == ExecuteEmpty("random_tex", "loop")

VideoRead ==
    \/ CopyPlane("mf_copy", ReadJob, "mf_flush")
    \/ ExecuteEmpty("mf_flush", "add_frame")

(***************************************************************************)
(* MotionBlurGenerator::AddFrame.  It takes the texture of the slot as it  *)
(* is, and fails if no frame has given one yet.                            *)
(***************************************************************************)

AddFrame ==
    /\ pc = "add_frame"
    /\ first_frame' = ~created
    /\ created' = TRUE
    /\ Goto(IF Stream!ShownFrom(curr_frame) = {} THEN "aborted" ELSE "copy_in")
    /\ UNCHANGED <<gpu_vars, input, i, total_frames, plane, curr_frame, fence_value, cb, saved, writer,
                   file, tex>>

\* One pass of a shader: its list waits for a fence value or not, AddFrame keeps the
\* value it signals.
Pass(label, q, wait_fence_value, next) ==
    /\ pc = label
    /\ fence_value' = Gpu!CurrFenceVal
    /\ Gpu!Execute(q, wait_fence_value, Job(label))
    /\ Goto(next)
    /\ UNCHANGED <<input, i, total_frames, plane, curr_frame, first_frame, created, cb, saved, writer,
                   file, tex>>

CopyIn ==
    \/ CopyPlane("copy_in", PlaneJob("copy_in"), "copy_in_flush")
    \/ ExecuteEmpty("copy_in_flush", IF Video THEN "to_rgb" ELSE "to_nv12")
ConvertToRgb == Pass("to_rgb", Compute, NoWait, "to_nv12")
ConvertToNv12 == Pass("to_nv12", Compute, NoWait, IF first_frame THEN "copy_out" ELSE "estimate")

\* The first frame is copied as it is, and that texture has one plane.
CopyOut ==
    \/ /\ pc = "copy_out"
       /\ Gpu!ExecuteAndReset(Compute, NoWait, Job("copy_out"))
       /\ Goto("copy_out_flush")
       /\ UNCHANGED <<main_vars, tex>>
    \/ ExecuteEmpty("copy_out_flush", "move")

EstimateTooEarly == Pass("estimate", VideoEncode, NoWait, "timespan")

EstimateMotionVectors == Pass("estimate", VideoEncode, fence_value, "timespan")

\* The CPU writes the timespan where the GPU reads it; there is one such place.
SetTimespan ==
    /\ pc = "timespan"
    /\ cb' = Stream!Timespan(curr_frame)
    /\ Goto("propagate")
    /\ UNCHANGED <<gpu_vars, input, i, total_frames, plane, curr_frame, first_frame, created,
                   fence_value, saved, writer, file, tex>>
PropagateTooEarly == Pass("propagate", Compute, NoWait, "gather")

PropagateMotionBlur == Pass("propagate", Compute, fence_value, "gather")
GatherMotionBlur == Pass("gather", Compute, NoWait, IF input.overlay THEN "overlay" ELSE "move")
OverlayMotionVector == Pass("overlay", Compute, NoWait, "move")

Move ==
    /\ pc = "move"
    /\ Gpu!MoveToNextFrame
    /\ Goto("after")
    /\ UNCHANGED <<main_vars, tex>>

(***************************************************************************)
(* Saving                                                                  *)
(***************************************************************************)

SavingIndex == i - (FrameCount - 1)
SavingSlot == SavingIndex % FrameCount

\* main made the texture of a slot when it first read a frame into it.
SavedTexture == SavingSlot < curr_frame

\* The futures that are ready are erased before the next one is made.
PollThreads ==
    /\ pc = "after" /\ Idle
    /\ IF i >= FrameCount - 1
         THEN /\ writer' = [k \in DOMAIN writer |-> IF writer[k] = "ready" THEN "erased" ELSE writer[k]]
              /\ Goto(IF SavedTexture THEN "readback" ELSE "aborted")
         ELSE /\ UNCHANGED writer
              /\ Goto("loop_end")
    /\ UNCHANGED <<gpu_vars, input, i, total_frames, plane, curr_frame, first_frame, created,
                   fence_value, cb, saved, file, tex>>

Readback ==
    /\ pc = "readback"
    /\ Gpu!ExecuteAndReset(Compute, NoWait, [op |-> "readback", slot |-> SavingSlot])
    /\ Goto("readback_wait")
    /\ UNCHANGED <<main_vars, tex>>

ReadbackWithoutWait ==
    /\ pc = "readback_wait"
    /\ Goto("save")
    /\ UNCHANGED <<gpu_vars, main_vars, tex>>

ReadbackWait ==
    /\ pc = "readback_wait"
    /\ Gpu!WaitForGpu
    /\ Goto("save")
    /\ UNCHANGED <<main_vars, tex>>

\* Copies the memory, executes the list that Readback left open and starts a thread.
SaveTexture ==
    /\ pc = "save"
    /\ Gpu!Execute(Compute, NoWait, NoJob)
    /\ saved' = Append(saved, tex["memory"][SavingSlot])
    /\ writer' = Append(writer, "running")
    /\ Goto("loop_end")
    /\ UNCHANGED <<input, i, total_frames, plane, curr_frame, first_frame, created, fence_value, cb,
                   file, tex>>

LoopEndsAt(last) ==
    /\ pc = "loop_end"
    /\ IF total_frames # 0 /\ i = last
         THEN Goto("join") /\ UNCHANGED i
         ELSE Goto("loop") /\ i' = i + 1
    /\ UNCHANGED <<gpu_vars, input, total_frames, plane, curr_frame, first_frame, created, fence_value,
                   cb, saved, writer, file, tex>>

OneSaveTooMany == LoopEndsAt(total_frames - 1 + FrameCount)
OneSaveTooFew == LoopEndsAt(total_frames - 1 + FrameCount - 2)

LoopEnd == LoopEndsAt(total_frames - 1 + FrameCount - 1)

JoinThreads ==
    /\ pc = "join"
    /\ \A k \in DOMAIN writer : writer[k] # "running"
    /\ Goto("final_wait")
    /\ UNCHANGED <<gpu_vars, main_vars, tex>>

FinalWait ==
    /\ pc = "final_wait"
    /\ Gpu!WaitForGpu
    /\ Goto("done")
    /\ UNCHANGED <<main_vars, tex>>

WriteFile(k) ==
    /\ writer[k] = "running"
    /\ file' = [file EXCEPT ![k] = saved[k]]
    /\ writer' = [writer EXCEPT ![k] = "ready"]
    /\ UNCHANGED <<gpu_vars, input, pc, i, total_frames, plane, curr_frame, first_frame, created,
                   fence_value, cb, saved, tex>>

(***************************************************************************)
(* The GPU                                                                 *)
(***************************************************************************)

\* The texture that a job writes.
Target(job) ==
    CASE job.op = "read"      -> "frame"
      [] job.op = "copy_in"   -> IF Video THEN "nv12" ELSE "rgb"
      [] job.op = "to_rgb"    -> "rgb"
      [] job.op = "to_nv12"   -> "scaled"
      [] job.op = "estimate"  -> "raw_mv"
      [] job.op = "propagate" -> "mv"
      [] job.op = "readback"  -> "memory"
      [] OTHER                -> "blurred"

\* Planes that hold the same frame make one picture of it.
Merge(planes) == IF \A p \in DOMAIN planes : planes[p] = planes[1] THEN <<planes[1]>> ELSE planes

\* What it writes, from what the textures hold when the GPU gets to it.
Result(job) ==
    LET Tex(name) == tex[name][job.slot]
        prev_scaled == tex["scaled"][Gpu!PrevSlot(job.slot)]
    IN  CASE job.op = "read"      -> [Tex("frame") EXCEPT ![job.plane + 1] = job.frame]
          [] job.op = "copy_in"   -> IF Video THEN [Tex("nv12") EXCEPT ![job.plane + 1] =
                                                      Tex("frame")[job.plane + 1]]
                                              ELSE Tex("frame")
          [] job.op = "to_rgb"    -> Merge(Tex("nv12"))
          [] job.op = "to_nv12"   -> Tex("rgb")
          [] job.op = "copy_out"  -> Tex("rgb")
          [] job.op = "estimate"  -> prev_scaled \o Tex("scaled")
          [] job.op = "propagate" -> Tex("raw_mv") \o <<cb>>
          [] job.op = "gather"    -> Tex("rgb") \o Tex("mv")
          [] job.op = "overlay"   -> Tex("blurred") \o Tex("mv")
          [] job.op = "readback"  -> Tex("blurred")

GpuRuns(q) ==
    /\ Gpu!GpuStep(q)
    /\ LET entry == Head(queue[q])
       IN  tex' = IF entry.kind = "exec" /\ entry.job # NoJob
                    THEN [tex EXCEPT ![Target(entry.job)][entry.job.slot] = Result(entry.job)]
                    ELSE tex
    /\ UNCHANGED <<main_vars, pc>>

(***************************************************************************)
(* Specification                                                           *)
(***************************************************************************)

GpuCall == Gpu!CallStep /\ UNCHANGED <<main_vars, pc, tex>>

Main ==
    \/ \E q \in Gpu!CmdQueues : CreateCommandList(q)
    \/ UploadRandomTex
    \/ ReadFrame \/ SkipRead \/ Upload \/ VideoRead
    \/ AddFrame \/ CopyIn \/ ConvertToRgb \/ ConvertToNv12 \/ CopyOut
    \/ EstimateMotionVectors \/ SetTimespan \/ PropagateMotionBlur \/ GatherMotionBlur
    \/ OverlayMotionVector
    \/ Move
    \/ PollThreads \/ Readback \/ ReadbackWait \/ SaveTexture \/ LoopEnd
    \/ JoinThreads \/ FinalWait
    \/ GpuCall

Done == pc \in {"done", "aborted"} /\ Idle

Next ==
    \/ Main
    \/ \E k \in DOMAIN writer : WriteFile(k)
    \/ \E q \in Gpu!CmdQueues : GpuRuns(q)

Spec == Init /\ [][Next]_vars

\* The operating system runs the CPU thread and the saving threads, and the GPU runs
\* its queues.
LiveSpec ==
    /\ Spec
    /\ WF_vars(Main)
    /\ \A k \in UNION {1 .. n : n \in FrameNums} : WF_vars(k \in DOMAIN writer /\ WriteFile(k))
    /\ \A q \in Gpu!CmdQueues : WF_vars(GpuRuns(q))

(***************************************************************************)
(* Properties                                                              *)
(***************************************************************************)

Labels == {"random_tex", "loop", "upload", "mf_copy", "mf_flush", "add_frame", "copy_in", "copy_in_flush",
           "to_rgb", "to_nv12", "copy_out", "copy_out_flush", "estimate", "timespan",
           "propagate", "gather", "overlay", "move", "after", "readback", "readback_wait",
           "save", "loop_end", "join", "final_wait", "done", "aborted"}
Content == Seq(Nat)

\* No call of WaitForGpu fails, and every frame of the input can be read.
Faultless == ~CallsFail /\ Unreadables = {{}}

TypeOK ==
    /\ Gpu!TypeOK
    /\ input \in Stream!Inputs
    /\ pc \in Labels
    /\ i \in Nat
    /\ total_frames \in Nat
    /\ plane \in 0 .. LastPlane
    /\ curr_frame \in 0 .. input.frames
    /\ first_frame \in BOOLEAN
    /\ created \in BOOLEAN
    /\ fence_value \in 0 .. FenceBound
    /\ cb \in Nat
    /\ tex \in [TexNames -> [Gpu!Slots -> Content]]
    /\ saved \in Seq(Content)
    /\ writer \in Seq({"running", "ready", "erased"})
    /\ Len(writer) = Len(saved)
    /\ file \in [1 .. input.frames -> Content]

\* The program is done only when every frame of the input has its own picture in its
\* own file: blurred from the right pair of frames although three frames share the
\* queues, the fence and the constant buffers, and nothing lost at the end of the input.
OutputComplete ==
    pc = "done" => \A k \in 1 .. input.frames : file[k] = Stream!Picture(k)

\* The entries of queue q for lists that slot s recorded.
ListsOf(q, s) ==
    {n \in 1 .. Len(queue[q]) : queue[q][n].kind = "exec" /\ queue[q][n].val = s}

\* When the loop reads a frame into a slot, neither queue still works on the frame that
\* was there before: its textures are overwritten (of a video: freed), its descriptors
\* are used again. (The list that SaveTexture leaves behind is empty.)
SlotQuiescent ==
    [][curr_frame' # curr_frame =>
         \A q \in Gpu!CmdQueues : \A n \in ListsOf(q, Slot) : queue[q][n].job = NoJob]_vars

\* MoveToNextFrame resets the allocators of a slot under no list that has not run, but in
\* one frame: after frame FrameCount, when the slots are used for a second time and nothing
\* has been saved yet, it waits for the video queue, which ran nothing for the first frame,
\* or for the compute queue, and lists of that frame may be left in the latter.
ResetsIdleAllocators ==
    [][Gpu!PaceDone =>
         /\ ListsOf(VideoEncode, Slot) = {}
         /\ ListsOf(Compute, Slot) = {} \/ (curr_frame = FrameCount /\ saved = <<>>)]_vars

\* The assertion of SaveTexture: main hands it a texture that exists, and AddFrame too.
TextureExists == pc # "aborted"

\* Where the frames of a video differ in timespan, all files are right but for one:
\* frame 2 may be blurred over the timespan of frame 3, which the CPU writes into the
\* only constant buffer there is while frame 2 waits for its motion vectors. From
\* frame 3 on a frame is saved, and so the queue drained, before the next is read.
OneTimespanLate ==
    pc = "done" =>
        \A k \in 1 .. input.frames :
            \/ file[k] = Stream!Picture(k)
            \/ /\ k = 2
               /\ file[k] = [n \in DOMAIN Stream!Picture(k) |->
                               IF n \in {4, 7} THEN Stream!Timespan(3) ELSE Stream!Picture(k)[n]]

\* The program is a FrameStream: frames are read and saved in order, at most FrameCount
\* are on their way, and what is saved is the picture of its frame.
IsFrameStream == Stream!Spec

\* It takes, saves and writes as long as the FrameStream has something to do.
IsLiveFrameStream == Stream!LiveSpec

\* The program ends.
Terminates == <>Done

=============================================================================
