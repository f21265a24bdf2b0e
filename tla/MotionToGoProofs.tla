-------------------------- MODULE MotionToGoProofs --------------------------
(***************************************************************************)
(* The program uses GpuSystem as GpuSystem may be used, so what is proved  *)
(* of GpuSystem for every caller holds in the program; and every file gets *)
(* its own picture, for any number of frames and slots.  Why it does is    *)
(* said first, as what is true of the program in every state. From the     *)
(* loop counter to the file, the parts are                                 *)
(*   ControlInv    where main is and what its counters say,                *)
(*   CallInv       which lists are open and which calls are under way,     *)
(*   HalvesInv     in what order a queue holds its lists and the values    *)
(*                 that the other queue waits for,                         *)
(*   JobInv        whose passes the jobs are that the GPU has not done,    *)
(*   FreshInv, NextInv, DrainedInv, ListsInv                               *)
(*                 what holds between the calls, for the next one,         *)
(*   InOrder       that the passes of a frame are done in their order,     *)
(*   ValueInv      so that a texture holds what its last pass gives it,    *)
(*   FilesInv      and what was saved of it is what is written.            *)
(* Last comes that the program ends: StepsLeft falls with every step, and  *)
(* until the end somebody can go on.                                       *)
(***************************************************************************)
EXTENDS MotionToGo, TLAPS, SequenceTheorems, FiniteSetTheorems

(***************************************************************************)
(* The loop of main                                                        *)
(***************************************************************************)

\* The slot that frame n takes.
SlotOf(n) == (n - 1) % FrameCount

\* The labels of the loop's body while it is at work on a frame, those after it, and
\* those after the loop.
Reading == {"upload", "mf_copy", "mf_flush", "add_frame"}
Body == Reading \cup {"copy_in", "copy_in_flush", "to_rgb", "to_nv12", "copy_out", "copy_out_flush",
         "estimate", "timespan", "propagate", "gather", "overlay", "move"}
Ending == {"after", "readback", "readback_wait", "save", "loop_end"}
Final == {"join", "final_wait", "done"}

MainTypes ==
    /\ input \in [source : Sources, frames : FrameNums, unreadable : {{}}, overlay : BOOLEAN]
    /\ pc \in Labels
    /\ i \in Nat
    /\ total_frames \in Nat
    /\ plane \in 0 .. LastPlane
    /\ curr_frame \in 0 .. input.frames
    /\ first_frame \in BOOLEAN
    /\ created \in BOOLEAN
    /\ saved \in Seq(Content)

\* An input without frames never gets to the body.
EmptyInput ==
    input.frames = 0 =>
        /\ curr_frame = 0 /\ saved = <<>> /\ total_frames <= 1
        /\ pc \in {"random_tex", "loop", "after", "loop_end", "aborted"}
        /\ pc = "random_tex" => i = 0 /\ total_frames = 0
        /\ pc = "loop_end" => i < FrameCount - 1
        /\ i <= FrameCount - 1
        /\ total_frames = 0 => i = 0 \/ (pc = "loop" /\ i = 1)

\* How many frames are saved after n rounds of the loop.
SavedBy(n) == IF n >= FrameCount - 1 THEN n - (FrameCount - 1) ELSE 0

\* While frames are left one is read in each round; after the last one total_frames is
\* known and the loop goes on until the frames on their way are saved.
Counting ==
    input.frames > 0 =>
        /\ pc # "aborted"
        /\ pc = "random_tex" => total_frames = 0 /\ i = 0 /\ curr_frame = 0
        /\ total_frames = 0 =>
             /\ pc \in Body \cup Ending => curr_frame = i + 1
             /\ pc = "loop" => curr_frame = i
             /\ pc \notin Final
        /\ total_frames # 0 =>
             /\ total_frames = input.frames /\ curr_frame = input.frames
             /\ i >= input.frames /\ i <= input.frames + FrameCount - 2
             /\ pc = "loop" => i > input.frames
             /\ pc \in Final => i = input.frames + FrameCount - 2
             /\ pc \notin Body
        /\ pc \in {"readback", "readback_wait", "save"} => i >= FrameCount - 1
        /\ Len(saved) = SavedBy(IF pc \in {"loop_end"} \cup Final THEN i + 1 ELSE i)

\* Which frames come to which labels.
Branches ==
    /\ frame_index = SlotOf(IF pc \in Body THEN curr_frame ELSE curr_frame + 1)
    /\ pc \in Body => input.frames > 0
    /\ pc \notin {"mf_copy", "copy_in"} => plane = 0
    /\ pc \in {"mf_copy", "mf_flush", "to_rgb"} => Video
    /\ pc = "upload" => ~Video
    /\ created <=> curr_frame > 1 \/ (curr_frame = 1 /\ pc \notin Reading)
    /\ pc \in Body \ Reading => (first_frame <=> curr_frame = 1)
    /\ pc \in {"copy_out", "copy_out_flush"} => curr_frame = 1
    /\ pc \in {"estimate", "timespan", "propagate", "gather", "overlay"} => curr_frame > 1
    /\ pc = "overlay" => input.overlay

ControlInv == MainTypes /\ EmptyInput /\ Counting /\ Branches

\* Lists are open for the current slot, and main waits in the calls that it makes where it
\* makes them.
CallInv ==
    /\ ~CallsFail
    /\ device
    /\ Gpu!InPace => pc = "after"
    /\ call \in {"flush", "check", "await"} => pc \in {"save", "done"}
    /\ \A q \in {0, 1} : open[q] \in {FrameCount, frame_index}
    /\ Gpu!InPace => \A q \in {0, 1} : open[q] = FrameCount

(***************************************************************************)
(* The frames on their way                                                 *)
(***************************************************************************)

\* They are read and not yet saved.
Window == Len(saved) + 1 .. curr_frame

\* The passes of a frame are ranked in the order in which AddFrame submits them: 1 and 2
\* read its planes, 3 and 4 copy them, 5 and 6 convert, 7 estimates the motion, 8
\* propagates it (of the first frame: copies the picture), 9 blurs, 10 draws the motion
\* over it, 11 reads the picture back.
Rank(job) ==
    IF job.op = "read" THEN 1 + job.plane ELSE
    IF job.op = "copy_in" THEN 3 + job.plane ELSE
    IF job.op = "to_rgb" THEN 5 ELSE
    IF job.op = "to_nv12" THEN 6 ELSE
    IF job.op = "estimate" THEN 7 ELSE
    IF job.op \in {"propagate", "copy_out"} THEN 8 ELSE
    IF job.op = "gather" THEN 9 ELSE
    IF job.op = "overlay" THEN 10 ELSE 11

\* Does frame n go through the pass of rank r?
Has(n, r) ==
    \/ r \in {1, 3, 6, 11}
    \/ Video /\ r \in {2, 4, 5}
    \/ n = 1 /\ r = 8
    \/ n > 1 /\ r \in {7, 8, 9}
    \/ n > 1 /\ input.overlay /\ r = 10

\* The rank of the pass that AddFrame comes to next.
NextRank ==
    IF pc = "upload" THEN 1 ELSE
    IF pc = "mf_copy" THEN 1 + plane ELSE
    IF pc \in {"mf_flush", "add_frame"} THEN 3 ELSE
    IF pc = "copy_in" THEN 3 + plane ELSE
    IF pc \in {"copy_in_flush", "to_rgb"} THEN 5 ELSE
    IF pc = "to_nv12" THEN 6 ELSE
    IF pc = "estimate" THEN 7 ELSE
    IF pc \in {"copy_out", "timespan", "propagate"} THEN 8 ELSE
    IF pc = "gather" THEN 9 ELSE
    IF pc = "overlay" THEN 10 ELSE 11

\* Has the pass of rank r of frame n been submitted?
Issued(n, r) ==
    IF r = 11 THEN pc \in {"readback_wait", "save"} /\ n = Len(saved) + 1
              ELSE n < curr_frame \/ r < NextRank

\* Is the loop at work on a frame that it has read?
Busy == total_frames = 0 /\ pc \notin {"random_tex", "loop", "loop_end"} \cup Final

(***************************************************************************)
(* The queues                                                              *)
(***************************************************************************)

IsReal(e) == e.kind = "exec" /\ e.job # NoJob
IsSignal(e) == e.kind = "signal"
IsWait(e) == e.kind = "wait"

\* What a job needs of the jobs of the other queue: the estimate the scaled pictures of
\* its frame and of the one before, the propagation the estimate.
Needs(job, other) ==
    \/ /\ job.op = "estimate" /\ other.op = "to_nv12"
       /\ other.slot \in {job.slot, Gpu!PrevSlot(job.slot)}
    \/ job.op = "propagate" /\ other.op = "estimate" /\ other.slot = job.slot

\* A list with a job is followed by the signal of its own value, larger than those before.
Ticketed(s) ==
    \A m \in 1 .. Len(s) : IsReal(s[m]) =>
        /\ m < Len(s) /\ IsSignal(s[m + 1])
        /\ \A k \in 1 .. m : IsSignal(s[k]) => s[k].val < s[m + 1].val

\* The passes of a slot are queued in their order.
RanksGrow(s) ==
    \A m, k \in 1 .. Len(s) :
        m < k /\ IsReal(s[m]) /\ IsReal(s[k]) /\ s[m].job.slot = s[k].job.slot =>
            Rank(s[m].job) < Rank(s[k].job)

\* The estimates are the video queue's, which has no empty lists; a list is recorded in
\* the slot of its job, but for the readback.
Homes(s, q) ==
    \A m \in 1 .. Len(s) :
        /\ IsReal(s[m]) =>
             /\ s[m].job.op = "estimate" <=> q = 1
             /\ s[m].val = s[m].job.slot \/ s[m].job.op = "readback"
        /\ s[m].kind = "exec" /\ q = 1 => s[m].job # NoJob

\* While a list of queue o is left whose value is v or less, the fence is below v.
Awaits(v, o, f) == \A k \in 1 .. Len(o) : IsReal(o[k]) /\ o[k + 1].val <= v => f < v

\* So a wait in queue s holds it back until those lists of o have run.
WaitsOpen(s, o, f, newest) ==
    \A m \in 1 .. Len(s) : IsWait(s[m]) =>
        /\ s[m].val < newest
        /\ \A k \in 1 .. m : IsSignal(s[k]) => s[k].val < s[m].val
        /\ Awaits(s[m].val, o, f)

\* What a job needs of the other queue is covered by the wait before it.
Covered(s, o) ==
    \A m \in 1 .. Len(s), k \in 1 .. Len(o) :
        IsReal(s[m]) /\ IsReal(o[k]) /\ Needs(s[m].job, o[k].job) =>
            m > 1 /\ IsWait(s[m - 1]) /\ o[k + 1].val <= s[m - 1].val

\* One of the two queues, beside the other.
Half(s, q, o, f, newest) ==
    /\ Ticketed(s) /\ RanksGrow(s) /\ Homes(s, q)
    /\ WaitsOpen(s, o, f, newest) /\ Covered(s, o)

\* The value that the next submission signals.
Newest == Gpu!NewestVal

HalvesInv ==
    /\ Half(queue[0], 0, queue[1], fence, Newest)
    /\ Half(queue[1], 1, queue[0], fence, Newest)

(***************************************************************************)
(* The jobs that are left                                                  *)
(***************************************************************************)

\* Those of a queue, and those of both.
Left(s) == {s[m].job : m \in {k \in 1 .. Len(s) : IsReal(s[k])}}
Undone == Left(queue[0]) \cup Left(queue[1])

\* The job is a pass of frame n, which is on its way and has had the pass submitted. Once a
\* frame is saved only the jobs of the frame that is being added are left.
Of(job, n) ==
    /\ n \in Window /\ job.slot = SlotOf(n)
    /\ Has(n, Rank(job)) /\ Issued(n, Rank(job))
    /\ job.op = "read" => job.frame = n
    /\ job.op = "propagate" => n > 1
    /\ job.op = "copy_out" => n = 1
    /\ job.op = "estimate" => n - 1 \in Window
    /\ saved # <<>> /\ job.op # "readback" => n = curr_frame /\ Busy

\* The pass of rank r of frame n is submitted and not done; it is submitted and done.
Pend(n, r) == \E job \in Undone : job.slot = SlotOf(n) /\ Rank(job) = r
Made(n, r) == Has(n, r) /\ Issued(n, r) /\ ~Pend(n, r)

\* Every job is a pass of a frame on its way. An estimate that is left keeps its
\* propagation, so WaitForGpu drains the video queue too, which it does not wait for.
JobInv ==
    /\ \A job \in Undone : \E n \in Window : Of(job, n)
    /\ \A n \in Window : Pend(n, 7) /\ Issued(n, 8) => Pend(n, 8)

\* The passes of a frame are run in their order.
InOrder == \A n \in Window : \A a, b \in 1 .. 11 : a < b /\ Pend(n, a) => ~Made(n, b)

(***************************************************************************)
(* Between the calls                                                       *)
(***************************************************************************)

SignalsBelow(v, s) == \A k \in 1 .. Len(s) : IsSignal(s[k]) => s[k].val < v

\* The value that is signalled next is new, but after WaitForGpu, which may leave its own.
FreshInv ==
    call = "idle" /\ pc \notin {"save", "done"} =>
        /\ fence < Gpu!CurrFenceVal
        /\ SignalsBelow(Gpu!CurrFenceVal, queue[0])
        /\ SignalsBelow(Gpu!CurrFenceVal, queue[1])

\* What the next pass may wait for: the value handed out last, which nothing in its own
\* queue s signals, and which the fence has not reached while a list of the other queue
\* is left.
NextWait(v, s, o) ==
    /\ v = Gpu!CurrFenceVal - 1
    /\ SignalsBelow(v, s)
    /\ Awaits(v, o, fence)

NextInv ==
    /\ pc = "estimate" => NextWait(fence_value, queue[1], queue[0])
    /\ pc \in {"timespan", "propagate"} => NextWait(fence_value, queue[0], queue[1])

\* When a picture is copied out no list is left.
DrainedInv == pc = "save" /\ call = "idle" => Gpu!NoExec(queue[0]) /\ Gpu!NoExec(queue[1])

\* While a frame is being added or awaited after one was saved, the lists that are left
\* are those of its slot.
Adding == pc \in Body \cup {"random_tex", "loop", "loop_end"}
ListsAt(s, slot) == \A m \in 1 .. Len(s) : s[m].kind = "exec" => s[m].val = slot
ListsInv ==
    saved # <<>> /\ (Adding \/ Gpu!InPace) =>
        ListsAt(queue[0], Gpu!NewestSlot) /\ ListsAt(queue[1], Gpu!NewestSlot)

(***************************************************************************)
(* The textures                                                            *)
(***************************************************************************)

\* The timespans that a frame may be blurred over: its own, or while no frame has been
\* saved yet that of a frame that is added meanwhile.
Spans(n) == {Stream!Timespan(n)} \cup {Stream!Timespan(m) : m \in n + 1 .. FrameCount}

\* The pictures that frame n may become.
Motion(n, t) == <<n - 1, n, t>>
PictureOver(n, t) ==
    IF n = 1
      THEN <<n>>
      ELSE <<n>> \o Motion(n, t) \o (IF input.overlay THEN Motion(n, t) ELSE <<>>)
Pictures(n) == {PictureOver(n, t) : t \in Spans(n)}

\* What each texture of frame n holds once the pass that writes it is done. The picture is
\* in rgb after the last pass that copies or converts it.
RgbRank == IF Video THEN 5 ELSE 3
FrameRead(n) == \A p \in 0 .. LastPlane : Made(n, 1 + p) => tex["frame"][SlotOf(n)][p + 1] = n
PlanesIn(n) ==
    Video => \A p \in 0 .. LastPlane : Made(n, 3 + p) => tex["nv12"][SlotOf(n)][p + 1] = n
RgbIn(n) == Made(n, RgbRank) => tex["rgb"][SlotOf(n)] = <<n>>
ScaledIn(n) == Made(n, 6) => tex["scaled"][SlotOf(n)] = <<n>>
RawMotionIn(n) == Made(n, 7) => tex["raw_mv"][SlotOf(n)] = <<n - 1, n>>
MotionIn(n) == n > 1 /\ Made(n, 8) => \E t \in Spans(n) : tex["mv"][SlotOf(n)] = Motion(n, t)
BlurredIn(n) ==
    /\ n = 1 /\ Made(n, 8) => tex["blurred"][SlotOf(n)] = <<n>>
    /\ Made(n, 9) /\ ~Made(n, 10) => tex["blurred"][SlotOf(n)] = <<n>> \o tex["mv"][SlotOf(n)]
    /\ Made(n, 10) =>
         tex["blurred"][SlotOf(n)] = <<n>> \o tex["mv"][SlotOf(n)] \o tex["mv"][SlotOf(n)]
PictureIn(n) == Made(n, 11) => tex["memory"][SlotOf(n)] \in Pictures(n)

\* The timespan that a pending propagation will find.
SpanIn(n) == n > 1 /\ Pend(n, 8) => cb \in Spans(n)

Value(n) ==
    /\ FrameRead(n) /\ PlanesIn(n) /\ RgbIn(n) /\ ScaledIn(n) /\ RawMotionIn(n)
    /\ MotionIn(n) /\ BlurredIn(n) /\ PictureIn(n) /\ SpanIn(n)

ValueInv ==
    /\ \A n \in Window : Value(n)
    /\ pc = "propagate" => cb = Stream!Timespan(curr_frame)

\* The textures have content, those of the reader one number per plane.
TexTypes ==
    /\ tex = [name \in TexNames |-> [s \in 0 .. FrameCount - 1 |-> tex[name][s]]]
    /\ \A name \in TexNames, s \in 0 .. FrameCount - 1 : tex[name][s] \in Content
    /\ \A name \in {"frame", "nv12"}, s \in 0 .. FrameCount - 1 :
         tex[name][s] \in [1 .. LastPlane + 1 -> Nat]

TexInv == TexTypes /\ cb \in Nat

(***************************************************************************)
(* The files                                                               *)
(***************************************************************************)

\* What is saved are pictures of the frames in their order; a thread that is not running
\* has written what it was given to the file of its frame, and nothing else is written.
FilesInv ==
    /\ writer \in Seq({"running", "ready", "erased"}) /\ Len(writer) = Len(saved)
    /\ file \in [1 .. input.frames -> Content]
    /\ \A k \in 1 .. Len(saved) : saved[k] \in Pictures(k)
    /\ \A k \in 1 .. input.frames :
         file[k] = IF k <= Len(saved) /\ writer[k] # "running" THEN saved[k] ELSE Nothing
    /\ pc \in {"final_wait", "done"} => \A k \in 1 .. Len(saved) : writer[k] # "running"

\* The theorems about GpuSystem, for the program's variables and jobs.
Known == INSTANCE GpuSystemProofs

(***************************************************************************)
(* Known and Gpu are two instances of the same definitions.                *)
(***************************************************************************)

\* The constants meet what the theorems about GpuSystem assume.
LEMMA SameAssumption == Known!GpuAssumption
  BY ProgramAssumption DEF Known!GpuAssumption, Gpu!GpuAssumption

\* The two instances agree on the operators without arguments.
LEMMA SameConstants ==
    /\ Known!gpu_vars = Gpu!gpu_vars /\ gpu_vars = Gpu!gpu_vars
    /\ Known!Slots = Gpu!Slots /\ Known!CmdQueues = Gpu!CmdQueues
    /\ Known!MaxFenceValue = Gpu!MaxFenceValue
    /\ Known!CurrFenceVal = Gpu!CurrFenceVal
    /\ Known!Ready <=> Gpu!Ready
    /\ Known!Init <=> Gpu!Init
  BY Zenon DEF Known!gpu_vars, Gpu!gpu_vars, gpu_vars, Known!Slots, Gpu!Slots, Known!CmdQueues,
     Gpu!CmdQueues, Known!Compute, Gpu!Compute, Known!VideoEncode, Gpu!VideoEncode,
     Known!MaxFenceValue, Gpu!MaxFenceValue, Known!CurrFenceVal, Gpu!CurrFenceVal, Known!Ready,
     Gpu!Ready, Known!Init, Gpu!Init, Known!NoSlot, Gpu!NoSlot

\* They agree on CreateCommandList, Execute and ExecuteAndReset.
LEMMA SameSubmission ==
    ASSUME NEW q, NEW v, NEW job
    PROVE  /\ Known!CreateCommandList(q) <=> Gpu!CreateCommandList(q)
           /\ Known!Execute(q, v, job) <=> Gpu!Execute(q, v, job)
           /\ Known!ExecuteAndReset(q, v, job) <=> Gpu!ExecuteAndReset(q, v, job)
<1>1. Known!ExecuteOnly(q, v, job) <=> Gpu!ExecuteOnly(q, v, job)
  BY Zenon DEF Known!ExecuteOnly, Gpu!ExecuteOnly, Known!Ready, Gpu!Ready, Known!NoSlot, Gpu!NoSlot,
     Known!CurrFenceVal, Gpu!CurrFenceVal, Known!MaxFenceValue, Gpu!MaxFenceValue, Known!Wait,
     Gpu!Wait, Known!Exec, Gpu!Exec, Known!Signal, Gpu!Signal
<1>2. Known!CreateCommandList(q) <=> Gpu!CreateCommandList(q)
  BY Zenon DEF Known!CreateCommandList, Gpu!CreateCommandList, Known!Ready, Gpu!Ready,
     Known!NoSlot, Gpu!NoSlot
<1>3. Known!Execute(q, v, job) <=> Gpu!Execute(q, v, job)
  BY <1>1, Zenon DEF Known!Execute, Gpu!Execute, Known!NoSlot, Gpu!NoSlot
<1>4. Known!ExecuteAndReset(q, v, job) <=> Gpu!ExecuteAndReset(q, v, job)
  BY <1>1, Zenon DEF Known!ExecuteAndReset, Gpu!ExecuteAndReset
<1> QED
  BY <1>2, <1>3, <1>4

\* They agree on MoveToNextFrame, WaitForGpu and the steps these take.
LEMMA SameCalls ==
    /\ Known!MoveToNextFrame <=> Gpu!MoveToNextFrame
    /\ Known!WaitForGpu <=> Gpu!WaitForGpu
    /\ Known!HandleDeviceLost <=> Gpu!HandleDeviceLost
    /\ Known!CallStep <=> Gpu!CallStep
<1>1. Known!MoveToNextFrame <=> Gpu!MoveToNextFrame
  BY Zenon DEF Known!MoveToNextFrame, Gpu!MoveToNextFrame, Known!Ready, Gpu!Ready, Known!NoSlot,
     Gpu!NoSlot, Known!CmdQueues, Gpu!CmdQueues, Known!Compute, Gpu!Compute, Known!VideoEncode,
     Gpu!VideoEncode, Known!CurrFenceVal, Gpu!CurrFenceVal, Known!Pending, Gpu!Pending,
     Known!Signal, Gpu!Signal, Known!NextSlot, Gpu!NextSlot
<1>2. Known!WaitForGpu <=> Gpu!WaitForGpu
  BY Zenon DEF Known!WaitForGpu, Gpu!WaitForGpu, Known!Ready, Gpu!Ready, Known!CurrFenceVal,
     Gpu!CurrFenceVal, Known!Pending, Gpu!Pending, Known!Compute, Gpu!Compute,
     Known!VideoEncode, Gpu!VideoEncode
<1>3. Known!HandleDeviceLost <=> Gpu!HandleDeviceLost
  BY Zenon DEF Known!HandleDeviceLost, Gpu!HandleDeviceLost, Known!Ready, Gpu!Ready,
     Known!CmdQueues, Gpu!CmdQueues, Known!Compute, Gpu!Compute, Known!VideoEncode, Gpu!VideoEncode
<1>4. Known!StartSlot <=> Gpu!StartSlot
  BY Zenon DEF Known!StartSlot, Gpu!StartSlot, Known!PrevSlot, Gpu!PrevSlot
<1>5. (Known!PaceWait \/ Known!PaceDone) <=> (Gpu!PaceWait \/ Gpu!PaceDone)
  BY <1>4, Zenon DEF Known!PaceWait, Gpu!PaceWait, Known!PaceDone, Gpu!PaceDone,
     Known!CurrFenceVal, Gpu!CurrFenceVal
<1>6. Known!FlushSignal <=> Gpu!FlushSignal
  BY Zenon DEF Known!FlushSignal, Gpu!FlushSignal, Known!CmdQueueNum, Gpu!CmdQueueNum,
     Known!Signal, Gpu!Signal, Known!CurrFenceVal, Gpu!CurrFenceVal
<1>7. (Known!FlushWait \/ Known!FlushPassed) <=> (Gpu!FlushWait \/ Gpu!FlushPassed)
  BY Zenon DEF Known!FlushWait, Gpu!FlushWait, Known!FlushPassed, Gpu!FlushPassed,
     Known!CurrFenceVal, Gpu!CurrFenceVal
<1>8. Known!FlushWoken <=> Gpu!FlushWoken
  BY Zenon DEF Known!FlushWoken, Gpu!FlushWoken, Known!CurrFenceVal, Gpu!CurrFenceVal
<1>9. Known!WaitForGpuReturns <=> Gpu!WaitForGpuReturns
  BY Zenon DEF Known!WaitForGpuReturns, Gpu!WaitForGpuReturns, Known!CmdQueueNum, Gpu!CmdQueueNum
<1>10. Known!FlushSkip <=> Gpu!FlushSkip
  BY Zenon DEF Known!FlushSkip, Gpu!FlushSkip, Known!CmdQueueNum, Gpu!CmdQueueNum,
     Known!CurrFenceVal, Gpu!CurrFenceVal
<1>11. Known!CallStep <=> Gpu!CallStep
  BY <1>5, <1>6, <1>7, <1>8, <1>9, <1>10 DEF Known!CallStep, Gpu!CallStep
<1> QED
  BY <1>1, <1>2, <1>3, <1>11

\* So they agree on the next-state relation.
LEMMA SameNext == Known!Next <=> Gpu!Next
<1>1. \A q : Known!GpuStep(q) <=> Gpu!GpuStep(q)
  BY Zenon DEF Known!GpuStep, Gpu!GpuStep, Known!GpuWait, Gpu!GpuWait, Known!GpuExec,
     Gpu!GpuExec, Known!GpuSignal, Gpu!GpuSignal, Known!HeadIs, Gpu!HeadIs, Known!Pop, Gpu!Pop,
     Known!CurrFenceVal, Gpu!CurrFenceVal
<1>2. Known!CallStart <=> Gpu!CallStart
  BY SameConstants, SameSubmission, SameCalls, Zenon DEF Known!CallStart, Gpu!CallStart
<1> QED
  BY <1>1, <1>2, SameConstants, SameCalls, Zenon DEF Known!Next, Gpu!Next

(***************************************************************************)
(* What the program keeps to in its calls: the value it waits for is one   *)
(* that Execute returned.                                                  *)
(***************************************************************************)

Waiting == {"estimate", "timespan", "propagate"}
UseInv ==
    /\ plane \in {0, 1}
    /\ curr_frame \in Nat
    /\ i \in Nat
    /\ pc \in Waiting => fence_value \in 1 .. FenceBound

ProgramInv == Known!TypeOK /\ Known!FenceOrder /\ Known!DrainInv /\ UseInv

\* The value that a submission signals is a positive one within the bound.
LEMMA SignalledValue ==
    ASSUME ProgramInv, NEW q, NEW v, NEW job, Gpu!ExecuteOnly(q, v, job)
    PROVE  Gpu!CurrFenceVal \in 1 .. FenceBound
<1>1. /\ device /\ call = "idle"
      /\ Gpu!CurrFenceVal <= FenceBound
      /\ Gpu!CurrFenceVal = fence_vals[frame_index]
  BY DEF Gpu!ExecuteOnly, Gpu!Ready, Gpu!CurrFenceVal
<1>2. FrameCount \in Nat /\ FrameCount >= 2 /\ FenceBound \in Nat
  BY ProgramAssumption DEF Gpu!GpuAssumption
<1>3. /\ frame_index \in 0 .. FrameCount - 1
      /\ fence_vals \in [0 .. FrameCount - 1 -> Nat]
  BY DEF ProgramInv, Known!TypeOK, Known!Slots
<1>4. \A s \in (0 .. FrameCount - 1) \ {frame_index} : fence_vals[s] < fence_vals[frame_index]
  BY <1>1 DEF ProgramInv, Known!FenceOrder, Known!NewestSlot, Known!NewestVal, Known!InPace,
     Known!Slots
<1>5. PICK s \in 0 .. FrameCount - 1 : s # frame_index
  BY <1>2, <1>3
<1>6. fence_vals[s] \in Nat /\ fence_vals[s] < fence_vals[frame_index]
  BY <1>3, <1>4, <1>5
<1>7. fence_vals[frame_index] \in Nat
  BY <1>3
<1> QED
  BY <1>1, <1>2, <1>6, <1>7

\* A submission of the program is one that GpuSystem knows.
LEMMA Submission ==
    ASSUME NEW q \in {0, 1}, NEW v \in 1 .. FenceBound + 1, NEW job \in Jobs \cup {NoJob},
           Gpu!Execute(q, v, job) \/ Gpu!ExecuteAndReset(q, v, job)
    PROVE  Gpu!Next
  BY Zenon DEF Gpu!Next, Gpu!CallStart, Gpu!CmdQueues, Gpu!Compute, Gpu!VideoEncode,
     Gpu!MaxFenceValue

\* The queues and the reserved value that the program passes to Execute.
LEMMA Queues ==
    /\ Compute \in {0, 1} /\ VideoEncode \in {0, 1}
    /\ NoWait \in 1 .. FenceBound + 1
    /\ 1 .. FenceBound \subseteq 1 .. FenceBound + 1
<1>1. FenceBound \in Nat
  BY ProgramAssumption DEF Gpu!GpuAssumption
<1> QED
  BY <1>1 DEF Compute, VideoEncode, Gpu!Compute, Gpu!VideoEncode, NoWait, Gpu!MaxFenceValue

\* The jobs that the program submits are Jobs.
LEMMA JobTypes ==
    ASSUME ProgramInv
    PROVE  /\ \A op \in {"to_rgb", "to_nv12", "copy_out", "estimate", "propagate", "gather",
                          "overlay", "readback"} : Job(op) \in Jobs
           /\ PlaneJob("copy_in") \in Jobs
           /\ ReadJob \in Jobs
           /\ [op |-> "readback", slot |-> SavingSlot] \in Jobs
<1>1. frame_index \in 0 .. FrameCount - 1 /\ plane \in {0, 1} /\ curr_frame \in Nat /\ i \in Nat
  BY DEF ProgramInv, UseInv, Known!TypeOK, Known!Slots
<1>2. FrameCount \in Nat /\ FrameCount >= 2
  BY ProgramAssumption DEF Gpu!GpuAssumption
<1>3. SavingSlot \in 0 .. FrameCount - 1
  BY <1>1, <1>2 DEF SavingSlot, SavingIndex
<1> QED
  BY <1>1, <1>3 DEF Job, PlaneJob, ReadJob, Slot, Jobs

(***************************************************************************)
(* Every step of the program is a step of GpuSystem or leaves it alone,    *)
(* and keeps UseInv.                                                       *)
(***************************************************************************)

Good == [Gpu!Next]_gpu_vars /\ UseInv'

\* A pass of a shader or of the motion estimator.
LEMMA PassGood ==
    ASSUME ProgramInv,
           NEW label \in {"to_rgb", "to_nv12", "estimate", "propagate", "gather", "overlay"},
           NEW q \in {0, 1}, NEW v \in 1 .. FenceBound + 1, NEW next, Pass(label, q, v, next)
    PROVE  Good
<1>1. Job(label) \in Jobs
  BY JobTypes
<1>2. Gpu!Execute(q, v, Job(label)) /\ fence_value' = Gpu!CurrFenceVal
  BY DEF Pass
<1>3. fence_value' \in 1 .. FenceBound
  BY <1>2, SignalledValue DEF Gpu!Execute
<1>4. UNCHANGED <<plane, curr_frame, i>>
  BY DEF Pass
<1>5. Gpu!Next
  BY <1>1, <1>2, Submission
<1> QED
  BY <1>3, <1>4, <1>5 DEF Good, UseInv, ProgramInv

\* The copy of a plane.
LEMMA PlaneGood ==
    ASSUME ProgramInv, NEW label \in {"mf_copy", "copy_in"}, NEW job \in Jobs,
           NEW next \in {"mf_flush", "copy_in_flush"}, CopyPlane(label, job, next)
    PROVE  Good
<1>1. Gpu!Next
  BY Submission, Queues DEF CopyPlane
<1>2. plane' \in {0, 1} /\ UNCHANGED <<curr_frame, i>> /\ pc' \notin Waiting
  BY DEF CopyPlane, Goto, LastPlane, Waiting, ProgramInv, UseInv
<1> QED
  BY <1>1, <1>2 DEF Good, UseInv, ProgramInv

\* The submission of the list that the last plane left open.
LEMMA EmptyGood ==
    ASSUME ProgramInv, NEW label, NEW next \in {"loop", "add_frame", "to_rgb", "to_nv12", "move"},
           ExecuteEmpty(label, next)
    PROVE  Good
<1>1. Gpu!Next
  BY Submission, Queues DEF ExecuteEmpty
<1>2. UNCHANGED <<plane, curr_frame, i>> /\ pc' \notin Waiting
  BY DEF ExecuteEmpty, Goto, Waiting, main_vars
<1> QED
  BY <1>1, <1>2 DEF Good, UseInv, ProgramInv

\* The steps that do not touch GpuSystem.
LEMMA OwnGood ==
    ASSUME ProgramInv,
           \/ ReadFrame \/ SkipRead \/ AddFrame \/ SetTimespan \/ PollThreads \/ LoopEnd
           \/ JoinThreads \/ \E k \in DOMAIN writer : WriteFile(k)
    PROVE  Good
<1>1. UNCHANGED gpu_vars
  BY DEF ReadFrame, SkipRead, AddFrame, SetTimespan, PollThreads, LoopEnd, LoopEndsAt, JoinThreads,
     WriteFile
<1>2. plane' \in {0, 1} /\ curr_frame' \in Nat /\ i' \in Nat
  BY DEF ReadFrame, SkipRead, AddFrame, SetTimespan, PollThreads, LoopEnd, LoopEndsAt, JoinThreads,
     WriteFile, main_vars, ProgramInv, UseInv
<1>3. fence_value' = fence_value /\ (pc' \in Waiting => pc \in Waiting)
  BY DEF ReadFrame, SkipRead, AddFrame, SetTimespan, PollThreads, LoopEnd, LoopEndsAt, JoinThreads,
     WriteFile, main_vars, Goto, Waiting
<1> QED
  BY <1>1, <1>2, <1>3 DEF Good, UseInv, ProgramInv

\* The steps that call GpuSystem or are the GPU's, and leave the program's variables alone.
LEMMA CallGood ==
    ASSUME ProgramInv,
           \/ \E q \in Gpu!CmdQueues : CreateCommandList(q)
           \/ Upload \/ Move \/ Readback \/ ReadbackWait \/ SaveTexture \/ FinalWait \/ GpuCall
           \/ \E q \in Gpu!CmdQueues : GpuRuns(q)
    PROVE  Good
<1>1. Gpu!Next
  <2>1. ASSUME NEW q \in Gpu!CmdQueues, CreateCommandList(q) PROVE Gpu!Next
    BY <2>1 DEF CreateCommandList, Gpu!Next, Gpu!CallStart
  <2>2. CASE Upload
    BY <2>2, JobTypes, Queues, Submission DEF Upload
  <2>3. CASE Move
    BY <2>3 DEF Move, Gpu!Next, Gpu!CallStart
  <2>4. CASE Readback
    BY <2>4, JobTypes, Queues, Submission DEF Readback
  <2>5. CASE ReadbackWait \/ FinalWait
    BY <2>5 DEF ReadbackWait, FinalWait, Gpu!Next, Gpu!CallStart
  <2>6. CASE SaveTexture
    BY <2>6, Queues, Submission DEF SaveTexture
  <2>7. CASE GpuCall
    BY SMTT(30), <2>7 DEF GpuCall, Gpu!Next
  <2>8. ASSUME NEW q \in Gpu!CmdQueues, GpuRuns(q) PROVE Gpu!Next
    BY SMTT(30), <2>8 DEF GpuRuns, Gpu!Next
  <2> QED
    BY <2>1, <2>2, <2>3, <2>4, <2>5, <2>6, <2>7, <2>8
<1>2. UNCHANGED <<plane, curr_frame, i, fence_value>>
  BY DEF CreateCommandList, Upload, Move, Readback, ReadbackWait, SaveTexture, FinalWait, GpuCall,
     GpuRuns, main_vars
<1>3. pc' \in Waiting => pc \in Waiting
  BY DEF CreateCommandList, Upload, Move, Readback, ReadbackWait, SaveTexture, FinalWait, GpuCall,
     GpuRuns, Goto, Waiting
<1> QED
  BY <1>1, <1>2, <1>3 DEF Good, UseInv, ProgramInv

\* The copy of the first frame.
LEMMA CopyOutGood == ASSUME ProgramInv, CopyOut PROVE Good
<1>1. CASE ExecuteEmpty("copy_out_flush", "move")
  BY <1>1, EmptyGood
<1>2. CASE Gpu!ExecuteAndReset(Compute, NoWait, Job("copy_out")) /\ Goto("copy_out_flush")
           /\ UNCHANGED <<main_vars, tex>>
  <2>1. Gpu!Next
    BY <1>2, JobTypes, Queues, Submission
  <2>2. UNCHANGED <<plane, curr_frame, i>> /\ pc' \notin Waiting
    BY <1>2 DEF Goto, Waiting, main_vars
  <2> QED
    BY <2>1, <2>2 DEF Good, UseInv, ProgramInv
<1> QED
  BY <1>1, <1>2 DEF CopyOut

\* Every step of the program is good.
LEMMA StepGood == ProgramInv /\ [Next]_vars => Good
<1> SUFFICES ASSUME ProgramInv, [Next]_vars PROVE Good
  OBVIOUS
<1>1. CASE VideoRead \/ UploadRandomTex
  BY <1>1, JobTypes, PlaneGood, EmptyGood DEF VideoRead, UploadRandomTex
<1>2. CASE CopyIn
  BY <1>2, JobTypes, PlaneGood, EmptyGood DEF CopyIn
<1>3. CASE ConvertToRgb \/ ConvertToNv12 \/ GatherMotionBlur \/ OverlayMotionVector
  BY <1>3, Queues, PassGood DEF ConvertToRgb, ConvertToNv12, GatherMotionBlur, OverlayMotionVector
<1>4. CASE EstimateMotionVectors \/ PropagateMotionBlur
  <2>1. fence_value \in 1 .. FenceBound + 1
    BY <1>4, Queues DEF EstimateMotionVectors, PropagateMotionBlur, Pass, ProgramInv, UseInv, Waiting
  <2> QED
    BY <1>4, <2>1, Queues, PassGood DEF EstimateMotionVectors, PropagateMotionBlur
<1>5. CASE CopyOut
  BY <1>5, CopyOutGood
<1>6. CASE UNCHANGED vars
  BY <1>6 DEF vars, main_vars, gpu_vars, Good, ProgramInv, UseInv
<1> QED
  BY <1>1, <1>2, <1>3, <1>4, <1>5, <1>6, OwnGood, CallGood DEF Next, Main

(***************************************************************************)
(* The theorems.                                                           *)
(***************************************************************************)

\* The invariant holds at the start.
LEMMA ProgramAtStart == Init => ProgramInv
<1> SUFFICES ASSUME Init PROVE ProgramInv
  OBVIOUS
<1>1. Known!Init
  BY SameConstants DEF Init
<1>2. Known!TypeOK
  BY <1>1, SameAssumption, Known!TypeInit
<1>4. Known!FenceOrder
  BY <1>1, SameAssumption, Known!FenceInit
<1>5. Known!DrainInv
  BY <1>1, SameAssumption, Known!DrainInit
<1>3. UseInv
  BY DEF Init, UseInv, Waiting
<1> QED
  BY <1>2, <1>3, <1>4, <1>5 DEF ProgramInv

\* Every step of the program keeps it.
LEMMA ProgramKept == ProgramInv /\ [Next]_vars => ProgramInv'
<1> SUFFICES ASSUME ProgramInv, [Next]_vars PROVE ProgramInv'
  OBVIOUS
<1>1. Good
  BY StepGood
<1>2. [Known!Next]_(Known!gpu_vars)
  BY <1>1, SameNext DEF Good, gpu_vars, Known!gpu_vars
<1>3. Known!TypeOK' /\ Known!FenceOrder' /\ Known!DrainInv'
  BY <1>2, SameAssumption, Known!TypeNext, Known!FenceNext, Known!DrainNext DEF ProgramInv
<1> QED
  BY <1>1, <1>3 DEF Good, ProgramInv

\* The program is a caller that GpuSystem allows: it opens a list before it submits one,
\* waits only for values that Execute returned (AddFrame), and makes no call inside
\* another. So whatever holds of GpuSystem for every caller holds in the program.
THEOREM ProgramUsesGpuSystem == Spec => Gpu!Spec
<1>1. Init => Gpu!Init
  BY DEF Init
<1>2. ProgramInv /\ [Next]_vars => [Gpu!Next]_(Gpu!gpu_vars)
  BY StepGood DEF Good, gpu_vars, Gpu!gpu_vars
<1> QED
  BY <1>1, <1>2, ProgramAtStart, ProgramKept, PTL DEF Spec, Gpu!Spec

\* In the program the fence values of the two queues stay in one order, for any number of
\* frames (the loop of main over ReadFrame, AddFrame, MoveToNextFrame and SaveTexture).
THEOREM ProgramFenceOrder == Spec => []Gpu!FenceOrder
<1>1. Known!FenceOrder <=> Gpu!FenceOrder
  BY Zenon DEF Known!FenceOrder, Gpu!FenceOrder, Known!SignalsUpTo, Gpu!SignalsUpTo, Known!UpTo,
     Gpu!UpTo, Known!NewestVal, Gpu!NewestVal, Known!NewestSlot, Gpu!NewestSlot, Known!InPace,
     Gpu!InPace, Known!PrevSlot, Gpu!PrevSlot, Known!Slots, Gpu!Slots, Known!CmdQueues,
     Gpu!CmdQueues, Known!Compute, Gpu!Compute, Known!VideoEncode, Gpu!VideoEncode
<1>2. ProgramInv => Gpu!FenceOrder
  BY <1>1 DEF ProgramInv
<1> QED
  BY <1>2, ProgramAtStart, ProgramKept, PTL DEF Spec

\* When WaitForGpu returns in the program, its calls having succeeded, the compute queue has run every list: Readback
\* copies from memory that the GPU has written, although the wait's value may be left
\* over from the wait of the frame before.
THEOREM ReadbackSeesFinishedCopy == Spec => []Gpu!DrainedOnReturn
<1>1. ProgramInv => Gpu!DrainedOnReturn
  BY DEF ProgramInv, Known!DrainInv, Gpu!DrainedOnReturn, Known!NoExec, Gpu!NoExec,
     Known!Compute, Gpu!Compute, Gpu!CmdQueueNum
<1> QED
  BY <1>1, ProgramAtStart, ProgramKept, PTL DEF Spec

\* The two queues of the program never wait for each other: the waits of AddFrame are for
\* values signalled before them, so one queue can always go on while a list is left.
THEOREM ProgramNotStuck == Spec => []Gpu!GpuNotStuck
<1>1. /\ Known!Init <=> Gpu!Init
      /\ [Known!Next]_(Known!gpu_vars) <=> [Gpu!Next]_(Gpu!gpu_vars)
  BY SameConstants, SameNext DEF Known!gpu_vars, Gpu!gpu_vars
<1>2. Known!Spec => []Known!GpuNotStuck
  BY SameAssumption, Known!QueuesNotStuck
<1>3. Known!GpuNotStuck <=> Gpu!GpuNotStuck
  BY Zenon DEF Known!GpuNotStuck, Gpu!GpuNotStuck, Known!HeadIs, Gpu!HeadIs, Known!CmdQueues,
     Gpu!CmdQueues, Known!Compute, Gpu!Compute, Known!VideoEncode, Gpu!VideoEncode
<1> QED
  BY <1>1, <1>2, <1>3, ProgramUsesGpuSystem, PTL DEF Known!Spec, Gpu!Spec

\* In the program, a CPU that sleeps in WaitForGpu or in MoveToNextFrame has a signal on
\* its way that will wake it.
THEOREM ProgramWakesUp == Spec => []Gpu!NoLostWakeup
<1>1. /\ Known!Init <=> Gpu!Init
      /\ [Known!Next]_(Known!gpu_vars) <=> [Gpu!Next]_(Gpu!gpu_vars)
  BY SameConstants, SameNext DEF Known!gpu_vars, Gpu!gpu_vars
<1>2. Known!Spec => []Known!NoLostWakeup
  BY SameAssumption, Known!NoWakeupLost
<1>3. Known!NoLostWakeup <=> Gpu!NoLostWakeup
  BY Zenon, SameConstants DEF Known!NoLostWakeup, Gpu!NoLostWakeup
<1> QED
  BY <1>1, <1>2, <1>3, ProgramUsesGpuSystem, PTL DEF Known!Spec, Gpu!Spec

\* Nor do the CPU and the two queues wait for each other in a circle: while the CPU sleeps,
\* a queue has entries and the first of them can run.
THEOREM SleeperIsServed ==
    Spec => [](~RewindAllowed /\ call \in {"await", "pace_await"} /\ ~event =>
                 \E q \in Gpu!CmdQueues : /\ queue[q] # <<>>
                                          /\ Gpu!HeadIs(q, "wait") => fence >= Head(queue[q]).val)
<1>1. Gpu!NoLostWakeup /\ Gpu!GpuNotStuck =>
        (~RewindAllowed /\ call \in {"await", "pace_await"} /\ ~event =>
           \E q \in Gpu!CmdQueues : /\ queue[q] # <<>>
                                    /\ Gpu!HeadIs(q, "wait") => fence >= Head(queue[q]).val)
  <2> SUFFICES ASSUME Gpu!NoLostWakeup, Gpu!GpuNotStuck, ~RewindAllowed,
                      call \in {"await", "pace_await"}, ~event
               PROVE  \E q \in Gpu!CmdQueues :
                        /\ queue[q] # <<>>
                        /\ Gpu!HeadIs(q, "wait") => fence >= Head(queue[q]).val
    OBVIOUS
  <2>1. PICK q \in Gpu!CmdQueues : \E n \in 1 .. Len(queue[q]) : queue[q][n].kind = "signal"
    BY Zenon DEF Gpu!NoLostWakeup
  <2>2. queue[q] # <<>>
    BY <2>1
  <2> QED
    BY <2>2, Zenon DEF Gpu!GpuNotStuck
<1> QED
  BY <1>1, ProgramWakesUp, ProgramNotStuck, PTL

(****************************************************************************)
(* The slots of the frames                                                   *)
(****************************************************************************)

\* Division, for the provers.
LEMMA Division ==
    ASSUME NEW n \in Int, NEW unit \in Nat \ {0}
    PROVE  /\ n \div unit \in Int /\ n % unit \in 0 .. unit - 1
           /\ n = unit * (n \div unit) + (n % unit)
OBVIOUS

\* There are two slots or more.
LEMMA SlotNumbers == FrameCount \in Nat \ {0, 1} /\ Gpu!Slots = 0 .. FrameCount - 1
  BY ProgramAssumption DEF Gpu!GpuAssumption, Gpu!Slots

\* Two multiples of a unit are not less than the unit apart.
LEMMA MultipleApart ==
    ASSUME NEW unit \in Nat \ {0}, NEW a \in Int, NEW b \in Int, unit * a - unit * b \in 1 .. unit - 1
    PROVE  FALSE
<1>1. unit * a - unit * b = unit * (a - b)
  OBVIOUS
<1>2. CASE a - b <= 0
  <2>1. b - a \in Nat
    BY <1>2
  <2>2. unit * (b - a) \in Nat
    BY <2>1
  <2>3. unit * (a - b) = 0 - unit * (b - a)
    OBVIOUS
  <2> QED
    BY <1>1, <2>2, <2>3
<1>3. CASE a - b >= 1
  <2>1. a - b - 1 \in Nat
    BY <1>3
  <2>2. unit * (a - b - 1) \in Nat
    BY <2>1
  <2>3. unit * (a - b) = unit * (a - b - 1) + unit
    OBVIOUS
  <2> QED
    BY <1>1, <2>2, <2>3
<1> QED
  BY <1>2, <1>3

\* Remainders count on, and start again at a multiple.
LEMMA NextRemainder ==
    ASSUME NEW n \in Nat, NEW unit \in Nat \ {0, 1}
    PROVE  (n + 1) % unit = ((n % unit) + 1) % unit
<1> DEFINE q == n \div unit
           r == n % unit
           p == (n + 1) \div unit
           t == (n + 1) % unit
<1>1. q \in Int /\ r \in 0 .. unit - 1 /\ n = unit * q + r
  BY Division
<1>2. p \in Int /\ t \in 0 .. unit - 1 /\ n + 1 = unit * p + t
  BY Division
<1> HIDE DEF q, r, p, t
<1>3. CASE r < unit - 1
  <2>1. (r + 1) % unit = r + 1
    BY <1>1, <1>3
  <2>2. ASSUME t > r + 1 PROVE FALSE
    <3>1. unit * q - unit * p \in 1 .. unit - 1
      BY <1>1, <1>2, <2>2
    <3> QED
      BY <3>1, <1>1, <1>2, MultipleApart
  <2>3. ASSUME t < r + 1 PROVE FALSE
    <3>1. unit * p - unit * q \in 1 .. unit - 1
      BY <1>1, <1>2, <2>3, <1>3
    <3> QED
      BY <3>1, <1>1, <1>2, MultipleApart
  <2>4. t = r + 1
    BY <2>2, <2>3, <1>1, <1>2
  <2> QED
    BY <2>1, <2>4 DEF t, r
<1>4. CASE r = unit - 1
  <2>1. (r + 1) % unit = 0
    BY <1>4, <1>1
  <2>2. CASE t # 0
    <3>1. unit * (q + 1) = unit * q + unit
      BY <1>1
    <3>2. unit * (q + 1) - unit * p \in 1 .. unit - 1
      BY <1>1, <1>2, <1>4, <2>2, <3>1
    <3>3. q + 1 \in Int
      BY <1>1
    <3> QED
      BY <3>2, <3>3, <1>2, MultipleApart
  <2> QED
    BY <2>1, <2>2 DEF t, r
<1> QED
  BY <1>1, <1>3, <1>4

\* The slot of a frame, and the slots of the frames around it.
LEMMA SlotOfFrame ==
    ASSUME NEW n \in Nat \ {0}
    PROVE  /\ SlotOf(n) \in 0 .. FrameCount - 1
           /\ SlotOf(n + 1) = Gpu!NextSlot(SlotOf(n))
           /\ SlotOf(n) = Gpu!PrevSlot(SlotOf(n + 1))
           /\ n <= FrameCount => SlotOf(n) = n - 1
<1>1. SlotOf(n) \in 0 .. FrameCount - 1
  <2>1. n - 1 \in Int /\ SlotOf(n) = (n - 1) % FrameCount
    BY DEF SlotOf
  <2> QED
    BY <2>1, SlotNumbers, Division
<1>2. SlotOf(n + 1) = Gpu!NextSlot(SlotOf(n))
  <2>1. n - 1 \in Nat /\ n - 1 + 1 = n /\ n + 1 - 1 = n
    OBVIOUS
  <2>2. n % FrameCount = (((n - 1) % FrameCount) + 1) % FrameCount
    BY <2>1, SlotNumbers, NextRemainder
  <2> QED
    BY <2>1, <2>2 DEF SlotOf, Gpu!NextSlot
<1>3. SlotOf(n) = Gpu!PrevSlot(SlotOf(n + 1))
  <2> DEFINE s == SlotOf(n)
  <2>1. s \in 0 .. FrameCount - 1 /\ FrameCount \in Nat \ {0, 1}
    BY <1>1, SlotNumbers
  <2> HIDE DEF s
  <2>2. CASE s = FrameCount - 1
    <3>1. (s + 1) % FrameCount = 0
      BY <2>1, <2>2
    <3>2. (0 + FrameCount - 1) % FrameCount = FrameCount - 1
      BY <2>1
    <3> QED
      BY <3>1, <3>2, <2>2, <1>2 DEF Gpu!NextSlot, Gpu!PrevSlot, s
  <2>3. CASE s < FrameCount - 1
    <3>1. (s + 1) % FrameCount = s + 1
      BY <2>1, <2>3
    <3>2. (s + 1 + FrameCount - 1) % FrameCount = s
      <4>1. s + 1 + FrameCount - 1 = s + FrameCount
        BY <2>1
      <4>2. (s + FrameCount) % FrameCount = s
        BY <2>1, SMTT(30)
      <4> QED
        BY <4>1, <4>2
    <3>3. SlotOf(n + 1) = s + 1
      BY <3>1, <1>2 DEF Gpu!NextSlot, s
    <3> QED
      BY <3>3, <3>2 DEF Gpu!PrevSlot, s
  <2> QED
    BY <2>1, <2>2, <2>3
<1>4. n <= FrameCount => SlotOf(n) = n - 1
  BY SlotNumbers DEF SlotOf
<1> QED
  BY <1>1, <1>2, <1>3, <1>4

\* Frames that are fewer than FrameCount apart have slots of their own.
LEMMA SlotsApart ==
    ASSUME NEW m \in Nat \ {0}, NEW n \in Nat \ {0}, m < n, n < m + FrameCount
    PROVE  SlotOf(m) # SlotOf(n)
<1> SUFFICES ASSUME SlotOf(m) = SlotOf(n) PROVE FALSE
  OBVIOUS
<1> DEFINE p == (m - 1) \div FrameCount
           q == (n - 1) \div FrameCount
           r == SlotOf(n)
<1>1. p \in Int /\ m - 1 = FrameCount * p + r
  <2>1. m - 1 \in Int /\ r = (m - 1) % FrameCount
    BY DEF SlotOf
  <2> QED
    BY <2>1, SlotNumbers, Division
<1>2. q \in Int /\ r \in Int /\ n - 1 = FrameCount * q + r
  BY SlotNumbers, Division DEF SlotOf
<1> HIDE DEF p, q, r
<1>3. FrameCount * q - FrameCount * p \in 1 .. FrameCount - 1
  BY <1>1, <1>2, SlotNumbers
<1> QED
  BY <1>1, <1>2, <1>3, SlotNumbers, MultipleApart

(****************************************************************************)
(* The loop of main keeps ControlInv and CallInv                             *)
(****************************************************************************)

\* Video and the planes depend on the input alone.
LEMMA SameInput == input' = input => (Video' <=> Video) /\ LastPlane' = LastPlane
  BY DEF Video, LastPlane

\* Frames are counted in natural numbers.
LEMMA FrameNumbers ==
    MainTypes => input.frames \in Nat /\ curr_frame \in Nat /\ curr_frame <= input.frames
<1> SUFFICES ASSUME MainTypes PROVE input.frames \in Nat /\ curr_frame \in Nat /\ curr_frame <= input.frames
  OBVIOUS
<1>1. input.frames \in FrameNums /\ curr_frame \in 0 .. input.frames
  BY DEF MainTypes
<1>2. input.frames \in Nat
  BY <1>1, ProgramAssumption
<1> QED
  BY <1>1, <1>2

\* What the control of the program says of it when a step leaves these alone.
LEMMA ControlKept ==
    ASSUME ControlInv, saved' \in Seq(Content), Len(saved') = Len(saved),
           UNCHANGED <<input, pc, i, total_frames, plane, curr_frame, first_frame, created, frame_index>>
    PROVE  ControlInv'
<1>1. saved = <<>> => saved' = <<>>
  BY DEF ControlInv, MainTypes
<1>2. MainTypes'
  BY SameInput DEF ControlInv, MainTypes
<1>3. EmptyInput'
  BY <1>1 DEF ControlInv, EmptyInput
<1>4. Counting'
  BY DEF ControlInv, Counting, SavedBy
<1>5. Branches'
  BY SameInput DEF ControlInv, Branches
<1> QED
  BY <1>2, <1>3, <1>4, <1>5 DEF ControlInv

\* Every frame that is read gives a texture.
LEMMA AllGiven == MainTypes => \A n : GivesTexture(n)
  BY DEF MainTypes, GivesTexture

\* So it shows itself.
LEMMA ShowsItself ==
    ASSUME MainTypes, NEW k \in Nat \ {0}
    PROVE  Stream!Shown(k) = k /\ Stream!ShownFrom(k) # {}
<1>1. input.unreadable = {}
  BY DEF MainTypes
<1>2. /\ k \in Stream!ShownFrom(k)
      /\ \A n \in Stream!ShownFrom(k) : n \in Nat /\ n <= k
  BY <1>1 DEF Stream!ShownFrom
<1>3. \A n \in Stream!ShownFrom(k) :
        (\A m \in Stream!ShownFrom(k) : m <= n) <=> n = k
  BY <1>2
<1> QED
  BY <1>2, <1>3, Zenon DEF Stream!Shown

\* The loop reads a frame, or finds that there is none left.
LEMMA ReadFrameControl == ASSUME ControlInv, CallInv, ReadFrame PROVE ControlInv'
<1>1. /\ input' = input /\ saved' = saved /\ i' = i /\ frame_index' = frame_index
      /\ first_frame' = first_frame /\ created' = created /\ pc = "loop" /\ total_frames = 0
  BY DEF ReadFrame, gpu_vars
<1>2. CASE curr_frame < input.frames
  <2>1. /\ curr_frame' = curr_frame + 1 /\ plane' = 0 /\ total_frames' = 0
        /\ pc' = IF Video THEN "mf_copy" ELSE "upload"
    BY <1>1, <1>2, AllGiven DEF ReadFrame, Goto, ControlInv
  <2>2. MainTypes'
    BY <1>1, <1>2, <2>1, SameInput, FrameNumbers DEF ControlInv, MainTypes, Labels, LastPlane
  <2>3. EmptyInput'
    BY <1>1, <1>2, <2>1 DEF ControlInv, MainTypes, EmptyInput
  <2>4. Counting'
    BY <1>1, <1>2, <2>1, FrameNumbers DEF ControlInv, MainTypes, Counting, Body, Reading, Ending, Final,
       SavedBy
  <2>5. Branches'
    BY <1>1, <1>2, <2>1, SameInput, FrameNumbers DEF ControlInv, MainTypes, Branches, Body, Reading
  <2> QED
    BY <2>2, <2>3, <2>4, <2>5 DEF ControlInv
<1>3. CASE ~(curr_frame < input.frames)
  <2>1. /\ curr_frame' = curr_frame /\ plane' = plane /\ total_frames' = i /\ pc' = "after"
    BY <1>1, <1>3 DEF ReadFrame, Goto
  <2>2. MainTypes'
    BY <1>1, <1>3, <2>1, SameInput DEF ControlInv, MainTypes, Labels, LastPlane
  <2>3. EmptyInput'
    BY <1>1, <1>3, <2>1 DEF ControlInv, MainTypes, EmptyInput
  <2>4. Counting'
    BY <1>1, <1>3, <2>1, SlotNumbers, FrameNumbers DEF ControlInv, MainTypes, Counting, Body, Reading,
       Ending, Final, SavedBy
  <2>5. Branches'
    BY <1>1, <1>3, <2>1, SameInput DEF ControlInv, MainTypes, Branches, Body, Reading
  <2> QED
    BY <2>2, <2>3, <2>4, <2>5 DEF ControlInv
<1> QED
  BY <1>2, <1>3

\* The steps within the work on one frame leave the counters alone.
LEMMA BodyControl ==
    ASSUME ControlInv, pc \in Body, pc' \in Body, MainTypes',
           UNCHANGED <<input, i, total_frames, curr_frame, frame_index, saved>>
    PROVE  EmptyInput' /\ Counting'
<1>1. input.frames > 0
  BY DEF ControlInv, Branches
<1>2. /\ pc \notin Ending \cup Final \cup {"random_tex", "loop", "aborted"}
      /\ pc' \notin Ending \cup Final \cup {"random_tex", "loop", "aborted"}
  BY DEF Body, Reading, Ending, Final
<1>3. EmptyInput'
  BY <1>1, FrameNumbers DEF EmptyInput, ControlInv
<1>4. Counting'
  BY <1>1, <1>2 DEF ControlInv, Counting, Ending
<1> QED
  BY <1>3, <1>4

\* The steps of AddFrame: an image is uploaded ...
LEMMA UploadControl == ASSUME ControlInv, CallInv, Upload PROVE ControlInv'
<1>1. /\ UNCHANGED <<main_vars, frame_index>> /\ pc = "upload" /\ pc' = "add_frame"
  BY DEF Upload, Goto, Gpu!Execute
<1>2. MainTypes' /\ Branches'
  BY <1>1, SameInput DEF main_vars, ControlInv, MainTypes, Branches, Labels, Body, Reading
<1> QED
  BY <1>1, <1>2, BodyControl DEF ControlInv, main_vars, Body, Reading

\* ... AddFrame begins, and makes the textures for the first frame ...
LEMMA AddFrameControl == ASSUME ControlInv, CallInv, AddFrame PROVE ControlInv' /\ pc' = "copy_in"
<1>2. curr_frame = i + 1 /\ i \in Nat
  BY FrameNumbers DEF AddFrame, ControlInv, Counting, Branches, Body, Reading, MainTypes
<1>4. Stream!ShownFrom(curr_frame) # {}
  BY <1>2, ShowsItself DEF ControlInv
<1>1. /\ UNCHANGED <<input, i, total_frames, plane, curr_frame, saved, frame_index>>
      /\ pc = "add_frame" /\ pc' = "copy_in"
      /\ first_frame' = ~created /\ created' = TRUE
  BY <1>4 DEF AddFrame, Goto, gpu_vars
<1>3. MainTypes' /\ Branches'
  <2>1. curr_frame >= 1 /\ curr_frame \in Nat
    BY <1>2
  <2>2. created <=> curr_frame > 1
    BY <1>1, <2>1 DEF ControlInv, Branches, Reading
  <2>6. first_frame' \in BOOLEAN /\ created' \in BOOLEAN /\ (first_frame' <=> ~created)
    BY <1>1, Zenon
  <2>3. first_frame' \in BOOLEAN /\ created' \in BOOLEAN /\ (first_frame' <=> curr_frame = 1)
    BY <2>1, <2>2, <2>6
  <2>4. MainTypes'
    BY <1>1, <2>3, SameInput DEF ControlInv, MainTypes, Labels
  <2>5. created' <=> curr_frame' > 1 \/ (curr_frame' = 1 /\ pc' \notin Reading)
    BY <1>1, <2>1 DEF Reading
  <2> QED
    BY <1>1, <2>3, <2>4, <2>5, SameInput DEF ControlInv, Branches, Body, Reading
<1> QED
  BY <1>1, <1>3, BodyControl DEF ControlInv, Body, Reading

\* ... a plane is copied, and the next one is, or there is none ...
LEMMA CopyPlaneControl ==
    ASSUME ControlInv, CallInv, NEW job,
           \/ CopyPlane("mf_copy", job, "mf_flush")
           \/ CopyPlane("copy_in", job, "copy_in_flush")
    PROVE  ControlInv'
<1>1. /\ UNCHANGED <<input, i, total_frames, curr_frame, first_frame, created, saved, frame_index>>
      /\ \/ plane < LastPlane /\ plane' = plane + 1 /\ pc' = pc
         \/ plane' = 0 /\ pc' = IF pc = "mf_copy" THEN "mf_flush" ELSE "copy_in_flush"
      /\ pc \in {"mf_copy", "copy_in"}
  BY DEF CopyPlane, Goto, Gpu!ExecuteAndReset
<1>3. plane' \in 0 .. LastPlane
  BY <1>1 DEF ControlInv, MainTypes, LastPlane
<1>2. MainTypes' /\ Branches'
  BY <1>1, <1>3, SameInput DEF ControlInv, MainTypes, Branches, Labels, Body, Reading, LastPlane
<1> QED
  BY <1>1, <1>2, BodyControl DEF ControlInv, Body, Reading

\* ... the list that the last plane left open is submitted ...
LEMMA ExecuteEmptyControl ==
    ASSUME ControlInv, CallInv,
           \/ ExecuteEmpty("mf_flush", "add_frame")
           \/ ExecuteEmpty("copy_in_flush", IF Video THEN "to_rgb" ELSE "to_nv12")
           \/ ExecuteEmpty("copy_out_flush", "move")
    PROVE  ControlInv'
<1>1. /\ UNCHANGED <<main_vars, frame_index>>
      /\ \/ pc = "mf_flush" /\ pc' = "add_frame"
         \/ pc = "copy_in_flush" /\ pc' = IF Video THEN "to_rgb" ELSE "to_nv12"
         \/ pc = "copy_out_flush" /\ pc' = "move"
  BY DEF ExecuteEmpty, Goto, Gpu!Execute
<1>2. MainTypes' /\ Branches'
  BY <1>1, SameInput DEF main_vars, ControlInv, MainTypes, Branches, Labels, Body, Reading
<1> QED
  BY <1>1, <1>2, BodyControl DEF ControlInv, Body, Reading, main_vars

\* (so is the list that comes before the loop) ...
LEMMA UploadRandomTexControl == ASSUME ControlInv, CallInv, UploadRandomTex PROVE ControlInv'
<1>1. UNCHANGED <<main_vars, frame_index>> /\ pc = "random_tex" /\ pc' = "loop"
  BY DEF UploadRandomTex, ExecuteEmpty, Goto, Gpu!Execute
<1>2. MainTypes' /\ Branches'
  BY <1>1, SameInput DEF main_vars, ControlInv, MainTypes, Branches, Labels, Body, Reading
<1>3. EmptyInput'
  BY <1>1 DEF main_vars, ControlInv, EmptyInput
<1>4. Counting'
  BY <1>1 DEF main_vars, ControlInv, Counting, Body, Reading, Ending, Final
<1> QED
  BY <1>2, <1>3, <1>4 DEF ControlInv

\* ... a pass of a shader or of the motion estimator is submitted ...
LEMMA PassControl ==
    ASSUME ControlInv, CallInv, NEW v,
           \/ Pass("to_rgb", Compute, v, "to_nv12")
           \/ Pass("to_nv12", Compute, v, IF first_frame THEN "copy_out" ELSE "estimate")
           \/ Pass("estimate", VideoEncode, v, "timespan")
           \/ Pass("propagate", Compute, v, "gather")
           \/ Pass("gather", Compute, v, IF input.overlay THEN "overlay" ELSE "move")
           \/ Pass("overlay", Compute, v, "move")
    PROVE  ControlInv'
<1>1. /\ UNCHANGED <<input, i, total_frames, plane, curr_frame, first_frame, created, saved, frame_index>>
      /\ \/ pc = "to_rgb" /\ pc' = "to_nv12"
         \/ pc = "to_nv12" /\ pc' = IF first_frame THEN "copy_out" ELSE "estimate"
         \/ pc = "estimate" /\ pc' = "timespan"
         \/ pc = "propagate" /\ pc' = "gather"
         \/ pc = "gather" /\ pc' = IF input.overlay THEN "overlay" ELSE "move"
         \/ pc = "overlay" /\ pc' = "move"
  BY DEF Pass, Goto, Gpu!Execute
<1>2. curr_frame = i + 1 /\ i \in Nat
  BY <1>1, FrameNumbers DEF ControlInv, Counting, Branches, Body, Reading, MainTypes
<1>3. MainTypes' /\ Branches'
  BY <1>1, <1>2, SameInput DEF ControlInv, MainTypes, Branches, Labels, Body, Reading
<1> QED
  BY <1>1, <1>3, BodyControl DEF ControlInv, Body, Reading

\* ... the first frame is copied ...
LEMMA CopyOutControl ==
    ASSUME ControlInv, CallInv, CopyOut
    PROVE  ControlInv'
<1>1. CASE ExecuteEmpty("copy_out_flush", "move")
  BY <1>1, ExecuteEmptyControl
<1>2. CASE ~ExecuteEmpty("copy_out_flush", "move")
  <2>1. /\ UNCHANGED <<main_vars, frame_index>> /\ pc = "copy_out" /\ pc' = "copy_out_flush"
    BY <1>2 DEF CopyOut, Goto, Gpu!ExecuteAndReset
  <2>2. MainTypes' /\ Branches'
    BY <2>1, SameInput DEF main_vars, ControlInv, MainTypes, Branches, Labels, Body, Reading
  <2> QED
    BY <2>1, <2>2, BodyControl DEF ControlInv, Body, Reading, main_vars
<1> QED
  BY <1>1, <1>2

\* ... and the timespan is set.
LEMMA SetTimespanControl == ASSUME ControlInv, CallInv, SetTimespan PROVE ControlInv'
<1>1. /\ UNCHANGED <<input, i, total_frames, plane, curr_frame, first_frame, created, saved, frame_index>>
      /\ pc = "timespan" /\ pc' = "propagate"
  BY DEF SetTimespan, Goto, gpu_vars
<1>2. MainTypes' /\ Branches'
  BY <1>1, SameInput DEF ControlInv, MainTypes, Branches, Labels, Body, Reading
<1> QED
  BY <1>1, <1>2, BodyControl DEF ControlInv, Body, Reading

\* MoveToNextFrame goes to the slot of the next frame.
LEMMA MoveControl == ASSUME ControlInv, CallInv, Move PROVE ControlInv'
<1>1. /\ UNCHANGED main_vars /\ pc = "move" /\ pc' = "after"
      /\ frame_index' = Gpu!NextSlot(frame_index)
  BY DEF Move, Goto, Gpu!MoveToNextFrame
<1>2. curr_frame = i + 1 /\ i \in Nat /\ frame_index = SlotOf(curr_frame) /\ input.frames > 0
      /\ total_frames = 0
  BY <1>1, FrameNumbers DEF ControlInv, Counting, Branches, Body, Reading, MainTypes
<1>3. frame_index' = SlotOf(curr_frame + 1)
  BY <1>1, <1>2, SlotOfFrame
<1>4. MainTypes' /\ Branches'
  BY <1>1, <1>2, <1>3, SameInput DEF main_vars, ControlInv, MainTypes, Branches, Labels, Body, Reading
<1>5. EmptyInput'
  BY <1>1, <1>2 DEF main_vars, EmptyInput
<1>6. Counting'
  BY <1>1, <1>2 DEF main_vars, ControlInv, Counting, Body, Reading, Ending, Final
<1> QED
  BY <1>4, <1>5, <1>6 DEF ControlInv

\* After the last frame the loop reads no more.
LEMMA SkipReadControl == ASSUME ControlInv, CallInv, SkipRead PROVE ControlInv'
<1>1. /\ UNCHANGED <<main_vars, frame_index>> /\ pc = "loop" /\ pc' = "after" /\ total_frames # 0
  BY DEF SkipRead, Goto, gpu_vars
<1>2. MainTypes' /\ Branches'
  BY <1>1, SameInput DEF main_vars, ControlInv, MainTypes, Branches, Labels, Body, Reading
<1>3. EmptyInput'
  BY <1>1 DEF main_vars, ControlInv, EmptyInput
<1>4. Counting'
  BY <1>1 DEF main_vars, ControlInv, Counting, Body, Reading, Ending, Final
<1> QED
  BY <1>2, <1>3, <1>4 DEF ControlInv

\* The frame whose turn it is to be saved, and its slot.
LEMMA SavingFrame ==
    ASSUME ControlInv, input.frames > 0, i >= FrameCount - 1,
           pc \in {"after", "readback", "readback_wait", "save"}
    PROVE  /\ Len(saved) = i - (FrameCount - 1)
           /\ Len(saved) + 1 \in 1 .. curr_frame
           /\ SavingIndex = Len(saved)
           /\ SavingSlot = SlotOf(Len(saved) + 1)
           /\ SavedTexture
<1>1. i \in Nat /\ Len(saved) \in Nat /\ curr_frame \in Nat /\ input.frames \in Nat /\ total_frames \in Nat
      /\ FrameCount \in Nat \ {0, 1}
  BY FrameNumbers, SlotNumbers DEF ControlInv, MainTypes
<1>2. Len(saved) = i - (FrameCount - 1)
  BY <1>1 DEF ControlInv, Counting, SavedBy, Final
<1>3. Len(saved) + 1 <= curr_frame
  BY <1>1, <1>2 DEF ControlInv, Counting, Ending
<1>4. SavingIndex = Len(saved)
  BY <1>2 DEF SavingIndex
<1>5. SavingSlot = SlotOf(Len(saved) + 1)
  <2>1. Len(saved) + 1 - 1 = Len(saved)
    BY <1>1
  <2> QED
    BY <1>4, <2>1 DEF SavingSlot, SlotOf
<1>6. SavingSlot <= Len(saved)
  <2>1. Len(saved) % FrameCount <= Len(saved)
    BY <1>1, SMTT(30)
  <2> QED
    BY <2>1, <1>4 DEF SavingSlot
<1>7. SavingSlot \in Int
  BY <1>1, <1>5, SlotOfFrame
<1> QED
  BY <1>1, <1>2, <1>3, <1>4, <1>5, <1>6, <1>7 DEF SavedTexture

\* The loop polls the threads, and has a frame to save or not.
LEMMA PollThreadsControl == ASSUME ControlInv, CallInv, PollThreads PROVE ControlInv'
<1>1. /\ UNCHANGED <<input, i, total_frames, plane, curr_frame, first_frame, created, saved, frame_index>>
      /\ pc = "after"
      /\ pc' = IF i >= FrameCount - 1 THEN IF SavedTexture THEN "readback" ELSE "aborted"
                                      ELSE "loop_end"
  BY DEF PollThreads, Goto, gpu_vars
<1>2. input.frames > 0 /\ i >= FrameCount - 1 => SavedTexture
  BY <1>1, SavingFrame
<1>3. MainTypes' /\ Branches'
  BY <1>1, SameInput DEF ControlInv, MainTypes, Branches, Labels, Body, Reading
<1>4. EmptyInput'
  <2>1. CASE input.frames = 0 /\ i >= FrameCount - 1
    <3>1. ~SavedTexture
      <4>1. SavingSlot \in 0 .. FrameCount - 1
        <5>1. SavingIndex \in Int
          BY SlotNumbers DEF SavingIndex, ControlInv, MainTypes
        <5> QED
          BY <5>1, SlotNumbers, Division DEF SavingSlot
      <4> QED
        BY <1>1, <2>1, <4>1 DEF ControlInv, EmptyInput, SavedTexture
    <3> QED
      BY <1>1, <2>1, <3>1 DEF ControlInv, EmptyInput, MainTypes
  <2>2. CASE input.frames = 0 /\ ~(i >= FrameCount - 1)
    BY <1>1, <2>2, SlotNumbers DEF ControlInv, EmptyInput, MainTypes
  <2> QED
    BY <1>1, <2>1, <2>2 DEF EmptyInput
<1>5. Counting'
  BY <1>1, <1>2, SlotNumbers, FrameNumbers DEF ControlInv, Counting, MainTypes, Body, Reading, Ending,
     Final, SavedBy
<1> QED
  BY <1>3, <1>4, <1>5 DEF ControlInv

\* The frame whose turn it is is read back.
LEMMA ReadbackControl ==
    ASSUME ControlInv, CallInv, Readback \/ ReadbackWait
    PROVE  ControlInv'
<1>1. /\ UNCHANGED <<main_vars, frame_index>>
      /\ \/ pc = "readback" /\ pc' = "readback_wait"
         \/ pc = "readback_wait" /\ pc' = "save"
  BY DEF Readback, ReadbackWait, Goto, Gpu!ExecuteAndReset, Gpu!WaitForGpu
<1>2. MainTypes' /\ Branches'
  BY <1>1, SameInput DEF main_vars, ControlInv, MainTypes, Branches, Labels, Body, Reading
<1>3. EmptyInput'
  BY <1>1 DEF main_vars, ControlInv, EmptyInput
<1>4. Counting'
  BY <1>1 DEF main_vars, ControlInv, Counting, Body, Reading, Ending, Final
<1> QED
  BY <1>2, <1>3, <1>4 DEF ControlInv

\* One more frame is saved.
LEMMA SaveControl ==
    ASSUME ControlInv, CallInv, SaveTexture, tex["memory"][SavingSlot] \in Content
    PROVE  ControlInv' /\ Len(saved') = Len(saved) + 1
<1>1. /\ UNCHANGED <<input, i, total_frames, plane, curr_frame, first_frame, created, frame_index>>
      /\ pc = "save" /\ pc' = "loop_end"
      /\ saved' = Append(saved, tex["memory"][SavingSlot])
  BY DEF SaveTexture, Goto, Gpu!Execute
<1>2. saved' \in Seq(Content) /\ Len(saved') = Len(saved) + 1 /\ Len(saved) \in Nat
  BY <1>1 DEF ControlInv, MainTypes
<1>3. MainTypes' /\ Branches'
  BY <1>1, <1>2, SameInput DEF ControlInv, MainTypes, Branches, Labels, Body, Reading
<1>4. EmptyInput'
  BY <1>1 DEF ControlInv, EmptyInput
<1>5. Counting'
  BY <1>1, <1>2, SlotNumbers, FrameNumbers DEF ControlInv, MainTypes, Counting, Body, Reading, Ending,
     Final, SavedBy
<1> QED
  BY <1>2, <1>3, <1>4, <1>5 DEF ControlInv

\* The loop goes on or ends.
LEMMA LoopEndControl == ASSUME ControlInv, CallInv, LoopEnd PROVE ControlInv'
<1>1. /\ UNCHANGED <<input, total_frames, plane, curr_frame, first_frame, created, saved, frame_index>>
      /\ pc = "loop_end"
      /\ \/ total_frames # 0 /\ i = total_frames - 1 + FrameCount - 1 /\ pc' = "join" /\ i' = i
         \/ ~(total_frames # 0 /\ i = total_frames - 1 + FrameCount - 1) /\ pc' = "loop" /\ i' = i + 1
  BY DEF LoopEnd, LoopEndsAt, Goto, gpu_vars
<1>2. MainTypes' /\ Branches'
  BY <1>1, SameInput DEF ControlInv, MainTypes, Branches, Labels, Body, Reading
<1>3. EmptyInput'
  BY <1>1, SlotNumbers DEF ControlInv, EmptyInput, MainTypes
<1>4. Counting'
  BY SMTT(30), <1>1, SlotNumbers, FrameNumbers DEF ControlInv, MainTypes, Counting, Body, Reading,
     Ending, Final, SavedBy
<1> QED
  BY <1>2, <1>3, <1>4 DEF ControlInv

\* The threads are joined and the queues drained.
LEMMA EndControl == ASSUME ControlInv, CallInv, JoinThreads \/ FinalWait PROVE ControlInv'
<1>1. /\ UNCHANGED <<main_vars, frame_index>>
      /\ \/ pc = "join" /\ pc' = "final_wait"
         \/ pc = "final_wait" /\ pc' = "done"
  BY DEF JoinThreads, FinalWait, Goto, gpu_vars, Gpu!WaitForGpu
<1>2. MainTypes' /\ Branches'
  BY <1>1, SameInput DEF main_vars, ControlInv, MainTypes, Branches, Labels, Body, Reading
<1>3. EmptyInput'
  BY <1>1 DEF main_vars, ControlInv, EmptyInput
<1>4. Counting'
  BY <1>1 DEF main_vars, ControlInv, Counting, Body, Reading, Ending, Final
<1> QED
  BY <1>2, <1>3, <1>4 DEF ControlInv

\* Steps that leave the control of the program alone.
LEMMA OtherControl ==
    ASSUME ControlInv,
           \/ \E q \in Gpu!CmdQueues : CreateCommandList(q)
           \/ GpuCall
           \/ \E k \in DOMAIN writer : WriteFile(k)
           \/ \E q \in Gpu!CmdQueues : GpuRuns(q)
           \/ UNCHANGED vars
    PROVE  ControlInv'
<1>1. UNCHANGED <<input, pc, i, total_frames, plane, curr_frame, first_frame, created, saved>>
  BY DEF CreateCommandList, GpuCall, WriteFile, GpuRuns, vars, main_vars
<1>2. frame_index' = frame_index
  <2>1. ASSUME NEW q, Gpu!CreateCommandList(q) PROVE frame_index' = frame_index
    BY <2>1 DEF Gpu!CreateCommandList
  <2>2. ASSUME Gpu!CallStep PROVE frame_index' = frame_index
    BY <2>2 DEF Gpu!CallStep, Gpu!PaceWait, Gpu!PaceDone, Gpu!StartSlot, Gpu!FlushSignal,
       Gpu!FlushWait, Gpu!FlushPassed, Gpu!FlushSkip, Gpu!FlushWoken, Gpu!WaitForGpuReturns
  <2>3. ASSUME NEW q, Gpu!GpuStep(q) PROVE frame_index' = frame_index
    BY <2>3 DEF Gpu!GpuStep, Gpu!GpuWait, Gpu!GpuExec, Gpu!GpuSignal
  <2> QED
    BY <2>1, <2>2, <2>3 DEF CreateCommandList, GpuCall, WriteFile, GpuRuns, vars, gpu_vars
<1> QED
  BY <1>1, <1>2, ControlKept DEF ControlInv, MainTypes

\* Every step keeps the control of the program as it is described.
LEMMA ControlStep ==
    ASSUME ControlInv, CallInv, tex["memory"][SavingSlot] \in Content, [Next]_vars
    PROVE  ControlInv'
<1>1. CASE VideoRead
  BY <1>1, CopyPlaneControl, ExecuteEmptyControl DEF VideoRead
<1>2. CASE CopyIn
  BY <1>2, CopyPlaneControl, ExecuteEmptyControl DEF CopyIn
<1>3. CASE ConvertToRgb \/ ConvertToNv12 \/ EstimateMotionVectors \/ PropagateMotionBlur
           \/ GatherMotionBlur \/ OverlayMotionVector
  BY <1>3, PassControl DEF ConvertToRgb, ConvertToNv12, EstimateMotionVectors,
     PropagateMotionBlur, GatherMotionBlur, OverlayMotionVector
<1> QED
  BY <1>1, <1>2, <1>3, UploadRandomTexControl, ReadFrameControl, UploadControl, AddFrameControl, CopyOutControl,
     SetTimespanControl, MoveControl, SkipReadControl, PollThreadsControl, ReadbackControl,
     SaveControl, LoopEndControl, EndControl, OtherControl DEF Next, Main

\* The program begins that way.
LEMMA ControlInit == Faultless /\ Init => ControlInv
<1> SUFFICES ASSUME Faultless, Init PROVE ControlInv
  OBVIOUS
<1>1. /\ pc = "random_tex" /\ i = 0 /\ total_frames = 0 /\ plane = 0 /\ curr_frame = 0
      /\ first_frame = FALSE /\ created = FALSE /\ saved = <<>> /\ frame_index = 0
      /\ input \in [source : Sources, frames : FrameNums, unreadable : {{}}, overlay : BOOLEAN]
  BY DEF Init, Gpu!Init, Stream!Inputs, Faultless
<1>2. input.frames \in Nat
  <2>1. input.frames \in FrameNums
    BY <1>1
  <2> QED
    BY <2>1, ProgramAssumption
<1>3. saved \in Seq(Content) /\ Len(saved) = 0
  BY <1>1
<1>4. MainTypes
  <2>1. plane \in 0 .. LastPlane /\ curr_frame \in 0 .. input.frames
    BY <1>1, <1>2 DEF LastPlane
  <2> QED
    BY <1>1, <1>3, <2>1 DEF MainTypes, Labels
<1>5. EmptyInput
  BY <1>1, SlotNumbers DEF EmptyInput
<1>6. Counting
  BY <1>1, <1>3, SlotNumbers DEF Counting, Body, Reading, Ending, Final, SavedBy
<1>7. SlotOf(1) = 0
  BY SlotNumbers, SlotOfFrame
<1>8. Branches
  BY <1>1, <1>7 DEF Branches, Body, Reading
<1> QED
  BY <1>4, <1>5, <1>6, <1>8 DEF ControlInv

\* Lists are open for the current slot, and calls that wait happen where the program
\* makes them.
LEMMA CallInvInit == Faultless /\ Init => CallInv
  BY SlotNumbers DEF Faultless, Init, Gpu!Init, CallInv, Gpu!InPace, Gpu!CmdQueues, Gpu!Compute, Gpu!VideoEncode,
     Gpu!NoSlot

\* A submission keeps the calls and the open lists.
LEMMA CallInvSubmit ==
    ASSUME CallInv, ProgramInv, NEW q \in {0, 1}, NEW v, NEW job,
           Gpu!Execute(q, v, job) \/ Gpu!ExecuteAndReset(q, v, job), pc \notin {"done"}
    PROVE  CallInv'
<1>1. /\ device' = device /\ call = "idle" /\ call' = call /\ frame_index' = frame_index
      /\ open' = [open EXCEPT ![q] = FrameCount] \/ open' = [open EXCEPT ![q] = frame_index]
  BY DEF Gpu!Execute, Gpu!ExecuteAndReset, Gpu!ExecuteOnly, Gpu!Ready, Gpu!NoSlot
<1>2. open \in [{0, 1} -> (0 .. FrameCount)]
  BY SMTT(30), SlotNumbers DEF ProgramInv, Known!TypeOK, Known!Slots, Known!NoSlot, Known!CmdQueues,
     Known!Compute, Known!VideoEncode
<1>3. \A p \in {0, 1} : open'[p] \in {FrameCount, frame_index'}
  BY <1>1, <1>2 DEF CallInv
<1> QED
  BY <1>1, <1>3 DEF CallInv, Gpu!InPace

\* Calls of the program into GpuSystem keep them.
LEMMA CallInvStep ==
    ASSUME CallInv, ProgramInv, [Next]_vars
    PROVE  CallInv'
<1>0. /\ open \in [{0, 1} -> (0 .. FrameCount)] /\ FrameCount \notin 0 .. FrameCount - 1
      /\ Gpu!CmdQueues = {0, 1} /\ Gpu!NoSlot = FrameCount
  BY SMTT(30), SlotNumbers DEF ProgramInv, Known!TypeOK, Known!Slots, Known!NoSlot, Known!CmdQueues,
     Known!Compute, Known!VideoEncode, Gpu!CmdQueues, Gpu!Compute, Gpu!VideoEncode, Gpu!NoSlot
<1>1. ASSUME NEW q \in {0, 1}, CreateCommandList(q) PROVE CallInv'
  <2>1. /\ UNCHANGED <<device, call, frame_index, pc>> /\ call = "idle"
        /\ open' = [open EXCEPT ![q] = frame_index]
    BY <1>1 DEF CreateCommandList, Gpu!CreateCommandList, Gpu!Ready
  <2>2. \A p \in {0, 1} : open'[p] \in {FrameCount, frame_index'}
    BY <1>0, <2>1 DEF CallInv
  <2> QED
    BY <2>1, <2>2 DEF CallInv, Gpu!InPace
<1>2. CASE ReadFrame \/ SkipRead \/ AddFrame \/ SetTimespan \/ PollThreads \/ LoopEnd \/ JoinThreads
           \/ (\E k \in DOMAIN writer : WriteFile(k)) \/ UNCHANGED vars
  <2>1. UNCHANGED <<device, call, frame_index, open>>
    BY <1>2 DEF ReadFrame, SkipRead, AddFrame, SetTimespan, PollThreads, LoopEnd, LoopEndsAt, JoinThreads,
       WriteFile, vars, gpu_vars
  <2>2. pc' = pc \/ call = "idle" \/ pc \notin {"after", "save", "done"}
    BY <1>2 DEF ReadFrame, SkipRead, AddFrame, SetTimespan, PollThreads, LoopEnd, LoopEndsAt, JoinThreads,
       WriteFile, vars, Idle, Goto
  <2> QED
    BY <2>1, <2>2 DEF CallInv, Gpu!InPace
<1>3. CASE UploadRandomTex \/ Upload \/ VideoRead \/ CopyIn \/ ConvertToRgb \/ ConvertToNv12 \/ CopyOut
           \/ EstimateMotionVectors \/ PropagateMotionBlur \/ GatherMotionBlur \/ OverlayMotionVector
           \/ Readback \/ SaveTexture
  <2>1. \E q \in {0, 1} : \E v, job : Gpu!Execute(q, v, job) \/ Gpu!ExecuteAndReset(q, v, job)
    <3>1. CASE UploadRandomTex \/ Upload \/ VideoRead \/ CopyIn \/ CopyOut \/ Readback \/ SaveTexture
      <4>1. \E v, job : Gpu!Execute(Compute, v, job) \/ Gpu!ExecuteAndReset(Compute, v, job)
        BY <3>1, Zenon DEF UploadRandomTex, Upload, VideoRead, CopyIn, CopyOut, Readback,
           SaveTexture, CopyPlane, ExecuteEmpty
      <4> QED
        BY <4>1 DEF Compute, Gpu!Compute
    <3>2. CASE ConvertToRgb \/ ConvertToNv12 \/ PropagateMotionBlur \/ GatherMotionBlur \/ OverlayMotionVector
      <4>1. \E v, job : Gpu!Execute(Compute, v, job)
        BY <3>2, Zenon DEF ConvertToRgb, ConvertToNv12, PropagateMotionBlur, GatherMotionBlur,
           OverlayMotionVector, Pass
      <4> QED
        BY <4>1 DEF Compute, Gpu!Compute
    <3>3. CASE EstimateMotionVectors
      <4>1. \E v, job : Gpu!Execute(VideoEncode, v, job)
        BY <3>3, Zenon DEF EstimateMotionVectors, Pass
      <4> QED
        BY <4>1 DEF VideoEncode, Gpu!VideoEncode
    <3> QED
      BY <1>3, <3>1, <3>2, <3>3
  <2>2. pc # "done"
    BY <1>3 DEF UploadRandomTex, Upload, VideoRead, CopyIn, CopyOut, Readback, SaveTexture, CopyPlane,
       ExecuteEmpty, ConvertToRgb, ConvertToNv12, EstimateMotionVectors, PropagateMotionBlur, GatherMotionBlur,
       OverlayMotionVector, Pass
  <2> QED
    BY <2>1, <2>2, CallInvSubmit
<1>4. CASE Move
  <2>1. /\ device' = device /\ pc' = "after" /\ call' = "pace" /\ open' = open
        /\ \A q \in {0, 1} : open[q] = FrameCount
    BY <1>0, <1>4 DEF Move, Goto, Gpu!MoveToNextFrame
  <2> QED
    BY <2>1 DEF CallInv, Gpu!InPace
<1>5. CASE ReadbackWait \/ FinalWait
  <2>1. /\ UNCHANGED <<device, frame_index, open>> /\ pc' \in {"save", "done"} /\ call' = "flush"
    BY <1>5 DEF ReadbackWait, FinalWait, Goto, Gpu!WaitForGpu
  <2> QED
    BY <2>1 DEF CallInv, Gpu!InPace
<1>6. CASE GpuCall
  <2>1. UNCHANGED <<device, frame_index, open, pc>>
    BY <1>6 DEF GpuCall, Gpu!CallStep, Gpu!PaceWait, Gpu!PaceDone, Gpu!StartSlot, Gpu!FlushSignal,
       Gpu!FlushWait, Gpu!FlushPassed, Gpu!FlushSkip, Gpu!FlushWoken, Gpu!WaitForGpuReturns
  <2>2. \/ call' = "idle"
        \/ call \in {"pace", "pace_await"} /\ call' \in {"pace", "pace_await"}
        \/ call \in {"flush", "check", "await"} /\ call' \in {"flush", "check", "await"}
    BY <1>6 DEF GpuCall, Gpu!CallStep, Gpu!PaceWait, Gpu!PaceDone, Gpu!StartSlot, Gpu!FlushSignal,
       Gpu!FlushWait, Gpu!FlushPassed, Gpu!FlushSkip, Gpu!FlushWoken, Gpu!WaitForGpuReturns
  <2> QED
    BY <2>1, <2>2 DEF CallInv, Gpu!InPace
<1>7. ASSUME NEW q \in {0, 1}, GpuRuns(q) PROVE CallInv'
  <2>1. UNCHANGED <<device, frame_index, open, pc, call>>
    BY <1>7 DEF GpuRuns, Gpu!GpuStep, Gpu!GpuWait, Gpu!GpuExec, Gpu!GpuSignal
  <2> QED
    BY <2>1 DEF CallInv, Gpu!InPace
<1> QED
  BY <1>0, <1>1, <1>2, <1>3, <1>4, <1>5, <1>6, <1>7 DEF Next, Main

(****************************************************************************)
(* What is left of a queue when the GPU runs its head                        *)
(****************************************************************************)

\* What is pending in a queue.
PendingIn(s, x, r) == \E m \in 1 .. Len(s) : IsReal(s[m]) /\ s[m].job.slot = x /\ Rank(s[m].job) = r

\* The ranks.
LEMMA RankRange ==
    ASSUME NEW job \in Jobs
    PROVE  Rank(job) \in 1 .. 11
<1>1. CASE job \in [op : {"read"}, slot : 0 .. FrameCount - 1, plane : {0, 1}, frame : Nat]
  <2>1. job.op = "read" /\ job.plane \in {0, 1}
    BY <1>1
  <2> QED
    BY <2>1 DEF Rank
<1>2. CASE job \in [op : {"copy_in"}, slot : 0 .. FrameCount - 1, plane : {0, 1}]
  <2>1. job.op = "copy_in" /\ job.plane \in {0, 1}
    BY <1>2
  <2> QED
    BY <2>1 DEF Rank
<1>3. CASE job.op \notin {"read", "copy_in"}
  BY <1>3 DEF Rank
<1> QED
  BY <1>1, <1>2, <1>3 DEF Jobs

\* The entries of a queue.
LEMMA EntryFacts ==
    ASSUME NEW s \in Seq(Known!Entry)
    PROVE  \A m \in 1 .. Len(s) :
             /\ s[m] \in Known!Entry /\ s[m].val \in Nat
             /\ IsWait(s[m]) => ~IsReal(s[m]) /\ ~IsSignal(s[m])
             /\ IsSignal(s[m]) => ~IsReal(s[m])
             /\ IsReal(s[m]) => s[m].job \in Jobs
<1> SUFFICES ASSUME NEW m \in 1 .. Len(s) PROVE
             /\ s[m] \in Known!Entry /\ s[m].val \in Nat
             /\ IsWait(s[m]) => ~IsReal(s[m]) /\ ~IsSignal(s[m])
             /\ IsSignal(s[m]) => ~IsReal(s[m])
             /\ IsReal(s[m]) => s[m].job \in Jobs
  OBVIOUS
<1>1. s[m] \in Known!Entry
  OBVIOUS
<1> QED
  BY <1>1 DEF Known!Entry, IsWait, IsReal, IsSignal

\* How the fence may move when the head of a queue is run.
Runs(e, f, g) ==
    /\ IF IsSignal(e) THEN g <= f \/ g = e.val ELSE g = f
    /\ IsWait(e) => f >= e.val

\* What is left of a queue when its head has been run.
LEMMA PopOwn ==
    ASSUME NEW s \in Seq(Known!Entry), s # <<>>, NEW t, t = Tail(s)
    PROVE  /\ Ticketed(s) => Ticketed(t)
           /\ RanksGrow(s) => RanksGrow(t)
           /\ \A q : Homes(s, q) => Homes(t, q)
           /\ \A x : ListsAt(s, x) => ListsAt(t, x)
           /\ \A v : SignalsBelow(v, s) => SignalsBelow(v, t)
<1>1. /\ t \in Seq(Known!Entry) /\ Len(t) = Len(s) - 1 /\ Len(s) \in Nat \ {0}
      /\ \A n \in 1 .. Len(t) : t[n] = s[n + 1]
  BY Known!Popped
<1> HIDE DEF IsReal, IsSignal, IsWait, Rank
<1>2. Ticketed(s) => Ticketed(t)
  <2> SUFFICES ASSUME Ticketed(s), NEW m \in 1 .. Len(t), IsReal(t[m])
               PROVE  /\ m < Len(t) /\ IsSignal(t[m + 1])
                      /\ \A k \in 1 .. m : IsSignal(t[k]) => t[k].val < t[m + 1].val
    BY DEF Ticketed
  <2>1. m + 1 \in 1 .. Len(s) /\ IsReal(s[m + 1])
    BY <1>1
  <2>2. /\ m + 1 < Len(s) /\ IsSignal(s[m + 1 + 1])
        /\ \A k \in 1 .. m + 1 : IsSignal(s[k]) => s[k].val < s[m + 1 + 1].val
    BY <2>1 DEF Ticketed
  <2>3. t[m + 1] = s[m + 1 + 1] /\ m < Len(t)
    BY <1>1, <2>2
  <2>4. \A k \in 1 .. m : t[k] = s[k + 1] /\ k + 1 \in 1 .. m + 1
    BY <1>1
  <2> QED
    BY <2>2, <2>3, <2>4
<1>3. RanksGrow(s) => RanksGrow(t)
  BY <1>1 DEF RanksGrow
<1>4. \A q : Homes(s, q) => Homes(t, q)
  BY <1>1 DEF Homes
<1>5. \A x : ListsAt(s, x) => ListsAt(t, x)
  BY <1>1 DEF ListsAt
<1>6. \A v : SignalsBelow(v, s) => SignalsBelow(v, t)
  BY <1>1 DEF SignalsBelow
<1> QED
  BY <1>2, <1>3, <1>4, <1>5, <1>6

\* A value that is awaited from queue s is still awaited when the head of s has been run.
LEMMA PopAwaited ==
    ASSUME NEW s \in Seq(Known!Entry), s # <<>>, NEW t, t = Tail(s), NEW f \in Nat, NEW g \in Nat,
           Runs(s[1], f, g), Ticketed(s), NEW v \in Nat, Awaits(v, s, f)
    PROVE  Awaits(v, t, g)
<1>1. /\ t \in Seq(Known!Entry) /\ Len(t) = Len(s) - 1 /\ Len(s) \in Nat \ {0}
      /\ \A n \in 1 .. Len(t) : t[n] = s[n + 1]
  BY Known!Popped
<1> SUFFICES ASSUME NEW k \in 1 .. Len(t), IsReal(t[k]), t[k + 1].val <= v PROVE g < v
  BY DEF Awaits
<1>2. k + 1 \in 1 .. Len(s) /\ IsReal(s[k + 1])
  BY <1>1
<1>3. /\ k + 1 < Len(s) /\ (IsSignal(s[1]) => s[1].val < s[k + 1 + 1].val)
  BY <1>1, <1>2 DEF Ticketed
<1>4. t[k + 1] = s[k + 1 + 1]
  BY <1>1, <1>3
<1>5. f < v
  BY <1>2, <1>4 DEF Awaits
<1>6. s[1].val \in Nat /\ s[k + 1 + 1].val \in Nat
  BY <1>1, <1>3, EntryFacts
<1> QED
  BY <1>3, <1>4, <1>5, <1>6 DEF Runs

\* The same when the head of the queue has been run that awaits it.
LEMMA PopAwaiting ==
    ASSUME NEW e, NEW f \in Nat, NEW g \in Nat, Runs(e, f, g), NEW v \in Nat, NEW o,
           IsSignal(e) => e.val < v, Awaits(v, o, f)
    PROVE  Awaits(v, o, g)
  BY DEF Awaits, Runs

\* Waits and what they cover, when the head of the queue or of the other has been run.
LEMMA PopWaits ==
    ASSUME NEW s \in Seq(Known!Entry), s # <<>>, NEW t, t = Tail(s), NEW o \in Seq(Known!Entry),
           NEW f \in Nat, NEW g \in Nat, Runs(s[1], f, g), NEW newest,
           Ticketed(s), WaitsOpen(s, o, f, newest), WaitsOpen(o, s, f, newest)
    PROVE  WaitsOpen(t, o, g, newest) /\ WaitsOpen(o, t, g, newest)
<1>1. /\ t \in Seq(Known!Entry) /\ Len(t) = Len(s) - 1 /\ Len(s) \in Nat \ {0}
      /\ \A n \in 1 .. Len(t) : t[n] = s[n + 1]
  BY Known!Popped
<1>2. WaitsOpen(t, o, g, newest)
  <2> SUFFICES ASSUME NEW m \in 1 .. Len(t), IsWait(t[m])
               PROVE  /\ t[m].val < newest
                      /\ \A k \in 1 .. m : IsSignal(t[k]) => t[k].val < t[m].val
                      /\ Awaits(t[m].val, o, g)
    BY DEF WaitsOpen
  <2>1. m + 1 \in 1 .. Len(s) /\ s[m + 1] = t[m] /\ s[m + 1].val \in Nat
    BY <1>1, EntryFacts
  <2>2. /\ t[m].val < newest
        /\ \A k \in 1 .. m + 1 : IsSignal(s[k]) => s[k].val < t[m].val
        /\ Awaits(t[m].val, o, f)
    BY <2>1 DEF WaitsOpen
  <2>3. \A k \in 1 .. m : t[k] = s[k + 1] /\ k + 1 \in 1 .. m + 1
    BY <1>1
  <2>4. Awaits(t[m].val, o, g)
    <3>1. 1 \in 1 .. m + 1
      OBVIOUS
    <3> QED
      BY <2>1, <2>2, <3>1, PopAwaiting
  <2> QED
    BY <2>2, <2>3, <2>4
<1>3. WaitsOpen(o, t, g, newest)
  <2> SUFFICES ASSUME NEW m \in 1 .. Len(o), IsWait(o[m])
               PROVE  Awaits(o[m].val, t, g)
    BY DEF WaitsOpen
  <2>1. Awaits(o[m].val, s, f) /\ o[m].val \in Nat
    BY EntryFacts DEF WaitsOpen
  <2> QED
    BY ZenonT(40), <2>1, PopAwaited
<1> QED
  BY <1>2, <1>3

\* What the waits cover stays covered.
LEMMA PopCovered ==
    ASSUME NEW s \in Seq(Known!Entry), s # <<>>, NEW t, t = Tail(s), NEW o \in Seq(Known!Entry),
           NEW f \in Nat, NEW g \in Nat, Runs(s[1], f, g), NEW newest, Ticketed(s), Ticketed(o),
           WaitsOpen(s, o, f, newest), Covered(s, o), Covered(o, s)
    PROVE  Covered(t, o) /\ Covered(o, t)
<1>1. /\ t \in Seq(Known!Entry) /\ Len(t) = Len(s) - 1 /\ Len(s) \in Nat \ {0}
      /\ \A n \in 1 .. Len(t) : t[n] = s[n + 1]
  BY Known!Popped
<1>2. Covered(t, o)
  <2> SUFFICES ASSUME NEW m \in 1 .. Len(t), NEW k \in 1 .. Len(o),
                      IsReal(t[m]), IsReal(o[k]), Needs(t[m].job, o[k].job)
               PROVE  m > 1 /\ IsWait(t[m - 1]) /\ o[k + 1].val <= t[m - 1].val
    BY DEF Covered
  <2>1. m + 1 \in 1 .. Len(s) /\ s[m + 1] = t[m] /\ m + 1 - 1 = m
    BY <1>1
  <2>2. IsWait(s[m]) /\ o[k + 1].val <= s[m].val
    <3>1. IsWait(s[(m + 1) - 1]) /\ o[k + 1].val <= s[(m + 1) - 1].val
      <4>1. IsReal(s[m + 1]) /\ Needs(s[m + 1].job, o[k].job)
        BY <2>1
      <4> QED
        BY <2>1, <4>1 DEF Covered
    <3> QED
      BY SMTT(30), <2>1, <3>1
  <2>3. m # 1
    <3> SUFFICES ASSUME m = 1 PROVE FALSE
      OBVIOUS
    <3>1. Awaits(s[1].val, o, f)
      BY <1>1, <2>2 DEF WaitsOpen
    <3>2. f < s[1].val
      BY <3>1, <2>2 DEF Awaits
    <3>3. s[1].val \in Nat
      BY <1>1, EntryFacts
    <3> QED
      BY <2>2, <3>2, <3>3 DEF Runs
  <2>4. m - 1 \in 1 .. Len(t) /\ m - 1 + 1 = m
    BY <2>3
  <2>5. t[m - 1] = s[m]
    BY <1>1, <2>4
  <2> QED
    BY <2>2, <2>3, <2>5
<1>3. Covered(o, t)
  <2> SUFFICES ASSUME NEW m \in 1 .. Len(o), NEW k \in 1 .. Len(t),
                      IsReal(o[m]), IsReal(t[k]), Needs(o[m].job, t[k].job)
               PROVE  m > 1 /\ IsWait(o[m - 1]) /\ t[k + 1].val <= o[m - 1].val
    BY DEF Covered
  <2>1. k + 1 \in 1 .. Len(s) /\ s[k + 1] = t[k]
    BY <1>1
  <2>2. k + 1 < Len(s)
    BY <2>1 DEF Ticketed
  <2>3. t[k + 1] = s[k + 1 + 1]
    BY <1>1, <2>2
  <2> QED
    BY <2>1, <2>3 DEF Covered
<1> QED
  BY <1>2, <1>3

\* What is pending when the head has been run.
LEMMA PopPending ==
    ASSUME NEW s \in Seq(Known!Entry), s # <<>>, NEW t, t = Tail(s), RanksGrow(s)
    PROVE  \A x, r : PendingIn(t, x, r) <=>
             PendingIn(s, x, r) /\ ~(IsReal(s[1]) /\ s[1].job.slot = x /\ Rank(s[1].job) = r)
<1>1. /\ Len(t) = Len(s) - 1 /\ Len(s) \in Nat \ {0}
      /\ \A n \in 1 .. Len(t) : t[n] = s[n + 1]
  BY Known!Popped
<1> TAKE x, r
<1>2. ASSUME PendingIn(t, x, r)
      PROVE  PendingIn(s, x, r) /\ ~(IsReal(s[1]) /\ s[1].job.slot = x /\ Rank(s[1].job) = r)
  <2>1. PICK m \in 1 .. Len(t) : IsReal(t[m]) /\ t[m].job.slot = x /\ Rank(t[m].job) = r
    BY <1>2 DEF PendingIn
  <2>2. m + 1 \in 1 .. Len(s) /\ s[m + 1] = t[m] /\ 1 < m + 1 /\ 1 \in 1 .. Len(s)
    BY <1>1
  <2>3. PendingIn(s, x, r)
    BY <2>1, <2>2 DEF PendingIn
  <2>4. IsReal(s[1]) /\ s[1].job.slot = x => Rank(s[1].job) < Rank(s[m + 1].job)
    BY <2>1, <2>2 DEF RanksGrow
  <2>5. IsReal(s[1]) /\ s[1].job.slot = x => Rank(s[1].job) # r
    <3>1. IsReal(s[1]) => Rank(s[1].job) \in Int
      <4>1. IsReal(s[1]) => s[1].job \in Jobs
        BY <2>2, EntryFacts
      <4> QED
        BY SMTT(30), <4>1, RankRange
    <3> QED
      BY <2>1, <2>2, <2>4, <3>1
  <2> QED
    BY <2>3, <2>5
<1>3. ASSUME PendingIn(s, x, r), ~(IsReal(s[1]) /\ s[1].job.slot = x /\ Rank(s[1].job) = r)
      PROVE  PendingIn(t, x, r)
  <2>1. PICK m \in 1 .. Len(s) : IsReal(s[m]) /\ s[m].job.slot = x /\ Rank(s[m].job) = r
    BY <1>3 DEF PendingIn
  <2>2. m # 1
    BY <1>3, <2>1
  <2>3. m - 1 \in 1 .. Len(t) /\ t[m - 1] = s[m]
    <3>1. m - 1 \in 1 .. Len(t) /\ m - 1 + 1 = m
      BY <1>1, <2>2
    <3> QED
      BY <1>1, <3>1
  <2> QED
    BY <2>1, <2>3 DEF PendingIn
<1> QED
  BY <1>2, <1>3

\* The job that is at the head: no earlier pass of its slot is left in its queue, and
\* what it needs of the other queue is done.
LEMMA HeadJob ==
    ASSUME NEW s \in Seq(Known!Entry), NEW o \in Seq(Known!Entry), s # <<>>, IsReal(s[1]),
           RanksGrow(s), Covered(s, o)
    PROVE  /\ \A r : PendingIn(s, s[1].job.slot, r) => r = Rank(s[1].job) \/ Rank(s[1].job) < r
           /\ \A k \in 1 .. Len(o) : IsReal(o[k]) => ~Needs(s[1].job, o[k].job)
<1>1. 1 \in 1 .. Len(s)
  OBVIOUS
<1>2. \A k \in 1 .. Len(o) : IsReal(o[k]) => ~Needs(s[1].job, o[k].job)
  BY <1>1 DEF Covered
<1>3. ASSUME NEW r, PendingIn(s, s[1].job.slot, r) PROVE r = Rank(s[1].job) \/ Rank(s[1].job) < r
  BY <1>1, <1>3 DEF PendingIn, RanksGrow
<1> QED
  BY <1>2, <1>3

(****************************************************************************)
(* What a queue is that gets an entry                                        *)
(****************************************************************************)

\* A queue that gets an entry which is no list with a job: a signal, a wait or an empty list.
LEMMA AppendOther ==
    ASSUME NEW s \in Seq(Known!Entry), NEW e \in Known!Entry, ~IsReal(e), NEW t, t = Append(s, e),
           NEW o \in Seq(Known!Entry), NEW f, NEW newest, Ticketed(s)
    PROVE  /\ t \in Seq(Known!Entry) /\ Len(t) = Len(s) + 1 /\ t[Len(t)] = e
           /\ Ticketed(t)
           /\ RanksGrow(s) => RanksGrow(t)
           /\ \A q : Homes(s, q) /\ (e.kind = "exec" => q # 1) => Homes(t, q)
           /\ \A x : ListsAt(s, x) /\ (e.kind = "exec" => e.val = x) => ListsAt(t, x)
           /\ \A v : SignalsBelow(v, s) /\ (IsSignal(e) => e.val < v) => SignalsBelow(v, t)
           /\ \A v : Awaits(v, s, f) => Awaits(v, t, f)
           /\ Covered(s, o) => Covered(t, o)
           /\ Covered(o, s) => Covered(o, t)
           /\ \A x, r : PendingIn(t, x, r) <=> PendingIn(s, x, r)
<1>1. /\ t \in Seq(Known!Entry) /\ Len(t) = Len(s) + 1 /\ t[Len(t)] = e /\ Len(s) \in Nat
      /\ \A n \in 1 .. Len(s) : t[n] = s[n]
  BY Known!Appended
<1> HIDE DEF IsReal, IsSignal, IsWait, Rank
<1>2. \A m \in 1 .. Len(t) : IsReal(t[m]) => m \in 1 .. Len(s) /\ t[m] = s[m]
  BY <1>1
<1>3. \A m \in 1 .. Len(t) : IsReal(t[m]) => m + 1 \in 1 .. Len(s) /\ t[m + 1] = s[m + 1]
  BY <1>1, <1>2 DEF Ticketed
<1>4. Ticketed(t)
  <2> SUFFICES ASSUME NEW m \in 1 .. Len(t), IsReal(t[m])
               PROVE  /\ m < Len(t) /\ IsSignal(t[m + 1])
                      /\ \A k \in 1 .. m : IsSignal(t[k]) => t[k].val < t[m + 1].val
    BY DEF Ticketed
  <2>1. m \in 1 .. Len(s) /\ IsReal(s[m]) /\ m + 1 \in 1 .. Len(s) /\ t[m + 1] = s[m + 1]
    BY <1>2, <1>3
  <2>2. \A k \in 1 .. m : t[k] = s[k]
    BY <1>1, <2>1
  <2> QED
    BY <1>1, <2>1, <2>2 DEF Ticketed
<1>5. RanksGrow(s) => RanksGrow(t)
  <2> SUFFICES ASSUME RanksGrow(s), NEW m \in 1 .. Len(t), NEW k \in 1 .. Len(t), m < k, IsReal(t[m]),
                      IsReal(t[k]), t[m].job.slot = t[k].job.slot
               PROVE  Rank(t[m].job) < Rank(t[k].job)
    BY DEF RanksGrow
  <2>1. m \in 1 .. Len(s) /\ t[m] = s[m] /\ k \in 1 .. Len(s) /\ t[k] = s[k]
    BY <1>2
  <2> QED
    BY <2>1 DEF RanksGrow
<1>6. \A q : Homes(s, q) /\ (e.kind = "exec" => q # 1) => Homes(t, q)
  BY <1>1, <1>2 DEF Homes
<1>7. \A x : ListsAt(s, x) /\ (e.kind = "exec" => e.val = x) => ListsAt(t, x)
  BY <1>1 DEF ListsAt
<1>8. \A v : SignalsBelow(v, s) /\ (IsSignal(e) => e.val < v) => SignalsBelow(v, t)
  BY <1>1 DEF SignalsBelow
<1>9. \A v : Awaits(v, s, f) => Awaits(v, t, f)
  BY <1>2, <1>3 DEF Awaits
<1>10. Covered(s, o) => Covered(t, o)
  <2> SUFFICES ASSUME Covered(s, o), NEW m \in 1 .. Len(t), NEW k \in 1 .. Len(o),
                      IsReal(t[m]), IsReal(o[k]), Needs(t[m].job, o[k].job)
               PROVE  m > 1 /\ IsWait(t[m - 1]) /\ o[k + 1].val <= t[m - 1].val
    BY DEF Covered
  <2>1. m \in 1 .. Len(s) /\ t[m] = s[m]
    BY <1>2
  <2>2. m > 1 /\ IsWait(s[m - 1]) /\ o[k + 1].val <= s[m - 1].val
    BY <2>1 DEF Covered
  <2>3. t[m - 1] = s[m - 1]
    BY <1>1, <2>1, <2>2
  <2> QED
    BY <2>2, <2>3
<1>11. Covered(o, s) => Covered(o, t)
  <2> SUFFICES ASSUME Covered(o, s), NEW m \in 1 .. Len(o), NEW k \in 1 .. Len(t),
                      IsReal(o[m]), IsReal(t[k]), Needs(o[m].job, t[k].job)
               PROVE  m > 1 /\ IsWait(o[m - 1]) /\ t[k + 1].val <= o[m - 1].val
    BY DEF Covered
  <2>1. k \in 1 .. Len(s) /\ t[k] = s[k] /\ t[k + 1] = s[k + 1]
    BY <1>2, <1>3
  <2> QED
    BY <2>1 DEF Covered
<1>12. \A x, r : PendingIn(t, x, r) <=> PendingIn(s, x, r)
  <2> TAKE x, r
  <2>1. PendingIn(t, x, r) => PendingIn(s, x, r)
    BY <1>2 DEF PendingIn
  <2>2. PendingIn(s, x, r) => PendingIn(t, x, r)
    <3> SUFFICES ASSUME NEW m \in 1 .. Len(s), IsReal(s[m]), s[m].job.slot = x, Rank(s[m].job) = r
                 PROVE  PendingIn(t, x, r)
      BY DEF PendingIn
    <3>1. m \in 1 .. Len(t) /\ t[m] = s[m]
      BY <1>1
    <3> QED
      BY <3>1 DEF PendingIn
  <2> QED
    BY <2>1, <2>2
<1> QED
  BY <1>1, <1>4, <1>5, <1>6, <1>7, <1>8, <1>9, <1>10, <1>11, <1>12

\* The waits of a queue that gets such an entry, and those of the other queue.
LEMMA AppendOtherWaits ==
    ASSUME NEW s \in Seq(Known!Entry), NEW e \in Known!Entry, ~IsReal(e), NEW t, t = Append(s, e),
           NEW o \in Seq(Known!Entry), NEW f \in Nat, NEW newest \in Nat, Ticketed(s),
           WaitsOpen(s, o, f, newest), WaitsOpen(o, s, f, newest),
           IsWait(e) => e.val < newest /\ SignalsBelow(e.val, s) /\ Awaits(e.val, o, f)
    PROVE  WaitsOpen(t, o, f, newest) /\ WaitsOpen(o, t, f, newest)
<1>1. /\ t \in Seq(Known!Entry) /\ Len(t) = Len(s) + 1 /\ t[Len(t)] = e /\ Len(s) \in Nat
      /\ \A n \in 1 .. Len(s) : t[n] = s[n]
  BY Known!Appended
<1>0. IsWait(e) => ~IsSignal(e)
  BY DEF IsWait, IsSignal
<1> HIDE DEF IsReal, IsSignal, IsWait
<1>2. WaitsOpen(t, o, f, newest)
  <2> SUFFICES ASSUME NEW m \in 1 .. Len(t), IsWait(t[m])
               PROVE  /\ t[m].val < newest
                      /\ \A k \in 1 .. m : IsSignal(t[k]) => t[k].val < t[m].val
                      /\ Awaits(t[m].val, o, f)
    BY DEF WaitsOpen
  <2>1. CASE m \in 1 .. Len(s)
    <3>1. t[m] = s[m] /\ \A k \in 1 .. m : t[k] = s[k]
      BY <1>1, <2>1
    <3> QED
      BY <2>1, <3>1 DEF WaitsOpen
  <2>2. CASE m = Len(t)
    <3>1. t[m] = e /\ IsWait(e)
      BY <1>1, <2>2
    <3>2. \A k \in 1 .. m : IsSignal(t[k]) => k \in 1 .. Len(s) /\ t[k] = s[k]
      BY <1>0, <1>1, <2>2, <3>1
    <3> QED
      BY <3>1, <3>2 DEF SignalsBelow
  <2> QED
    BY SMTT(30), <1>1, <2>1, <2>2
<1>3. WaitsOpen(o, t, f, newest)
  <2> SUFFICES ASSUME NEW m \in 1 .. Len(o), IsWait(o[m]) PROVE Awaits(o[m].val, t, f)
    BY DEF WaitsOpen
  <2>1. Awaits(o[m].val, s, f)
    BY DEF WaitsOpen
  <2>2. \A v : Awaits(v, s, f) => Awaits(v, t, f)
    BY AppendOther
  <2> QED
    BY <2>1, <2>2
<1> QED
  BY <1>2, <1>3

\* Waits stay below a newest value that grows.
LEMMA NewerWaits ==
    ASSUME NEW s \in Seq(Known!Entry), NEW o, NEW f, NEW newest \in Nat, NEW newer \in Nat, newest <= newer,
           WaitsOpen(s, o, f, newest)
    PROVE  WaitsOpen(s, o, f, newer)
<1>1. \A m \in 1 .. Len(s) : s[m].val \in Nat
  BY EntryFacts
<1> QED
  BY <1>1 DEF WaitsOpen

\* A queue that gets a list with a job and its signal.
LEMMA AppendList ==
    ASSUME NEW s \in Seq(Known!Entry), NEW e \in Known!Entry, IsReal(e), NEW g \in Known!Entry, IsSignal(g),
           NEW t, t = Append(Append(s, e), g),
           Ticketed(s), SignalsBelow(g.val, s)
    PROVE  /\ t \in Seq(Known!Entry) /\ Len(t) = Len(s) + 2
           /\ Ticketed(t)
           /\ RanksGrow(s) /\ (\A r : PendingIn(s, e.job.slot, r) => r < Rank(e.job)) => RanksGrow(t)
           /\ \A q : Homes(s, q) /\ (e.job.op = "estimate" <=> q = 1)
                       /\ (e.val = e.job.slot \/ e.job.op = "readback") => Homes(t, q)
           /\ \A x : ListsAt(s, x) /\ e.val = x => ListsAt(t, x)
           /\ \A v : SignalsBelow(v, s) /\ g.val < v => SignalsBelow(v, t)
           /\ \A x, r : PendingIn(t, x, r) <=>
                PendingIn(s, x, r) \/ (e.job.slot = x /\ Rank(e.job) = r)
<1>0. ~IsSignal(e) /\ ~IsReal(g) /\ g.kind # "exec" /\ g.val \in Nat /\ e.job # NoJob
  BY DEF IsSignal, IsReal, Known!Entry
<1> DEFINE u == Append(s, e)
<1>1. /\ u \in Seq(Known!Entry) /\ Len(u) = Len(s) + 1 /\ u[Len(s) + 1] = e /\ Len(s) \in Nat
      /\ \A n \in 1 .. Len(s) : u[n] = s[n]
  BY Known!Appended
<1>2. /\ t \in Seq(Known!Entry) /\ Len(t) = Len(s) + 2 /\ t[Len(s) + 2] = g
      /\ \A n \in 1 .. Len(s) + 1 : t[n] = u[n]
  <2>1. t = Append(u, g)
    OBVIOUS
  <2> HIDE DEF u
  <2>2. /\ t \in Seq(Known!Entry) /\ Len(t) = Len(u) + 1 /\ t[Len(u) + 1] = g
        /\ \A n \in 1 .. Len(u) : t[n] = u[n]
    BY <1>1, <2>1, Known!Appended
  <2> QED
    BY <1>1, <2>2
<1>3. t[Len(s) + 1] = e /\ \A n \in 1 .. Len(s) : t[n] = s[n]
  BY <1>1, <1>2
<1> HIDE DEF u, IsReal, IsSignal, IsWait, Rank
<1>4. \A m \in 1 .. Len(t) : m \in 1 .. Len(s) \/ m = Len(s) + 1 \/ m = Len(s) + 2
  BY <1>1, <1>2
<1>5. Ticketed(t)
  <2> SUFFICES ASSUME NEW m \in 1 .. Len(t), IsReal(t[m])
               PROVE  /\ m < Len(t) /\ IsSignal(t[m + 1])
                      /\ \A k \in 1 .. m : IsSignal(t[k]) => t[k].val < t[m + 1].val
    BY DEF Ticketed
  <2>1. CASE m \in 1 .. Len(s)
    <3>1. m < Len(s) /\ t[m] = s[m] /\ IsSignal(s[m + 1])
          /\ \A k \in 1 .. m : IsSignal(s[k]) => s[k].val < s[m + 1].val
      BY <1>3, <2>1 DEF Ticketed
    <3>2. t[m + 1] = s[m + 1] /\ \A k \in 1 .. m : t[k] = s[k]
      BY <1>1, <1>3, <2>1, <3>1
    <3> QED
      BY <1>1, <1>2, <3>1, <3>2
  <2>2. CASE m = Len(s) + 1
    <3>1. t[m + 1] = g
      BY <1>1, <1>2, <2>2
    <3>2. \A k \in 1 .. m : IsSignal(t[k]) => k \in 1 .. Len(s) /\ t[k] = s[k]
      BY <1>0, <1>1, <1>3, <2>2
    <3> QED
      BY <1>1, <1>2, <2>2, <3>1, <3>2 DEF SignalsBelow
  <2> QED
    BY <1>0, <1>2, <1>4, <2>1, <2>2
<1>6. ASSUME RanksGrow(s), \A r : PendingIn(s, e.job.slot, r) => r < Rank(e.job)
      PROVE  RanksGrow(t)
  <2> SUFFICES ASSUME NEW m \in 1 .. Len(t), NEW k \in 1 .. Len(t), m < k, IsReal(t[m]), IsReal(t[k]),
                      t[m].job.slot = t[k].job.slot
               PROVE  Rank(t[m].job) < Rank(t[k].job)
    BY DEF RanksGrow
  <2>1. m \in 1 .. Len(s) /\ t[m] = s[m]
    BY <1>0, <1>1, <1>2, <1>3, <1>4
  <2>2. CASE k \in 1 .. Len(s)
    BY <1>3, <1>6, <2>1, <2>2 DEF RanksGrow
  <2>3. CASE k = Len(s) + 1
    <3>1. PendingIn(s, e.job.slot, Rank(s[m].job))
      BY <1>3, <2>1, <2>3 DEF PendingIn
    <3> QED
      BY <1>3, <1>6, <2>1, <2>3, <3>1
  <2> QED
    BY <1>0, <1>2, <1>4, <2>2, <2>3
<1>7. \A q : Homes(s, q) /\ (e.job.op = "estimate" <=> q = 1)
                 /\ (e.val = e.job.slot \/ e.job.op = "readback") => Homes(t, q)
  BY <1>0, <1>2, <1>3, <1>4 DEF Homes
<1>8. \A x : ListsAt(s, x) /\ e.val = x => ListsAt(t, x)
  BY <1>0, <1>2, <1>3, <1>4 DEF ListsAt
<1>9. \A v : SignalsBelow(v, s) /\ g.val < v => SignalsBelow(v, t)
  BY <1>0, <1>2, <1>3, <1>4 DEF SignalsBelow
<1>10. \A x, r : PendingIn(t, x, r) <=> PendingIn(s, x, r) \/ (e.job.slot = x /\ Rank(e.job) = r)
  <2> TAKE x, r
  <2>1. PendingIn(t, x, r) => PendingIn(s, x, r) \/ (e.job.slot = x /\ Rank(e.job) = r)
    BY <1>0, <1>2, <1>3, <1>4 DEF PendingIn
  <2>2. PendingIn(s, x, r) => PendingIn(t, x, r)
    <3> SUFFICES ASSUME NEW m \in 1 .. Len(s), IsReal(s[m]), s[m].job.slot = x, Rank(s[m].job) = r
                 PROVE  PendingIn(t, x, r)
      BY DEF PendingIn
    <3>1. m \in 1 .. Len(t) /\ t[m] = s[m]
      BY <1>1, <1>2, <1>3
    <3> QED
      BY <3>1 DEF PendingIn
  <2>3. e.job.slot = x /\ Rank(e.job) = r => PendingIn(t, x, r)
    <3>1. Len(s) + 1 \in 1 .. Len(t)
      BY <1>1, <1>2
    <3> QED
      BY <1>3, <3>1 DEF PendingIn
  <2> QED
    BY <2>1, <2>2, <2>3
<1> QED
  BY <1>2, <1>5, <1>6, <1>7, <1>8, <1>9, <1>10

\* What waits, and what the waits cover, when a queue gets a list.
LEMMA AppendListWaits ==
    ASSUME NEW s \in Seq(Known!Entry), NEW e \in Known!Entry, IsReal(e), NEW g \in Known!Entry, IsSignal(g),
           NEW t, t = Append(Append(s, e), g), NEW o \in Seq(Known!Entry), NEW f \in Nat,
           Ticketed(s), Ticketed(o),
           WaitsOpen(s, o, f, g.val), WaitsOpen(o, s, f, g.val), Covered(s, o), Covered(o, s),
           \A k \in 1 .. Len(o) : IsReal(o[k]) /\ Needs(e.job, o[k].job) =>
                s # <<>> /\ IsWait(s[Len(s)]) /\ o[k + 1].val <= s[Len(s)].val,
           \A k \in 1 .. Len(o) : IsReal(o[k]) => ~Needs(o[k].job, e.job)
    PROVE  /\ WaitsOpen(t, o, f, g.val) /\ WaitsOpen(o, t, f, g.val)
           /\ Covered(t, o) /\ Covered(o, t)
<1>0. ~IsSignal(e) /\ ~IsWait(e) /\ ~IsReal(g) /\ ~IsWait(g) /\ g.val \in Nat
  BY DEF IsSignal, IsReal, IsWait, Known!Entry
<1> DEFINE u == Append(s, e)
<1>1. /\ u \in Seq(Known!Entry) /\ Len(u) = Len(s) + 1 /\ u[Len(s) + 1] = e /\ Len(s) \in Nat
      /\ \A n \in 1 .. Len(s) : u[n] = s[n]
  BY Known!Appended
<1>2. /\ t \in Seq(Known!Entry) /\ Len(t) = Len(s) + 2 /\ t[Len(s) + 2] = g
      /\ \A n \in 1 .. Len(s) + 1 : t[n] = u[n]
  <2>1. t = Append(u, g)
    OBVIOUS
  <2> HIDE DEF u
  <2>2. /\ t \in Seq(Known!Entry) /\ Len(t) = Len(u) + 1 /\ t[Len(u) + 1] = g
        /\ \A n \in 1 .. Len(u) : t[n] = u[n]
    BY <1>1, <2>1, Known!Appended
  <2> QED
    BY <1>1, <2>2
<1>3. t[Len(s) + 1] = e /\ \A n \in 1 .. Len(s) : t[n] = s[n]
  BY <1>1, <1>2
<1> HIDE DEF u, IsReal, IsSignal, IsWait, Rank, Needs
<1>4. \A m \in 1 .. Len(t) : m \in 1 .. Len(s) \/ m = Len(s) + 1 \/ m = Len(s) + 2
  BY <1>1, <1>2
<1>5. WaitsOpen(t, o, f, g.val)
  <2> SUFFICES ASSUME NEW m \in 1 .. Len(t), IsWait(t[m])
               PROVE  /\ t[m].val < g.val
                      /\ \A k \in 1 .. m : IsSignal(t[k]) => t[k].val < t[m].val
                      /\ Awaits(t[m].val, o, f)
    BY DEF WaitsOpen
  <2>1. m \in 1 .. Len(s)
    BY <1>0, <1>2, <1>3, <1>4
  <2>2. t[m] = s[m] /\ \A k \in 1 .. m : t[k] = s[k]
    BY <1>3, <2>1
  <2> QED
    BY <2>1, <2>2 DEF WaitsOpen
<1>6. WaitsOpen(o, t, f, g.val)
  <2> SUFFICES ASSUME NEW m \in 1 .. Len(o), IsWait(o[m]), NEW k \in 1 .. Len(t), IsReal(t[k]),
                      t[k + 1].val <= o[m].val
               PROVE  f < o[m].val
    BY DEF WaitsOpen, Awaits
  <2>1. o[m].val < g.val /\ o[m].val \in Nat /\ Awaits(o[m].val, s, f)
    BY EntryFacts DEF WaitsOpen
  <2>2. k \in 1 .. Len(s)
    <3>1. k # Len(s) + 1
      <4> SUFFICES ASSUME k = Len(s) + 1 PROVE FALSE
        OBVIOUS
      <4>1. t[k + 1] = g
        BY <1>1, <1>2
      <4> QED
        BY <1>0, <2>1, <4>1
    <3> QED
      BY <1>0, <1>2, <1>4, <3>1
  <2>3. t[k] = s[k] /\ t[k + 1] = s[k + 1]
    <3>1. t[k] = s[k]
      BY <1>3, <2>2
    <3>2. k + 1 \in 1 .. Len(s)
      BY <1>1, <2>2, <3>1 DEF Ticketed
    <3> QED
      BY <1>3, <3>1, <3>2
  <2> QED
    BY <2>1, <2>2, <2>3 DEF Awaits
<1>7. Covered(t, o)
  <2> SUFFICES ASSUME NEW m \in 1 .. Len(t), NEW k \in 1 .. Len(o),
                      IsReal(t[m]), IsReal(o[k]), Needs(t[m].job, o[k].job)
               PROVE  m > 1 /\ IsWait(t[m - 1]) /\ o[k + 1].val <= t[m - 1].val
    BY DEF Covered
  <2>1. CASE m \in 1 .. Len(s)
    <3>1. m > 1 /\ IsWait(s[m - 1]) /\ o[k + 1].val <= s[m - 1].val
      BY <1>3, <2>1 DEF Covered
    <3>2. t[m - 1] = s[m - 1]
      BY <1>3, <2>1, <3>1
    <3> QED
      BY <3>1, <3>2
  <2>2. CASE m = Len(s) + 1
    <3>1. s # <<>> /\ IsWait(s[Len(s)]) /\ o[k + 1].val <= s[Len(s)].val
      BY <1>3, <2>2
    <3>2. Len(s) # 0
      BY <3>1
    <3>3. m - 1 = Len(s) /\ m > 1
      BY <1>1, <2>2, <3>2
    <3>4. t[m - 1] = s[Len(s)]
      BY <1>1, <1>3, <3>2, <3>3
    <3> QED
      BY <3>1, <3>3, <3>4
  <2> QED
    BY <1>0, <1>2, <1>4, <2>1, <2>2
<1>8. Covered(o, t)
  <2> SUFFICES ASSUME NEW m \in 1 .. Len(o), NEW k \in 1 .. Len(t),
                      IsReal(o[m]), IsReal(t[k]), Needs(o[m].job, t[k].job)
               PROVE  m > 1 /\ IsWait(o[m - 1]) /\ t[k + 1].val <= o[m - 1].val
    BY DEF Covered
  <2>1. k \in 1 .. Len(s)
    BY <1>0, <1>2, <1>3, <1>4
  <2>2. t[k] = s[k]
    BY <1>3, <2>1
  <2>3. k + 1 \in 1 .. Len(s)
    BY <1>1, <2>1, <2>2 DEF Ticketed
  <2>4. t[k + 1] = s[k + 1]
    BY <1>3, <2>3
  <2> QED
    BY <2>1, <2>2, <2>4 DEF Covered
<1> QED
  BY <1>5, <1>6, <1>7, <1>8

(****************************************************************************)
(* Both queues, and the submissions of the program                           *)
(****************************************************************************)

\* A queue and one more entry, its head and the rest of it.
Put(s, e) == Append(s, e)
First(s) == s[1]
Rest(s) == Tail(s)

\* Both halves keep in order when the head of a queue is run.
LEMMA HalvesPop ==
    ASSUME NEW s \in Seq(Known!Entry), s # <<>>, NEW o \in Seq(Known!Entry),
           NEW f \in Nat, NEW g \in Nat, Runs(First(s), f, g), NEW newest, NEW q, NEW p,
           Half(s, q, o, f, newest), Half(o, p, s, f, newest)
    PROVE  Half(Rest(s), q, o, g, newest) /\ Half(o, p, Rest(s), g, newest)
<1> DEFINE t == Rest(s)
<1>0. t = Tail(s) /\ Runs(s[1], f, g)
  BY DEF Rest, First
<1> HIDE DEF t
<1>1. Ticketed(t) /\ RanksGrow(t) /\ Homes(t, q)
  BY <1>0, PopOwn DEF Half
<1>2. WaitsOpen(t, o, g, newest) /\ WaitsOpen(o, t, g, newest)
  BY <1>0, PopWaits DEF Half
<1>3. Covered(t, o) /\ Covered(o, t)
  BY <1>0, PopCovered DEF Half
<1>4. Half(t, q, o, g, newest) /\ Half(o, p, t, g, newest)
  BY <1>1, <1>2, <1>3 DEF Half
<1> QED
  BY <1>4 DEF t

\* ... when one of them gets an entry that is no list with a job ...
LEMMA HalvesOther ==
    ASSUME NEW s \in Seq(Known!Entry), NEW o \in Seq(Known!Entry), NEW e \in Known!Entry, ~IsReal(e),
           NEW f \in Nat, NEW newest \in Nat, NEW q, NEW p,
           e.kind = "exec" => q # 1,
           IsWait(e) => e.val < newest /\ SignalsBelow(e.val, s) /\ Awaits(e.val, o, f),
           Half(s, q, o, f, newest), Half(o, p, s, f, newest)
    PROVE  /\ Half(Put(s, e), q, o, f, newest) /\ Half(o, p, Put(s, e), f, newest)
           /\ Put(s, e) \in Seq(Known!Entry)
<1> DEFINE t == Append(s, e)
<1>0. t = Put(s, e) /\ t \in Seq(Known!Entry)
  BY Known!Appended DEF Put
<1>1. Ticketed(t) /\ RanksGrow(t) /\ Homes(t, q) /\ Covered(t, o) /\ Covered(o, t)
  BY AppendOther DEF Half
<1>2. WaitsOpen(t, o, f, newest) /\ WaitsOpen(o, t, f, newest)
  BY AppendOtherWaits DEF Half
<1> HIDE DEF t
<1> QED
  BY <1>0, <1>1, <1>2 DEF Half

\* ... when newer values are handed out ...
LEMMA HalvesNewer ==
    ASSUME NEW s \in Seq(Known!Entry), NEW o, NEW f, NEW newest \in Nat, NEW newer \in Nat,
           newest <= newer, NEW q, Half(s, q, o, f, newest)
    PROVE  Half(s, q, o, f, newer)
  BY NewerWaits DEF Half

\* ... and when one of them gets a list with a job.
LEMMA HalvesList ==
    ASSUME NEW s \in Seq(Known!Entry), NEW o \in Seq(Known!Entry), NEW e \in Known!Entry, IsReal(e),
           NEW g \in Known!Entry, IsSignal(g), NEW f \in Nat, NEW q, NEW p,
           SignalsBelow(g.val, s),
           \A r : PendingIn(s, e.job.slot, r) => r < Rank(e.job),
           e.job.op = "estimate" <=> q = 1,
           e.val = e.job.slot \/ e.job.op = "readback",
           \A k \in 1 .. Len(o) : IsReal(o[k]) /\ Needs(e.job, o[k].job) =>
                s # <<>> /\ IsWait(s[Len(s)]) /\ o[k + 1].val <= s[Len(s)].val,
           \A k \in 1 .. Len(o) : IsReal(o[k]) => ~Needs(o[k].job, e.job),
           Half(s, q, o, f, g.val), Half(o, p, s, f, g.val)
    PROVE  /\ Half(Put(Put(s, e), g), q, o, f, g.val) /\ Half(o, p, Put(Put(s, e), g), f, g.val)
           /\ Put(Put(s, e), g) \in Seq(Known!Entry)
<1> DEFINE t == Append(Append(s, e), g)
<1>0. t = Put(Put(s, e), g)
  BY DEF Put
<1>4. Ticketed(s) /\ RanksGrow(s) /\ Homes(s, q)
  BY Zenon DEF Half
<1>3. t \in Seq(Known!Entry) /\ Ticketed(t)
  BY <1>4, AppendList
<1>1. RanksGrow(t) /\ Homes(t, q)
  <2>1. RanksGrow(t)
    BY <1>4, AppendList
  <2>2. Homes(t, q)
    BY <1>4, AppendList
  <2> QED
    BY <2>1, <2>2
<1>2. WaitsOpen(t, o, f, g.val) /\ WaitsOpen(o, t, f, g.val) /\ Covered(t, o) /\ Covered(o, t)
  BY AppendListWaits DEF Half
<1> HIDE DEF t
<1> QED
  BY <1>0, <1>1, <1>2, <1>3 DEF Half

\* The types of GpuSystem, spelled out.
LEMMA GpuTypes ==
    ASSUME ProgramInv
    PROVE  /\ queue[0] \in Seq(Known!Entry) /\ queue[1] \in Seq(Known!Entry)
           /\ queue = [q \in {0, 1} |-> queue[q]] /\ queue \in [{0, 1} -> Seq(Known!Entry)]
           /\ open = [q \in {0, 1} |-> open[q]] /\ fence_vals \in [0 .. FrameCount - 1 -> Nat]
           /\ fence \in Nat /\ frame_index \in 0 .. FrameCount - 1
           /\ fence_vals[frame_index] \in Nat
           /\ Newest \in Nat
           /\ call \in {"idle", "flush", "check", "await", "pace", "pace_await"}
           /\ call \in {"check", "await"} => wait_queue \in {0, 1}
<1>1. /\ queue \in [{0, 1} -> Seq(Known!Entry)] /\ open \in [{0, 1} -> (0 .. FrameCount - 1) \cup {FrameCount}]
      /\ fence \in Nat /\ frame_index \in 0 .. FrameCount - 1
      /\ fence_vals \in [0 .. FrameCount - 1 -> Nat]
      /\ call \in {"idle", "flush", "check", "await", "pace", "pace_await"}
      /\ call \in {"check", "await"} => wait_queue \in {0, 1}
  BY DEF ProgramInv, Known!TypeOK, Known!Slots, Known!CmdQueues, Known!Compute, Known!VideoEncode,
     Known!NoSlot, Known!Calls
<1>2. fence_vals[frame_index] \in Nat
  BY <1>1
<1>3. Gpu!PrevSlot(frame_index) \in 0 .. FrameCount - 1
  <2>1. frame_index + FrameCount - 1 \in Int
    BY <1>1, SlotNumbers
  <2> QED
    BY <2>1, SlotNumbers, Division DEF Gpu!PrevSlot
<1>4. Newest \in Nat
  BY <1>1, <1>2, <1>3 DEF Newest, Gpu!NewestVal, Gpu!NewestSlot
<1> QED
  BY <1>1, <1>2, <1>4

\* What a submission makes of the queues and of the values.
Entered(q, v, job) ==
    Put(Put(IF v # FenceBound + 1 THEN Put(queue[q], Gpu!Wait(v)) ELSE queue[q],
            Gpu!Exec(frame_index, job)),
        Gpu!Signal(Newest))

\* What a submission does to the queue, the values and the newest of them.
LEMMA SubmitEffect ==
    ASSUME ProgramInv, CallInv, NEW q \in {0, 1}, NEW v, NEW job, Gpu!ExecuteOnly(q, v, job)
    PROVE  /\ queue' = [queue EXCEPT ![q] = Entered(q, v, job)]
           /\ queue'[q] = Entered(q, v, job) /\ queue'[1 - q] = queue[1 - q]
           /\ call = "idle" /\ Newest = Gpu!CurrFenceVal
           /\ fence_vals' = [fence_vals EXCEPT ![frame_index] = Newest + 1]
           /\ fence_vals'[frame_index] = Newest + 1
           /\ v # FenceBound + 1 => v < Newest
<1>1. /\ call = "idle" /\ open[q] # FrameCount
      /\ v # FenceBound + 1 => v < Gpu!CurrFenceVal
      /\ fence_vals' = [fence_vals EXCEPT ![frame_index] = Gpu!CurrFenceVal + 1]
      /\ queue' = [queue EXCEPT ![q] =
             Append(Append(IF v # FenceBound + 1 THEN Append(queue[q], Gpu!Wait(v)) ELSE queue[q],
                           Gpu!Exec(open[q], job)), Gpu!Signal(Gpu!CurrFenceVal))]
  BY Zenon DEF Gpu!ExecuteOnly, Gpu!Ready, Gpu!NoSlot, Gpu!MaxFenceValue
<1>2. open[q] = frame_index
  BY <1>1 DEF CallInv
<1>3. Newest = Gpu!CurrFenceVal
  BY <1>1, Zenon DEF Newest, Gpu!NewestVal, Gpu!NewestSlot, Gpu!InPace, Gpu!CurrFenceVal
<1>4. queue' = [queue EXCEPT ![q] = Entered(q, v, job)]
  BY <1>1, <1>2, <1>3 DEF Entered, Put
<1>5. queue'[q] = Entered(q, v, job) /\ queue'[1 - q] = queue[1 - q]
  BY <1>4, GpuTypes
<1>6. fence_vals'[frame_index] = Newest + 1
  BY <1>1, <1>3, GpuTypes
<1> QED
  BY <1>1, <1>3, <1>4, <1>5, <1>6

\* A call other than MoveToNextFrame leaves the newest value in its slot.
LEMMA SubmitNewest ==
    ASSUME ProgramInv, CallInv, NEW q \in {0, 1}, NEW v, NEW job,
           Gpu!Execute(q, v, job) \/ Gpu!ExecuteAndReset(q, v, job)
    PROVE  /\ Gpu!ExecuteOnly(q, v, job)
           /\ call' = "idle" /\ fence' = fence /\ frame_index' = frame_index
           /\ Newest' = Newest + 1 /\ Gpu!CurrFenceVal' = Newest + 1
<1>1. Gpu!ExecuteOnly(q, v, job) /\ call' = call /\ fence' = fence /\ frame_index' = frame_index
  BY DEF Gpu!Execute, Gpu!ExecuteAndReset
<1>2. call = "idle" /\ fence_vals'[frame_index] = Newest + 1
  BY <1>1, SubmitEffect
<1>3. Newest' = fence_vals'[frame_index'] /\ Gpu!CurrFenceVal' = fence_vals'[frame_index']
  BY <1>1, <1>2, Zenon DEF Newest, Gpu!NewestVal, Gpu!NewestSlot, Gpu!InPace, Gpu!CurrFenceVal
<1> QED
  BY <1>1, <1>2, <1>3

\* The entries that the program makes.
LEMMA EntriesMade ==
    ASSUME NEW v \in Nat, NEW job \in Jobs \cup {NoJob}
    PROVE  /\ Gpu!Wait(v) \in Known!Entry /\ IsWait(Gpu!Wait(v)) /\ ~IsReal(Gpu!Wait(v))
           /\ Gpu!Wait(v).kind # "exec" /\ ~IsSignal(Gpu!Wait(v)) /\ Gpu!Wait(v).val = v
           /\ Gpu!Signal(v) \in Known!Entry /\ IsSignal(Gpu!Signal(v)) /\ ~IsReal(Gpu!Signal(v))
           /\ Gpu!Signal(v).kind # "exec" /\ ~IsWait(Gpu!Signal(v)) /\ Gpu!Signal(v).val = v
           /\ Gpu!Exec(v, job) \in Known!Entry /\ (IsReal(Gpu!Exec(v, job)) <=> job # NoJob)
           /\ ~IsSignal(Gpu!Exec(v, job)) /\ ~IsWait(Gpu!Exec(v, job))
           /\ Gpu!Exec(v, job).val = v /\ Gpu!Exec(v, job).job = job
  BY DEF Gpu!Wait, Gpu!Signal, Gpu!Exec, Known!Entry, IsWait, IsSignal, IsReal

\* An empty list keeps the halves in order.
LEMMA EmptyHalves ==
    ASSUME ProgramInv, CallInv, HalvesInv,
           Gpu!Execute(0, FenceBound + 1, NoJob)
    PROVE  HalvesInv'
<1>1. queue'[0] = Entered(0, FenceBound + 1, NoJob) /\ queue'[1] = queue[1]
      /\ fence' = fence /\ Newest' = Newest + 1
  <2>1. queue'[0] = Entered(0, FenceBound + 1, NoJob) /\ queue'[1 - 0] = queue[1 - 0]
    BY SubmitEffect, SubmitNewest
  <2> QED
    BY <2>1, SubmitNewest
<1> DEFINE e == Gpu!Exec(frame_index, NoJob)
           g == Gpu!Signal(Newest)
<1>2. queue'[0] = Put(Put(queue[0], e), g)
  BY <1>1 DEF Entered
<1>3. /\ frame_index \in Nat /\ Newest \in Nat /\ fence \in Nat /\ Newest + 1 \in Nat
      /\ queue[0] \in Seq(Known!Entry) /\ queue[1] \in Seq(Known!Entry)
  BY GpuTypes
<1>4. e \in Known!Entry /\ ~IsReal(e) /\ ~IsWait(e)
  BY <1>3, EntriesMade
<1>5. g \in Known!Entry /\ ~IsReal(g) /\ ~IsWait(g)
  BY <1>3, EntriesMade
<1> HIDE DEF e, g
<1> DEFINE u == Put(queue[0], e)
           t == Put(u, g)
<1>8. Half(u, 0, queue[1], fence, Newest) /\ Half(queue[1], 1, u, fence, Newest) /\ u \in Seq(Known!Entry)
  BY <1>3, <1>4, HalvesOther DEF HalvesInv
<1> HIDE DEF u
<1>9. Half(t, 0, queue[1], fence, Newest) /\ Half(queue[1], 1, t, fence, Newest) /\ t \in Seq(Known!Entry)
  BY <1>3, <1>5, <1>8, HalvesOther
<1> HIDE DEF t
<1>10. Half(t, 0, queue[1], fence, Newest + 1) /\ Half(queue[1], 1, t, fence, Newest + 1)
  BY <1>3, <1>9, HalvesNewer
<1>11. queue'[0] = t
  BY <1>2 DEF t, u
<1> QED
  BY <1>1, <1>10, <1>11 DEF HalvesInv

(****************************************************************************)
(* The jobs that are left                                                    *)
(****************************************************************************)

\* What is pending is what is left.
LEMMA LeftPending ==
    ASSUME NEW s
    PROVE  \A x, r : PendingIn(s, x, r) <=> \E job \in Left(s) : job.slot = x /\ Rank(job) = r
<1> HIDE DEF IsReal, Rank
<1> QED
  BY DEF PendingIn, Left

\* The jobs left in a queue are Jobs of its kind, at most one per slot and rank.
LEMMA LeftJobs ==
    ASSUME NEW s \in Seq(Known!Entry), NEW q, Homes(s, q), RanksGrow(s)
    PROVE  /\ \A job \in Left(s) : job \in Jobs /\ (job.op = "estimate" <=> q = 1)
           /\ \A a, b \in Left(s) : a.slot = b.slot /\ Rank(a) = Rank(b) => a = b
<1>1. \A m \in 1 .. Len(s) : IsReal(s[m]) => s[m].job \in Jobs /\ Rank(s[m].job) \in Int
  BY EntryFacts, RankRange
<1> HIDE DEF IsReal, Rank
<1>2. \A job \in Left(s) : job \in Jobs /\ (job.op = "estimate" <=> q = 1)
  BY <1>1 DEF Left, Homes
<1>3. ASSUME NEW a \in Left(s), NEW b \in Left(s), a.slot = b.slot, Rank(a) = Rank(b)
      PROVE  a = b
  <2>1. PICK m \in 1 .. Len(s) : IsReal(s[m]) /\ s[m].job = a
    BY DEF Left
  <2>2. PICK k \in 1 .. Len(s) : IsReal(s[k]) /\ s[k].job = b
    BY DEF Left
  <2>3. m < k => Rank(a) < Rank(b)
    BY <1>3, <2>1, <2>2 DEF RanksGrow
  <2>4. k < m => Rank(b) < Rank(a)
    BY <1>3, <2>1, <2>2 DEF RanksGrow
  <2>5. Rank(a) \in Int
    BY <1>1, <2>1
  <2>6. m = k
    BY <1>3, <2>3, <2>4, <2>5
  <2> QED
    BY <2>1, <2>2, <2>6
<1> QED
  BY <1>2, <1>3

\* What is left when the head has been run.
LEMMA LeftPop ==
    ASSUME NEW s \in Seq(Known!Entry), s # <<>>, NEW t, t = Tail(s), RanksGrow(s)
    PROVE  /\ IsReal(s[1]) => s[1].job \in Left(s)
           /\ \A job : job \in Left(t) <=> job \in Left(s) /\ ~(IsReal(s[1]) /\ job = s[1].job)
<1>1. /\ t \in Seq(Known!Entry) /\ Len(t) = Len(s) - 1 /\ Len(s) \in Nat \ {0}
      /\ \A n \in 1 .. Len(t) : t[n] = s[n + 1]
  BY Known!Popped
<1>2. \A m \in 1 .. Len(s) : IsReal(s[m]) => Rank(s[m].job) \in Int
  <2> SUFFICES ASSUME NEW m \in 1 .. Len(s), IsReal(s[m]) PROVE Rank(s[m].job) \in Int
    OBVIOUS
  <2>1. s[m].job \in Jobs
    BY EntryFacts
  <2> HIDE DEF IsReal, Rank
  <2>2. Rank(s[m].job) \in 1 .. 11
    BY <2>1, RankRange
  <2> QED
    BY <2>2
<1> HIDE DEF IsReal, Rank
<1>3. IsReal(s[1]) => s[1].job \in Left(s)
  BY <1>1 DEF Left
<1>4. ASSUME NEW job \in Left(t) PROVE job \in Left(s) /\ ~(IsReal(s[1]) /\ job = s[1].job)
  <2>1. PICK m \in 1 .. Len(t) : IsReal(t[m]) /\ t[m].job = job
    BY DEF Left
  <2>2. m + 1 \in 1 .. Len(s) /\ s[m + 1] = t[m] /\ 1 < m + 1 /\ 1 \in 1 .. Len(s)
    BY <1>1
  <2>3. job \in Left(s)
    BY <2>1, <2>2 DEF Left
  <2>4. ASSUME IsReal(s[1]), job = s[1].job PROVE FALSE
    <3>1. IsReal(s[m + 1]) /\ s[m + 1].job = s[1].job
      BY <2>1, <2>2, <2>4
    <3>2. Rank(s[1].job) < Rank(s[m + 1].job)
      BY <2>2, <2>4, <3>1 DEF RanksGrow
    <3> QED
      BY <1>2, <2>2, <2>4, <3>1, <3>2
  <2> QED
    BY <2>3, <2>4
<1>5. ASSUME NEW job \in Left(s), ~(IsReal(s[1]) /\ job = s[1].job) PROVE job \in Left(t)
  <2>1. PICK m \in 1 .. Len(s) : IsReal(s[m]) /\ s[m].job = job
    BY DEF Left
  <2>2. m # 1
    BY <1>5, <2>1
  <2>3. m - 1 \in 1 .. Len(t) /\ m - 1 + 1 = m
    BY <1>1, <2>2
  <2>4. t[m - 1] = s[m]
    BY <1>1, <2>3
  <2> QED
    BY <2>1, <2>3, <2>4 DEF Left
<1> QED
  BY <1>3, <1>4, <1>5

\* What is left when a queue gets an entry.
LEMMA LeftPut ==
    ASSUME NEW s \in Seq(Known!Entry), NEW e \in Known!Entry
    PROVE  \A job : job \in Left(Put(s, e)) <=> job \in Left(s) \/ (IsReal(e) /\ job = e.job)
<1> DEFINE t == Append(s, e)
<1>1. /\ t \in Seq(Known!Entry) /\ Len(t) = Len(s) + 1 /\ t[Len(s) + 1] = e /\ Len(s) \in Nat
      /\ \A n \in 1 .. Len(s) : t[n] = s[n]
  BY Known!Appended
<1>0. Put(s, e) = t
  BY DEF Put
<1> HIDE DEF IsReal, t
<1>2. ASSUME NEW job \in Left(t) PROVE job \in Left(s) \/ (IsReal(e) /\ job = e.job)
  <2>1. PICK m \in 1 .. Len(t) : IsReal(t[m]) /\ t[m].job = job
    BY DEF Left
  <2>2. m \in 1 .. Len(s) \/ m = Len(s) + 1
    BY <1>1
  <2> QED
    BY <1>1, <2>1, <2>2 DEF Left
<1>3. ASSUME NEW job \in Left(s) PROVE job \in Left(t)
  <2>1. PICK m \in 1 .. Len(s) : IsReal(s[m]) /\ s[m].job = job
    BY DEF Left
  <2>2. m \in 1 .. Len(t) /\ t[m] = s[m]
    BY <1>1
  <2> QED
    BY <2>1, <2>2 DEF Left
<1>4. IsReal(e) => e.job \in Left(t)
  <2>1. Len(s) + 1 \in 1 .. Len(t)
    BY <1>1
  <2> QED
    BY <1>1, <2>1 DEF Left
<1> QED
  BY <1>0, <1>2, <1>3, <1>4

\* The jobs that the GPU has not done: one per slot and rank.
LEMMA UndoneJobs ==
    ASSUME ProgramInv, HalvesInv
    PROVE  /\ \A job \in Undone : job \in Jobs /\ Rank(job) \in 1 .. 11
           /\ \A job : job \in Left(queue[0]) <=> job \in Undone /\ job.op # "estimate"
           /\ \A job : job \in Left(queue[1]) <=> job \in Undone /\ job.op = "estimate"
           /\ \A a, b \in Undone : a.slot = b.slot /\ Rank(a) = Rank(b) => a = b
<1>1. /\ \A job \in Left(queue[0]) : job \in Jobs /\ job.op # "estimate"
      /\ \A a, b \in Left(queue[0]) : a.slot = b.slot /\ Rank(a) = Rank(b) => a = b
  <2>1. queue[0] \in Seq(Known!Entry) /\ Homes(queue[0], 0) /\ RanksGrow(queue[0])
    BY GpuTypes DEF HalvesInv, Half
  <2> QED
    BY <2>1, LeftJobs
<1>2. /\ \A job \in Left(queue[1]) : job \in Jobs /\ job.op = "estimate"
      /\ \A a, b \in Left(queue[1]) : a.slot = b.slot /\ Rank(a) = Rank(b) => a = b
  <2>1. queue[1] \in Seq(Known!Entry) /\ Homes(queue[1], 1) /\ RanksGrow(queue[1])
    BY GpuTypes DEF HalvesInv, Half
  <2> QED
    BY <2>1, LeftJobs
<1>3. \A job : job \in Undone <=> job \in Left(queue[0]) \/ job \in Left(queue[1])
  BY DEF Undone
<1>4. \A job \in Undone : job \in Jobs /\ Rank(job) \in 1 .. 11
  BY <1>1, <1>2, <1>3, RankRange
<1>5. ASSUME NEW a \in Jobs, NEW b \in Jobs, Rank(a) = Rank(b) PROVE a.op = "estimate" <=> b.op = "estimate"
  <2>1. \A job \in Jobs : Rank(job) = 7 <=> job.op = "estimate"
    BY DEF Rank, Jobs
  <2> QED
    BY <1>5, <2>1
<1> HIDE DEF Rank
<1> QED
  BY <1>1, <1>2, <1>3, <1>4, <1>5

(****************************************************************************)
(* A list with a job is submitted                                            *)
(****************************************************************************)

\* The job ranks after those of its slot that are left, and none of them needs it.
Later(job) == \A other \in Undone : other.slot = job.slot => Rank(other) < Rank(job)
Unneeded(job) == \A other \in Undone : ~Needs(other, job)

\* A step that adds the job to those left, takes it from them, or leaves them alone.
Joins(job) == \A other : other \in Undone' <=> other \in Undone \/ other = job
Leaves(job) == \A other : other \in Undone' <=> other \in Undone /\ other # job
SameUndone == \A other : other \in Undone' <=> other \in Undone

\* The halves, one queue first.
LEMMA Halves ==
    ASSUME NEW q \in {0, 1}
    PROVE  /\ HalvesInv <=> /\ Half(queue[q], q, queue[1 - q], fence, Newest)
                            /\ Half(queue[1 - q], 1 - q, queue[q], fence, Newest)
           /\ \A job : job \in Undone <=> job \in Left(queue[q]) \/ job \in Left(queue[1 - q])
<1>1. CASE q = 0
  <2>1. 1 - q = 1
    BY <1>1
  <2> QED
    BY <1>1, <2>1, Zenon DEF HalvesInv, Undone
<1>2. CASE q = 1
  <2>1. 1 - q = 0
    BY <1>2
  <2> QED
    BY <1>2, <2>1, Zenon DEF HalvesInv, Undone
<1> QED
  BY <1>1, <1>2

\* The same after a step.
LEMMA HalvesThen ==
    ASSUME NEW q \in {0, 1}
    PROVE  /\ HalvesInv' <=> /\ Half(queue'[q], q, queue'[1 - q], fence', Newest')
                             /\ Half(queue'[1 - q], 1 - q, queue'[q], fence', Newest')
           /\ \A job : job \in Undone' <=> job \in Left(queue'[q]) \/ job \in Left(queue'[1 - q])
<1>1. CASE q = 0
  <2>1. 1 - q = 1
    BY <1>1
  <2> QED
    BY <1>1, <2>1, Zenon DEF HalvesInv, Undone
<1>2. CASE q = 1
  <2>1. 1 - q = 0
    BY <1>2
  <2> QED
    BY <1>2, <2>1, Zenon DEF HalvesInv, Undone
<1> QED
  BY <1>1, <1>2

\* What SubmitJob needs of the wait that comes before a list.
WaitFits(q, v, job) ==
    \/ v = FenceBound + 1 /\ job.op \notin {"estimate", "propagate"}
    \/ v # FenceBound + 1 /\ v \in Nat /\ NextWait(v, queue[q], queue[1 - q])

\* A list with a job enters one of the queues, after all that is pending of its slot.
LEMMA SubmitJob ==
    ASSUME ProgramInv, CallInv, HalvesInv, FreshInv, pc \notin {"save", "done"},
           NEW q \in {0, 1}, NEW v, NEW job \in Jobs,
           Gpu!Execute(q, v, job) \/ Gpu!ExecuteAndReset(q, v, job),
           job.op = "estimate" <=> q = 1,
           frame_index = job.slot \/ job.op = "readback",
           Later(job), Unneeded(job), WaitFits(q, v, job)
    PROVE  HalvesInv' /\ Joins(job)
<1>1. /\ queue'[q] = Entered(q, v, job) /\ queue'[1 - q] = queue[1 - q]
      /\ fence' = fence /\ Newest' = Newest + 1 /\ Newest = Gpu!CurrFenceVal /\ call = "idle"
      /\ v # FenceBound + 1 => v < Newest
  BY SubmitEffect, SubmitNewest
<1> DEFINE s == queue[q]
           o == queue[1 - q]
           e == Gpu!Exec(frame_index, job)
           g == Gpu!Signal(Newest)
           w == Gpu!Wait(v)
           u == IF v # FenceBound + 1 THEN Put(s, w) ELSE s
           t == Put(Put(u, e), g)
<1>2. queue'[q] = t
  BY <1>1 DEF Entered
<1>3. /\ frame_index \in Nat /\ Newest \in Nat /\ fence \in Nat /\ Newest + 1 \in Nat
      /\ s \in Seq(Known!Entry) /\ o \in Seq(Known!Entry)
  BY GpuTypes
<1>4. e \in Known!Entry /\ IsReal(e) /\ e.val = frame_index /\ e.job = job
  BY <1>3, EntriesMade, ProgramAssumption DEF Gpu!GpuAssumption
<1>5. g \in Known!Entry /\ ~IsReal(g) /\ IsSignal(g) /\ g.val = Newest
  BY <1>3, EntriesMade
<1>6. v # FenceBound + 1 => /\ w \in Known!Entry /\ ~IsReal(w) /\ IsWait(w) /\ w.val = v
                            /\ w.kind # "exec" /\ ~IsSignal(w)
  <2>1. v # FenceBound + 1 => v \in Nat
    BY DEF WaitFits
  <2> QED
    BY <2>1, EntriesMade
<1>7. fence < Newest /\ SignalsBelow(Newest, s) /\ SignalsBelow(Newest, o)
  <2>1. fence < Newest /\ SignalsBelow(Newest, queue[0]) /\ SignalsBelow(Newest, queue[1])
    BY <1>1 DEF FreshInv
  <2>2. (q = 0 /\ 1 - q = 1) \/ (q = 1 /\ 1 - q = 0)
    OBVIOUS
  <2> QED
    BY <2>1, <2>2
<1>8. Half(s, q, o, fence, Newest) /\ Half(o, 1 - q, s, fence, Newest)
  BY Halves
<1>15. v # FenceBound + 1 => v + 1 = Newest /\ SignalsBelow(v, s) /\ Awaits(v, o, fence)
  <2>1. v # FenceBound + 1 => v \in Nat /\ v = Newest - 1 /\ SignalsBelow(v, s) /\ Awaits(v, o, fence)
    BY <1>1, Zenon DEF WaitFits, NextWait
  <2> QED
    BY <1>3, <2>1
<1> HIDE DEF e, g, w
<1>9. /\ u \in Seq(Known!Entry) /\ Half(u, q, o, fence, Newest) /\ Half(o, 1 - q, u, fence, Newest)
      /\ SignalsBelow(Newest, u)
      /\ \A x : x \in Left(u) <=> x \in Left(s)
      /\ v # FenceBound + 1 => u # <<>> /\ u[Len(u)] = w
  <2>1. CASE v = FenceBound + 1
    BY <1>3, <1>7, <1>8, <2>1
  <2>2. CASE v # FenceBound + 1
    <3>0. u = Put(s, w)
      BY <2>2
    <3>1. v < Newest /\ SignalsBelow(v, s) /\ Awaits(v, o, fence)
      BY <1>1, <1>15, <2>2
    <3>2. Half(Put(s, w), q, o, fence, Newest) /\ Half(o, 1 - q, Put(s, w), fence, Newest) /\ Put(s, w) \in Seq(Known!Entry)
      BY <1>3, <1>6, <1>8, <2>2, <3>1, HalvesOther
    <3>3. \A x : x \in Left(Put(s, w)) <=> x \in Left(s)
      BY <1>3, <1>6, <2>2, LeftPut
    <3>4. SignalsBelow(Newest, Put(s, w)) /\ Put(s, w) # <<>> /\ Put(s, w)[Len(Put(s, w))] = w
      <4> DEFINE p == Append(s, w)
      <4>1. /\ Len(p) = Len(s) + 1 /\ p[Len(p)] = w /\ Len(s) \in Nat
            /\ \A n \in 1 .. Len(s) : p[n] = s[n]
        BY <1>3, <1>6, <2>2, Known!Appended
      <4>2. p # <<>>
        BY <4>1
      <4> HIDE DEF p
      <4>3. SignalsBelow(Newest, p)
        BY <1>6, <1>7, <2>2, <4>1 DEF SignalsBelow
      <4> QED
        BY <4>1, <4>2, <4>3 DEF p, Put
    <3> QED
      BY <3>0, <3>2, <3>3, <3>4
  <2> QED
    BY <2>1, <2>2
<1> HIDE DEF u
<1>10. \A r : PendingIn(u, e.job.slot, r) => r < Rank(e.job)
  <2>1. \A x : x \in Left(u) => x \in Undone
    BY <1>9, Halves
  <2> HIDE DEF Rank
  <2> QED
    BY <1>4, <2>1, LeftPending DEF Later
<1>11. \A k \in 1 .. Len(o) : IsReal(o[k]) /\ Needs(e.job, o[k].job) =>
         u # <<>> /\ IsWait(u[Len(u)]) /\ o[k + 1].val <= u[Len(u)].val
  <2> SUFFICES ASSUME NEW k \in 1 .. Len(o), IsReal(o[k]), Needs(e.job, o[k].job)
               PROVE  u # <<>> /\ IsWait(u[Len(u)]) /\ o[k + 1].val <= u[Len(u)].val
    OBVIOUS
  <2>1. job.op \in {"estimate", "propagate"}
    BY <1>4 DEF Needs
  <2>2. v # FenceBound + 1 /\ v + 1 = Newest /\ v \in Nat
    BY <1>15, <2>1 DEF WaitFits
  <2>3. k + 1 \in 1 .. Len(o) /\ IsSignal(o[k + 1]) /\ o[k + 1].val \in Nat
    <3>1. k < Len(o) /\ IsSignal(o[k + 1])
      BY <1>8 DEF Half, Ticketed
    <3> QED
      BY <1>3, <3>1, EntryFacts
  <2>4. o[k + 1].val < Newest
    BY <1>7, <2>3 DEF SignalsBelow
  <2>5. o[k + 1].val <= v /\ v # FenceBound + 1
    BY <1>3, <2>2, <2>3, <2>4
  <2> QED
    BY <1>6, <1>9, <2>5
<1>12. \A k \in 1 .. Len(o) : IsReal(o[k]) => ~Needs(o[k].job, e.job)
  <2> SUFFICES ASSUME NEW k \in 1 .. Len(o), IsReal(o[k]) PROVE ~Needs(o[k].job, e.job)
    OBVIOUS
  <2>1. o[k].job \in Left(o)
    BY DEF Left
  <2>2. o[k].job \in Undone
    BY <2>1, Halves
  <2> QED
    BY <1>4, <2>2 DEF Unneeded
<1>13. Half(t, q, o, fence, Newest) /\ Half(o, 1 - q, t, fence, Newest) /\ t \in Seq(Known!Entry)
       /\ Put(u, e) \in Seq(Known!Entry)
  <2>1. SignalsBelow(g.val, u) /\ Half(u, q, o, fence, g.val) /\ Half(o, 1 - q, u, fence, g.val)
    BY <1>5, <1>9
  <2>2. (e.job.op = "estimate" <=> q = 1) /\ (e.val = e.job.slot \/ e.job.op = "readback")
    BY <1>4
  <2>3. Half(t, q, o, fence, g.val) /\ Half(o, 1 - q, t, fence, g.val) /\ t \in Seq(Known!Entry)
    <3> HIDE DEF IsReal, IsSignal, IsWait, Needs, Rank
    <3> QED
      BY <1>3, <1>4, <1>5, <1>9, <1>10, <1>11, <1>12, <2>1, <2>2, HalvesList
  <2>4. Put(u, e) \in Seq(Known!Entry)
    BY <1>4, <1>9 DEF Put
  <2> QED
    BY <1>5, <2>3, <2>4
<1>14. Half(t, q, o, fence, Newest + 1) /\ Half(o, 1 - q, t, fence, Newest + 1)
  BY <1>3, <1>13, HalvesNewer
<1>16. \A x : x \in Left(t) <=> x \in Left(s) \/ x = job
  <2>1. \A x : x \in Left(Put(u, e)) <=> x \in Left(u) \/ x = job
    BY <1>4, <1>9, LeftPut
  <2>2. \A x : x \in Left(t) <=> x \in Left(Put(u, e))
    BY <1>5, <1>13, LeftPut
  <2> QED
    BY <1>9, <2>1, <2>2
<1> HIDE DEF t
<1>17. HalvesInv'
  <2>1. Half(queue'[q], q, queue'[1 - q], fence', Newest') /\ Half(queue'[1 - q], 1 - q, queue'[q], fence', Newest')
    BY <1>1, <1>2, <1>14
  <2> QED
    BY <2>1, HalvesThen
<1>18. Joins(job)
  <2>1. \A x : x \in Undone' <=> x \in Left(queue'[q]) \/ x \in Left(queue'[1 - q])
    BY HalvesThen
  <2>2. \A x : x \in Undone <=> x \in Left(s) \/ x \in Left(o)
    BY Halves
  <2> QED
    BY <1>1, <1>2, <1>16, <2>1, <2>2 DEF Joins
<1> QED
  BY <1>17, <1>18

(****************************************************************************)
(* The other steps that touch the queues                                     *)
(****************************************************************************)

\* Steps that leave the queues and the fence alone.
LEMMA HalvesKept ==
    ASSUME ProgramInv, HalvesInv, UNCHANGED <<queue, fence>>, Newest' = Newest \/ Newest' = Newest + 1
    PROVE  HalvesInv' /\ SameUndone
<1>1. queue[0] \in Seq(Known!Entry) /\ queue[1] \in Seq(Known!Entry) /\ Newest \in Nat
  BY GpuTypes
<1>2. Newest + 1 \in Nat /\ Newest <= Newest + 1 /\ Newest <= Newest
  BY <1>1
<1>3. /\ Half(queue[0], 0, queue[1], fence, Newest) /\ Half(queue[1], 1, queue[0], fence, Newest)
      /\ Half(queue[0], 0, queue[1], fence, Newest + 1) /\ Half(queue[1], 1, queue[0], fence, Newest + 1)
  BY <1>1, <1>2, HalvesNewer DEF HalvesInv
<1>4. HalvesInv'
  BY <1>3 DEF HalvesInv
<1>5. SameUndone
  BY DEF SameUndone, Undone
<1> QED
  BY <1>4, <1>5

\* A signal enters a queue.
LEMMA HalvesSignal ==
    ASSUME ProgramInv, HalvesInv, NEW q \in {0, 1}, NEW v \in Nat,
           queue'[q] = Put(queue[q], Gpu!Signal(v)), queue'[1 - q] = queue[1 - q],
           fence' = fence, Newest' = Newest
    PROVE  HalvesInv' /\ SameUndone
<1> DEFINE s == queue[q]
           o == queue[1 - q]
           g == Gpu!Signal(v)
<1>1. s \in Seq(Known!Entry) /\ o \in Seq(Known!Entry) /\ fence \in Nat /\ Newest \in Nat
  BY GpuTypes
<1>2. g \in Known!Entry /\ ~IsReal(g) /\ ~IsWait(g) /\ g.kind # "exec"
  BY EntriesMade
<1>3. Half(s, q, o, fence, Newest) /\ Half(o, 1 - q, s, fence, Newest)
  BY Halves
<1> HIDE DEF s, o, g
<1>4. Half(Put(s, g), q, o, fence, Newest) /\ Half(o, 1 - q, Put(s, g), fence, Newest)
  BY <1>1, <1>2, <1>3, HalvesOther
<1>5. \A x : x \in Left(Put(s, g)) <=> x \in Left(s)
  BY <1>1, <1>2, LeftPut
<1>6. HalvesInv'
  BY <1>4, HalvesThen DEF s, o, g
<1>7. SameUndone
  BY <1>5, Halves, HalvesThen DEF s, o, g, SameUndone
<1> QED
  BY <1>6, <1>7

\* An empty list enters the compute queue.
LEMMA SubmitEmpty ==
    ASSUME ProgramInv, CallInv, HalvesInv, Gpu!Execute(0, FenceBound + 1, NoJob)
    PROVE  HalvesInv' /\ SameUndone
<1>1. HalvesInv'
  BY EmptyHalves
<1>2. queue'[0] = Entered(0, FenceBound + 1, NoJob) /\ queue'[1] = queue[1]
  <2>1. queue'[0] = Entered(0, FenceBound + 1, NoJob) /\ queue'[1 - 0] = queue[1 - 0]
    BY SubmitEffect, SubmitNewest
  <2> QED
    BY <2>1
<1> DEFINE e == Gpu!Exec(frame_index, NoJob)
           g == Gpu!Signal(Newest)
<1>3. queue'[0] = Put(Put(queue[0], e), g)
  BY <1>2 DEF Entered
<1>4. frame_index \in Nat /\ Newest \in Nat /\ queue[0] \in Seq(Known!Entry)
  BY GpuTypes
<1>5. e \in Known!Entry /\ ~IsReal(e) /\ g \in Known!Entry /\ ~IsReal(g)
  BY <1>4, EntriesMade
<1> HIDE DEF e, g
<1>6. Put(queue[0], e) \in Seq(Known!Entry)
  BY <1>4, <1>5 DEF Put
<1>7. \A x : x \in Left(queue'[0]) <=> x \in Left(queue[0])
  BY <1>3, <1>4, <1>5, <1>6, LeftPut
<1>8. SameUndone
  BY <1>2, <1>7 DEF SameUndone, Undone
<1> QED
  BY <1>1, <1>8

\* Where the newest value is when the CPU steps inside a call.
LEMMA CallNewest ==
    ASSUME ProgramInv
    PROVE  /\ Gpu!MoveToNextFrame => Newest' = Newest /\ Newest = Gpu!CurrFenceVal
           /\ Gpu!CallStep => /\ Newest' = Newest \/ (Newest' = Newest + 1 /\ UNCHANGED queue)
                              /\ fence' = fence /\ frame_index' = frame_index
           /\ Gpu!FlushSignal => Newest' = Newest /\ Newest = Gpu!CurrFenceVal
           /\ Gpu!PaceDone => Newest' = Newest + 1 /\ call' = "idle" /\ Gpu!CurrFenceVal' = Newest'
<1>1. /\ fence_vals \in [0 .. FrameCount - 1 -> Nat] /\ frame_index \in 0 .. FrameCount - 1
      /\ FrameCount \in Nat \ {0, 1}
  BY GpuTypes, SlotNumbers
<1>2. ASSUME Gpu!MoveToNextFrame PROVE Newest' = Newest /\ Newest = Gpu!CurrFenceVal
  <2>1. call = "idle" /\ call' = "pace" /\ frame_index' = Gpu!NextSlot(frame_index) /\ fence_vals' = fence_vals
    BY <1>2 DEF Gpu!MoveToNextFrame, Gpu!Ready
  <2>2. frame_index = Gpu!PrevSlot(Gpu!NextSlot(frame_index))
    <3> DEFINE n == frame_index + 1
    <3>1. n \in Nat \ {0} /\ n <= FrameCount /\ n - 1 = frame_index
      BY <1>1
    <3> HIDE DEF n
    <3>2. SlotOf(n) = n - 1 /\ SlotOf(n + 1) = Gpu!NextSlot(SlotOf(n)) /\ SlotOf(n) = Gpu!PrevSlot(SlotOf(n + 1))
      BY <3>1, SlotOfFrame
    <3> QED
      BY <3>1, <3>2
  <2>3. Newest = fence_vals[frame_index] /\ Newest = Gpu!CurrFenceVal
    BY <2>1 DEF Newest, Gpu!NewestVal, Gpu!NewestSlot, Gpu!InPace, Gpu!CurrFenceVal
  <2>4. Newest' = fence_vals'[Gpu!PrevSlot(frame_index)']
    BY <2>1 DEF Newest, Gpu!NewestVal, Gpu!NewestSlot, Gpu!InPace
  <2>5. Gpu!PrevSlot(frame_index)' = Gpu!PrevSlot(Gpu!NextSlot(frame_index))
    BY <2>1 DEF Gpu!PrevSlot
  <2> QED
    BY <2>1, <2>2, <2>3, <2>4, <2>5
<1>3. ASSUME Gpu!PaceWait \/ Gpu!FlushWait \/ Gpu!FlushPassed \/ Gpu!FlushSkip \/ Gpu!WaitForGpuReturns
      PROVE  Newest' = Newest /\ fence' = fence /\ frame_index' = frame_index
  BY <1>3 DEF Gpu!PaceWait, Gpu!FlushWait, Gpu!FlushPassed, Gpu!FlushSkip, Gpu!WaitForGpuReturns, Newest,
     Gpu!NewestVal, Gpu!NewestSlot, Gpu!InPace, Gpu!PrevSlot
<1>4. ASSUME Gpu!FlushSignal
      PROVE  Newest' = Newest /\ Newest = Gpu!CurrFenceVal /\ fence' = fence /\ frame_index' = frame_index
  BY <1>4 DEF Gpu!FlushSignal, Newest, Gpu!NewestVal, Gpu!NewestSlot, Gpu!InPace, Gpu!CurrFenceVal
<1>5. ASSUME Gpu!FlushWoken
      PROVE  Newest' = Newest + 1 /\ UNCHANGED <<queue, fence, frame_index>>
  <2>1. /\ call = "await" /\ call' = "flush" /\ UNCHANGED <<queue, fence, frame_index>>
        /\ fence_vals' = [fence_vals EXCEPT ![frame_index] = fence_vals[frame_index] + 1]
    BY <1>5 DEF Gpu!FlushWoken, Gpu!CurrFenceVal
  <2>2. Newest = fence_vals[frame_index] /\ Newest' = fence_vals'[frame_index']
    BY <2>1 DEF Newest, Gpu!NewestVal, Gpu!NewestSlot, Gpu!InPace
  <2> QED
    BY <1>1, <2>1, <2>2
<1>6. ASSUME Gpu!PaceDone
      PROVE  /\ Newest' = Newest + 1 /\ call' = "idle" /\ Gpu!CurrFenceVal' = Newest'
             /\ UNCHANGED <<queue, fence, frame_index>>
  <2>1. /\ call \in {"pace", "pace_await"} /\ call' = "idle" /\ UNCHANGED <<queue, fence, frame_index>>
        /\ fence_vals' = [fence_vals EXCEPT ![frame_index] = fence_vals[Gpu!PrevSlot(frame_index)] + 1]
    BY <1>6 DEF Gpu!PaceDone, Gpu!StartSlot
  <2>2. /\ Newest = fence_vals[Gpu!PrevSlot(frame_index)]
        /\ Newest' = fence_vals'[frame_index'] /\ Gpu!CurrFenceVal' = fence_vals'[frame_index']
    BY <2>1 DEF Newest, Gpu!NewestVal, Gpu!NewestSlot, Gpu!InPace, Gpu!CurrFenceVal
  <2> QED
    BY <1>1, <2>1, <2>2
<1> QED
  BY <1>2, <1>3, <1>4, <1>5, <1>6 DEF Gpu!CallStep

\* A step of the CPU inside a call.
LEMMA CallHalves ==
    ASSUME ProgramInv, HalvesInv, Gpu!CallStep
    PROVE  HalvesInv' /\ SameUndone
<1>1. CASE UNCHANGED queue
  BY <1>1, CallNewest, HalvesKept
<1>2. CASE Gpu!FlushSignal
  <2>1. /\ queue' = [queue EXCEPT ![wait_queue] = Append(queue[wait_queue], Gpu!Signal(Gpu!CurrFenceVal))]
        /\ wait_queue < 2 /\ fence' = fence
    BY <1>2 DEF Gpu!FlushSignal, Gpu!CmdQueueNum
  <2>2. wait_queue \in {0, 1}
    <3>1. wait_queue \in 0 .. 2
      BY DEF ProgramInv, Known!TypeOK, Known!CmdQueueNum
    <3> QED
      BY <2>1, <3>1
  <2>3. Newest' = Newest /\ Newest = Gpu!CurrFenceVal /\ Newest \in Nat
    BY <1>2, CallNewest, GpuTypes
  <2>4. /\ queue'[wait_queue] = Put(queue[wait_queue], Gpu!Signal(Newest))
        /\ queue'[1 - wait_queue] = queue[1 - wait_queue]
    BY <2>1, <2>2, <2>3, GpuTypes DEF Put
  <2> QED
    BY <2>1, <2>2, <2>3, <2>4, HalvesSignal
<1> QED
  BY <1>1, <1>2 DEF Gpu!CallStep, Gpu!PaceWait, Gpu!PaceDone, Gpu!StartSlot, Gpu!FlushWait,
     Gpu!FlushPassed, Gpu!FlushSkip, Gpu!FlushWoken, Gpu!WaitForGpuReturns

\* MoveToNextFrame signals in both queues.
LEMMA MoveHalves ==
    ASSUME ProgramInv, HalvesInv, Gpu!MoveToNextFrame
    PROVE  HalvesInv' /\ SameUndone
<1> DEFINE g == Gpu!Signal(Newest)
<1>1. /\ queue'[0] = Put(queue[0], g) /\ queue'[1] = Put(queue[1], g) /\ fence' = fence /\ Newest' = Newest
      /\ Newest \in Nat /\ fence \in Nat /\ queue[0] \in Seq(Known!Entry) /\ queue[1] \in Seq(Known!Entry)
  <2>1. Newest' = Newest /\ Newest = Gpu!CurrFenceVal
    BY CallNewest
  <2>2. queue' = [q \in {0, 1} |-> Append(queue[q], Gpu!Signal(Gpu!CurrFenceVal))] /\ fence' = fence
    BY DEF Gpu!MoveToNextFrame, Gpu!CmdQueues, Gpu!Compute, Gpu!VideoEncode
  <2> QED
    BY <2>1, <2>2, GpuTypes DEF Put
<1>2. g \in Known!Entry /\ ~IsReal(g) /\ ~IsWait(g) /\ g.kind # "exec"
  BY <1>1, EntriesMade
<1> HIDE DEF g
<1> DEFINE s == Put(queue[0], g)
           t == Put(queue[1], g)
<1>3. Half(s, 0, queue[1], fence, Newest) /\ Half(queue[1], 1, s, fence, Newest) /\ s \in Seq(Known!Entry)
  BY <1>1, <1>2, HalvesOther DEF HalvesInv
<1>4. \A x : x \in Left(s) <=> x \in Left(queue[0])
  BY <1>1, <1>2, LeftPut
<1>5. \A x : x \in Left(t) <=> x \in Left(queue[1])
  BY <1>1, <1>2, LeftPut
<1> HIDE DEF s
<1>6. Half(t, 1, s, fence, Newest) /\ Half(s, 0, t, fence, Newest)
  BY <1>1, <1>2, <1>3, HalvesOther
<1> HIDE DEF t
<1>7. queue'[0] = s /\ queue'[1] = t
  BY <1>1 DEF s, t
<1>8. HalvesInv'
  BY <1>1, <1>6, <1>7 DEF HalvesInv
<1>9. SameUndone
  BY <1>4, <1>5, <1>7 DEF SameUndone, Undone
<1> QED
  BY <1>8, <1>9

\* What a step of the GPU does to its queue and to the fence.
LEMMA GpuEffect ==
    ASSUME ProgramInv, CallInv, NEW q \in {0, 1}, Gpu!GpuStep(q)
    PROVE  /\ queue[q] # <<>> /\ queue'[q] = Tail(queue[q]) /\ queue'[1 - q] = queue[1 - q]
           /\ Runs(queue[q][1], fence, fence') /\ fence' \in Nat
           /\ Newest' = Newest /\ call' = call /\ frame_index' = frame_index
           /\ Gpu!CurrFenceVal' = Gpu!CurrFenceVal
           /\ queue[q][1] \in Known!Entry
<1>1. /\ queue \in [{0, 1} -> Seq(Known!Entry)] /\ fence \in Nat
  BY GpuTypes
<1>2. /\ queue[q] # <<>> /\ queue' = [queue EXCEPT ![q] = Tail(queue[q])]
      /\ UNCHANGED <<call, frame_index, fence_vals>>
  BY DEF Gpu!GpuStep, Gpu!GpuWait, Gpu!GpuExec, Gpu!GpuSignal, Gpu!HeadIs, Gpu!Pop
<1>3. Head(queue[q]) = queue[q][1] /\ queue[q][1] \in Known!Entry /\ queue[q][1].val \in Nat
  <2>1. queue[q] \in Seq(Known!Entry) /\ Len(queue[q]) > 0
    BY <1>1, <1>2
  <2>2. queue[q][1] \in Known!Entry
    BY <2>1
  <2> QED
    BY <2>1, <2>2 DEF Known!Entry
<1>4. Runs(queue[q][1], fence, fence') /\ fence' \in Nat
  <2>1. CASE Gpu!GpuWait(q)
    BY <1>1, <1>3, <2>1 DEF Gpu!GpuWait, Gpu!HeadIs, Runs, IsSignal, IsWait
  <2>2. CASE Gpu!GpuExec(q)
    BY <1>1, <1>3, <2>2 DEF Gpu!GpuExec, Gpu!HeadIs, Runs, IsSignal, IsWait
  <2>3. CASE Gpu!GpuSignal(q)
    <3>1. /\ queue[q][1].kind = "signal"
          /\ fence' = queue[q][1].val \/ fence' = fence
      BY <1>3, <2>3 DEF Gpu!GpuSignal, Gpu!HeadIs
    <3> QED
      BY <1>1, <1>3, <3>1 DEF Runs, IsSignal, IsWait
  <2> QED
    BY <2>1, <2>2, <2>3 DEF Gpu!GpuStep
<1>5. queue'[q] = Tail(queue[q]) /\ queue'[1 - q] = queue[1 - q]
  BY <1>1, <1>2
<1>6. Newest' = Newest /\ Gpu!CurrFenceVal' = Gpu!CurrFenceVal
  BY <1>2, Zenon DEF Newest, Gpu!NewestVal, Gpu!NewestSlot, Gpu!InPace, Gpu!PrevSlot, Gpu!CurrFenceVal
<1> QED
  BY <1>2, <1>3, <1>4, <1>5, <1>6

\* A step of the GPU keeps the halves, and does the job of the list that it runs.
LEMMA GpuHalves ==
    ASSUME ProgramInv, CallInv, HalvesInv, NEW q \in {0, 1}, Gpu!GpuStep(q)
    PROVE  /\ HalvesInv'
           /\ ~IsReal(queue[q][1]) => SameUndone
           /\ IsReal(queue[q][1]) => /\ queue[q][1].job \in Undone /\ Leaves(queue[q][1].job)
                                     /\ queue[q][1].job.op = "estimate" <=> q = 1
<1> DEFINE s == queue[q]
           o == queue[1 - q]
           t == queue'[q]
           g == fence'
           e == s[1]
<1>1. /\ s # <<>> /\ t = Tail(s) /\ queue'[1 - q] = o /\ Runs(e, fence, g) /\ g \in Nat
      /\ Newest' = Newest
  BY GpuEffect
<1>2. s \in Seq(Known!Entry) /\ o \in Seq(Known!Entry) /\ fence \in Nat /\ Newest \in Nat
  BY GpuTypes
<1>3. Half(s, q, o, fence, Newest) /\ Half(o, 1 - q, s, fence, Newest)
  BY Halves
<1>10. 1 \in 1 .. Len(s)
  BY <1>1, <1>2
<1> HIDE DEF s, o, t, g
<1>4. Half(t, q, o, g, Newest) /\ Half(o, 1 - q, t, g, Newest)
  <2>1. t = Rest(s) /\ Runs(First(s), fence, g)
    BY <1>1 DEF Rest, First
  <2>2. Half(Rest(s), q, o, g, Newest) /\ Half(o, 1 - q, Rest(s), g, Newest)
    BY <1>1, <1>2, <1>3, <2>1, HalvesPop
  <2> QED
    BY <2>1, <2>2
<1>5. /\ IsReal(e) => e.job \in Left(s)
      /\ \A job : job \in Left(t) <=> job \in Left(s) /\ ~(IsReal(e) /\ job = e.job)
  BY <1>1, <1>2, <1>3, LeftPop DEF Half
<1>6. HalvesInv'
  BY <1>1, <1>4, HalvesThen DEF s, o, t, g
<1> HIDE DEF IsReal
<1>7. ~IsReal(e) => SameUndone
  BY <1>1, <1>5, Halves, HalvesThen DEF s, o, t, SameUndone
<1>8. IsReal(e) => (e.job.op = "estimate" <=> q = 1)
  BY <1>3, <1>10 DEF Half, Homes
<1>9. ASSUME IsReal(e) PROVE e.job \in Undone /\ Leaves(e.job)
  <2>1. e.job \in Undone
    BY <1>5, <1>9, Halves DEF s
  <2>2. e.job \notin Left(o)
    BY <1>8, <1>9, UndoneJobs DEF o
  <2>3. \A job : job \in Undone' <=> job \in Left(t) \/ job \in Left(o)
    BY <1>1, HalvesThen DEF t, o
  <2>4. \A job : job \in Undone <=> job \in Left(s) \/ job \in Left(o)
    BY Halves DEF s, o
  <2> QED
    BY <1>5, <1>9, <2>1, <2>2, <2>3, <2>4 DEF Leaves
<1> QED
  BY <1>6, <1>7, <1>8, <1>9 DEF s

(****************************************************************************)
(* The values that are handed out                                            *)
(****************************************************************************)

\* What of a queue outlives another entry.
LEMMA PutFacts ==
    ASSUME NEW s \in Seq(Known!Entry), NEW e \in Known!Entry
    PROVE  /\ Put(s, e) \in Seq(Known!Entry)
           /\ \A v : SignalsBelow(v, s) /\ (IsSignal(e) => e.val < v) => SignalsBelow(v, Put(s, e))
           /\ \A x : ListsAt(s, x) /\ (e.kind = "exec" => e.val = x) => ListsAt(Put(s, e), x)
<1> DEFINE t == Append(s, e)
<1>1. /\ t \in Seq(Known!Entry) /\ Len(t) = Len(s) + 1 /\ t[Len(t)] = e /\ Len(s) \in Nat
      /\ \A n \in 1 .. Len(s) : t[n] = s[n]
  BY Known!Appended
<1>2. t = Put(s, e)
  BY DEF Put
<1> HIDE DEF t, IsSignal
<1>3. \A v : SignalsBelow(v, s) /\ (IsSignal(e) => e.val < v) => SignalsBelow(v, t)
  BY <1>1 DEF SignalsBelow
<1>4. \A x : ListsAt(s, x) /\ (e.kind = "exec" => e.val = x) => ListsAt(t, x)
  BY <1>1 DEF ListsAt
<1> QED
  BY <1>1, <1>2, <1>3, <1>4

\* What of a queue outlives the run of its head.
LEMMA RestFacts ==
    ASSUME NEW s \in Seq(Known!Entry), s # <<>>
    PROVE  /\ Rest(s) \in Seq(Known!Entry) /\ First(s) \in Known!Entry
           /\ \A v : SignalsBelow(v, s) => SignalsBelow(v, Rest(s)) /\ (IsSignal(First(s)) => First(s).val < v)
           /\ \A x : ListsAt(s, x) => ListsAt(Rest(s), x)
<1> DEFINE t == Tail(s)
<1>1. /\ t \in Seq(Known!Entry) /\ 1 \in 1 .. Len(s) /\ s[1] \in Known!Entry
  BY Known!Popped
<1>2. t = Rest(s) /\ s[1] = First(s)
  BY DEF Rest, First
<1>3. \A v : SignalsBelow(v, s) => SignalsBelow(v, t)
  BY PopOwn
<1>4. \A x : ListsAt(s, x) => ListsAt(t, x)
  BY PopOwn
<1>5. \A v : SignalsBelow(v, s) => (IsSignal(s[1]) => s[1].val < v)
  BY <1>1 DEF SignalsBelow
<1> HIDE DEF t, IsSignal
<1> QED
  BY <1>1, <1>2, <1>3, <1>4, <1>5

\* No signal is beyond the newest value.
LEMMA SignalsUpToNewest ==
    ASSUME ProgramInv, CallInv
    PROVE  /\ fence <= Newest /\ SignalsBelow(Newest + 1, queue[0]) /\ SignalsBelow(Newest + 1, queue[1])
<1>1. /\ fence <= Known!NewestVal /\ Known!UpTo(queue[0], Known!NewestVal) /\ Known!UpTo(queue[1], Known!NewestVal)
  BY DEF ProgramInv, CallInv, Known!FenceOrder, Known!SignalsUpTo, Known!CmdQueues, Known!Compute,
     Known!VideoEncode
<1>2. Known!NewestVal = Newest
  BY Zenon DEF Newest, Known!NewestVal, Gpu!NewestVal, Known!NewestSlot, Gpu!NewestSlot, Known!InPace,
     Gpu!InPace,
     Known!PrevSlot, Gpu!PrevSlot
<1>3. Newest \in Nat /\ queue[0] \in Seq(Known!Entry) /\ queue[1] \in Seq(Known!Entry)
  BY GpuTypes
<1>4. /\ \A n \in 1 .. Len(queue[0]) : queue[0][n].val \in Nat
      /\ \A n \in 1 .. Len(queue[1]) : queue[1][n].val \in Nat
  BY <1>3, EntryFacts
<1> QED
  BY SMTT(30), <1>1, <1>2, <1>3, <1>4 DEF Known!UpTo, SignalsBelow, IsSignal

\* What a submission adds to a queue.
LEMMA EnteredFacts ==
    ASSUME ProgramInv, CallInv, NEW q \in {0, 1}, NEW v \in Nat, v # FenceBound + 1 => v < Newest,
           NEW job \in Jobs \cup {NoJob}
    PROVE  /\ SignalsBelow(Newest + 1, Entered(q, v, job))
           /\ ListsAt(queue[q], frame_index) => ListsAt(Entered(q, v, job), frame_index)
<1> DEFINE s == queue[q]
           w == Gpu!Wait(v)
           e == Gpu!Exec(frame_index, job)
           g == Gpu!Signal(Newest)
           u == IF v # FenceBound + 1 THEN Put(s, w) ELSE s
           t == Put(u, e)
           z == Put(t, g)
<1>1. /\ frame_index \in Nat /\ Newest \in Nat /\ Newest < Newest + 1 /\ s \in Seq(Known!Entry)
  BY GpuTypes
<1>2. SignalsBelow(Newest + 1, s)
  BY SignalsUpToNewest
<1>3. w \in Known!Entry /\ ~IsSignal(w) /\ w.kind # "exec"
  BY EntriesMade
<1>4. e \in Known!Entry /\ ~IsSignal(e) /\ e.val = frame_index
  BY <1>1, EntriesMade
<1>5. g \in Known!Entry /\ g.kind # "exec" /\ g.val = Newest
  BY <1>1, EntriesMade
<1>9. Entered(q, v, job) = z
  BY DEF Entered
<1> DEFINE top == Newest + 1
<1>10. SignalsBelow(top, s) /\ Newest < top
  BY <1>1, <1>2
<1> HIDE DEF s, w, e, g, top
<1>6. u \in Seq(Known!Entry) /\ SignalsBelow(top, u) /\ (ListsAt(s, frame_index) => ListsAt(u, frame_index))
  BY <1>1, <1>3, <1>10, PutFacts
<1> HIDE DEF u
<1>7. t \in Seq(Known!Entry) /\ SignalsBelow(top, t) /\ (ListsAt(s, frame_index) => ListsAt(t, frame_index))
  BY <1>4, <1>6, PutFacts
<1> HIDE DEF t
<1>8. z \in Seq(Known!Entry) /\ SignalsBelow(top, z) /\ (ListsAt(s, frame_index) => ListsAt(z, frame_index))
  BY <1>5, <1>7, <1>10, PutFacts
<1> QED
  BY <1>8, <1>9 DEF s, top

\* After a submission the fence and all signals are below the current value.
LEMMA FreshSubmit ==
    ASSUME ProgramInv, CallInv, NEW q \in {0, 1}, NEW v \in Nat, NEW job \in Jobs \cup {NoJob},
           Gpu!Execute(q, v, job) \/ Gpu!ExecuteAndReset(q, v, job)
    PROVE  /\ FreshInv'
           /\ ListsAt(queue[0], frame_index) /\ ListsAt(queue[1], frame_index) =>
                ListsAt(queue'[0], frame_index) /\ ListsAt(queue'[1], frame_index)
<1>1. /\ queue'[q] = Entered(q, v, job) /\ queue'[1 - q] = queue[1 - q]
      /\ fence' = fence /\ Gpu!CurrFenceVal' = Newest + 1
      /\ v # FenceBound + 1 => v < Newest
  BY SubmitEffect, SubmitNewest
<1>2. fence <= Newest /\ SignalsBelow(Newest + 1, queue[0]) /\ SignalsBelow(Newest + 1, queue[1])
  BY SignalsUpToNewest
<1>3. /\ SignalsBelow(Newest + 1, queue'[q])
      /\ ListsAt(queue[q], frame_index) => ListsAt(queue'[q], frame_index)
  BY <1>1, EnteredFacts
<1>4. (q = 0 /\ 1 - q = 1) \/ (q = 1 /\ 1 - q = 0)
  OBVIOUS
<1>5. SignalsBelow(Newest + 1, queue'[0]) /\ SignalsBelow(Newest + 1, queue'[1])
  BY <1>1, <1>2, <1>3, <1>4
<1>6. fence' < Newest + 1
  BY <1>1, <1>2, GpuTypes
<1> QED
  BY <1>1, <1>3, <1>4, <1>5, <1>6 DEF FreshInv

\* ... and so they are when MoveToNextFrame returns.
LEMMA FreshPaced ==
    ASSUME ProgramInv, CallInv, Gpu!PaceDone
    PROVE  FreshInv'
<1>1. Gpu!CurrFenceVal' = Newest + 1 /\ UNCHANGED <<queue, fence>>
  BY CallNewest DEF Gpu!PaceDone, Gpu!StartSlot
<1>2. fence <= Newest /\ SignalsBelow(Newest + 1, queue[0]) /\ SignalsBelow(Newest + 1, queue[1])
  BY SignalsUpToNewest
<1>3. fence < Newest + 1
  BY <1>2, GpuTypes
<1> QED
  BY <1>1, <1>2, <1>3 DEF FreshInv

\* A step of the GPU keeps what the queues hold in order.
LEMMA FreshGpu ==
    ASSUME ProgramInv, CallInv, NEW q \in {0, 1}, Gpu!GpuStep(q), pc' = pc, FreshInv
    PROVE  FreshInv'
<1>1. /\ queue[q] # <<>> /\ queue'[q] = Rest(queue[q]) /\ queue'[1 - q] = queue[1 - q]
      /\ Runs(First(queue[q]), fence, fence') /\ fence' \in Nat
      /\ call' = call /\ Gpu!CurrFenceVal' = Gpu!CurrFenceVal
  BY GpuEffect DEF Rest, First
<1>2. queue[q] \in Seq(Known!Entry) /\ fence \in Nat /\ Gpu!CurrFenceVal \in Nat
  BY GpuTypes DEF Gpu!CurrFenceVal
<1>3. (q = 0 /\ 1 - q = 1) \/ (q = 1 /\ 1 - q = 0)
  OBVIOUS
<1> SUFFICES ASSUME call = "idle", pc \notin {"save", "done"}
             PROVE  /\ fence' < Gpu!CurrFenceVal
                    /\ SignalsBelow(Gpu!CurrFenceVal, queue'[0]) /\ SignalsBelow(Gpu!CurrFenceVal, queue'[1])
  BY <1>1 DEF FreshInv
<1> DEFINE top == Gpu!CurrFenceVal
<1>4. fence < top /\ SignalsBelow(top, queue[q]) /\ SignalsBelow(top, queue[1 - q]) /\ top \in Nat
  BY <1>2, <1>3 DEF FreshInv
<1> HIDE DEF top
<1>5. SignalsBelow(top, Rest(queue[q])) /\ (IsSignal(First(queue[q])) => First(queue[q]).val < top)
  BY <1>1, <1>2, <1>4, RestFacts
<1>6. fence' < top
  BY <1>1, <1>2, <1>4, <1>5 DEF Runs
<1>7. SignalsBelow(top, queue'[0]) /\ SignalsBelow(top, queue'[1])
  BY <1>1, <1>3, <1>4, <1>5
<1> QED
  BY <1>6, <1>7 DEF top

\* The value that a pass waits for keeps its meaning when the GPU makes a step.
LEMMA NextWaitGpu ==
    ASSUME ProgramInv, CallInv, HalvesInv, NEW q \in {0, 1}, Gpu!GpuStep(q), NEW v \in Nat, NEW p \in {0, 1},
           NextWait(v, queue[p], queue[1 - p])
    PROVE  NextWait(v, queue[p], queue[1 - p])'
<1>1. /\ queue[q] # <<>> /\ queue'[q] = Rest(queue[q]) /\ queue'[1 - q] = queue[1 - q]
      /\ Runs(queue[q][1], fence, fence') /\ fence' \in Nat
      /\ Gpu!CurrFenceVal' = Gpu!CurrFenceVal
  BY GpuEffect DEF Rest
<1>2. /\ queue[q] \in Seq(Known!Entry) /\ queue[1 - q] \in Seq(Known!Entry) /\ fence \in Nat
      /\ Ticketed(queue[q])
  BY GpuTypes, Halves DEF Half
<1>3. v = Gpu!CurrFenceVal - 1 /\ SignalsBelow(v, queue[p]) /\ Awaits(v, queue[1 - p], fence)
  BY DEF NextWait
<1>4. CASE p = q
  <2>1. SignalsBelow(v, Rest(queue[q])) /\ (IsSignal(First(queue[q])) => First(queue[q]).val < v)
    BY <1>1, <1>2, <1>3, <1>4, RestFacts
  <2>2. Awaits(v, queue[1 - q], fence')
    <3> DEFINE e == queue[q][1]
               o == queue[1 - q]
               g == fence'
    <3>1. Runs(e, fence, g) /\ (IsSignal(e) => e.val < v) /\ Awaits(v, o, fence) /\ g \in Nat /\ fence \in Nat
      BY <1>1, <1>2, <1>3, <1>4, <2>1 DEF First
    <3> HIDE DEF e, o, g
    <3>2. Awaits(v, o, g)
      BY <3>1, PopAwaiting
    <3> QED
      BY <3>2 DEF o, g
  <2> QED
    BY <1>1, <1>3, <1>4, <2>1, <2>2 DEF NextWait
<1>5. CASE p = 1 - q
  <2>1. 1 - p = q /\ queue'[p] = queue[p]
    BY <1>1, <1>5
  <2>2. Awaits(v, queue'[q], fence')
    <3> DEFINE s == queue[q]
               t == queue'[q]
               g == fence'
    <3>1. /\ s \in Seq(Known!Entry) /\ s # <<>> /\ t = Tail(s) /\ Runs(s[1], fence, g) /\ g \in Nat
          /\ fence \in Nat /\ Ticketed(s) /\ Awaits(v, s, fence)
      BY <1>1, <1>2, <1>3, <2>1 DEF Rest
    <3> HIDE DEF s, t, g
    <3>2. Awaits(v, t, g)
      BY <3>1, PopAwaited
    <3> QED
      BY <3>2 DEF t, g
  <2> QED
    BY <1>1, <1>3, <2>1, <2>2 DEF NextWait
<1> QED
  BY <1>4, <1>5

(****************************************************************************)
(* The passes of the frames on their way                                     *)
(****************************************************************************)

\* What the counters say of them.
LEMMA WindowFacts ==
    ASSUME ControlInv
    PROVE  /\ Len(saved) \in Nat /\ curr_frame \in Nat
           /\ curr_frame <= Len(saved) + FrameCount
           /\ pc \in Body => /\ curr_frame \in Window /\ curr_frame >= 1
                             /\ curr_frame > 1 => curr_frame - 1 \in Window
                             /\ total_frames = 0 /\ input.frames > 0
                             /\ frame_index = SlotOf(curr_frame)
                             /\ saved = <<>> => curr_frame <= FrameCount
           /\ pc = "loop" /\ total_frames = 0 /\ curr_frame < input.frames =>
                curr_frame + 1 <= Len(saved) + FrameCount
           /\ pc \in {"readback", "readback_wait", "save"} =>
                /\ Len(saved) + 1 \in Window /\ SavingSlot = SlotOf(Len(saved) + 1) /\ input.frames > 0
                /\ total_frames # 0 => curr_frame = input.frames
                /\ total_frames = 0 => curr_frame = Len(saved) + FrameCount
           /\ pc = "after" /\ saved # <<>> => i >= FrameCount - 1 /\ input.frames > 0
<1>1. i \in Nat /\ Len(saved) \in Nat /\ curr_frame \in Nat /\ input.frames \in Nat /\ total_frames \in Nat
      /\ FrameCount \in Nat \ {0, 1} /\ pc \in Labels /\ curr_frame <= input.frames
  BY FrameNumbers, SlotNumbers DEF ControlInv, MainTypes
<1>2. CASE input.frames = 0
  <2>1. /\ curr_frame = 0 /\ saved = <<>> /\ pc \in {"random_tex", "loop", "after", "loop_end", "aborted"}
    BY <1>2 DEF ControlInv, EmptyInput
  <2> QED
    BY <1>1, <1>2, <2>1 DEF Body, Reading
<1>3. CASE input.frames > 0
  <2>1. pc \in Body => /\ curr_frame = i + 1 /\ total_frames = 0
                       /\ Len(saved) = SavedBy(i) /\ frame_index = SlotOf(curr_frame)
    <3>1. pc \in Body => pc \notin {"loop_end"} \cup Final
      BY DEF Body, Reading, Final
    <3> QED
      BY <1>3, <3>1 DEF ControlInv, Counting, Branches
  <2>2. pc \notin Body /\ total_frames = 0 =>
          /\ pc \in Ending => curr_frame = i + 1
          /\ pc \in {"random_tex", "loop"} => curr_frame = i
          /\ pc \in Ending \cup {"random_tex", "loop"}
    BY <1>1, <1>3 DEF ControlInv, Counting, Ending, Final, Body, Reading, Labels
  <2>3. saved = <<>> <=> Len(saved) = 0
    BY DEF ControlInv, MainTypes
  <2>4. /\ Len(saved) = SavedBy(IF pc \in {"loop_end"} \cup Final THEN i + 1 ELSE i)
        /\ total_frames # 0 => /\ curr_frame = input.frames /\ i >= input.frames
                               /\ pc \notin Body
    BY <1>3 DEF ControlInv, Counting
  <2>5. curr_frame <= Len(saved) + FrameCount
    <3>1. SavedBy(i) >= i - (FrameCount - 1) /\ SavedBy(i + 1) >= i + 1 - (FrameCount - 1)
      BY <1>1 DEF SavedBy
    <3>2. Len(saved) >= i - (FrameCount - 1)
      BY <1>1, <2>4, <3>1
    <3>3. curr_frame <= i + 1
      BY <1>1, <2>1, <2>2, <2>4
    <3> QED
      BY <1>1, <3>2, <3>3
  <2>6. pc \in Body => /\ Len(saved) + 1 <= curr_frame /\ curr_frame >= 1
                       /\ curr_frame > 1 => Len(saved) + 1 <= curr_frame - 1
                       /\ saved = <<>> => curr_frame <= FrameCount
    BY <1>1, <2>1, <2>3 DEF SavedBy
  <2>7. pc = "loop" /\ total_frames = 0 => curr_frame + 1 <= Len(saved) + FrameCount
    BY <1>1, <2>2, <2>4 DEF SavedBy, Body, Reading, Final
  <2>8. pc \in {"readback", "readback_wait", "save"} =>
                /\ Len(saved) + 1 \in Window /\ SavingSlot = SlotOf(Len(saved) + 1)
                /\ total_frames # 0 => curr_frame = input.frames
                /\ total_frames = 0 => curr_frame = Len(saved) + FrameCount
    <3> SUFFICES ASSUME pc \in {"readback", "readback_wait", "save"}
                 PROVE  /\ Len(saved) + 1 \in Window /\ SavingSlot = SlotOf(Len(saved) + 1)
                        /\ total_frames # 0 => curr_frame = input.frames
                        /\ total_frames = 0 => curr_frame = Len(saved) + FrameCount
      OBVIOUS
    <3>1. i >= FrameCount - 1
      BY <1>3 DEF ControlInv, Counting
    <3>2. /\ Len(saved) = i - (FrameCount - 1) /\ Len(saved) + 1 \in 1 .. curr_frame
          /\ SavingSlot = SlotOf(Len(saved) + 1)
      BY <1>3, <3>1, SavingFrame
    <3>3. total_frames = 0 => curr_frame = i + 1
      BY <2>2 DEF Ending, Body, Reading
    <3> QED
      BY <1>1, <2>4, <3>2, <3>3 DEF Window
  <2>9. pc = "after" /\ saved # <<>> => i >= FrameCount - 1
    BY <1>1, <2>3, <2>4 DEF SavedBy, Final
  <2> QED
    BY <1>1, <1>3, <2>1, <2>5, <2>6, <2>7, <2>8, <2>9 DEF Window
<1> QED
  BY <1>1, <1>2, <1>3

\* The frames on their way have slots of their own.
LEMMA WindowSlots ==
    ASSUME ControlInv, NEW n \in Window
    PROVE  /\ n \in Nat \ {0} /\ SlotOf(n) \in 0 .. FrameCount - 1
           /\ \A m \in Window : SlotOf(m) = SlotOf(n) => m = n
<1>1. /\ Len(saved) \in Nat /\ curr_frame \in Nat /\ curr_frame <= Len(saved) + FrameCount
      /\ FrameCount \in Nat \ {0, 1}
  BY WindowFacts, SlotNumbers
<1>2. n \in Nat \ {0} /\ Len(saved) + 1 <= n /\ n <= curr_frame
  BY <1>1 DEF Window
<1>3. ASSUME NEW m \in Window, SlotOf(m) = SlotOf(n) PROVE m = n
  <2>1. m \in Nat \ {0} /\ Len(saved) + 1 <= m /\ m <= curr_frame
    BY <1>1 DEF Window
  <2>2. ~(m < n)
    <3> SUFFICES ASSUME m < n PROVE FALSE
      OBVIOUS
    <3>1. n < m + FrameCount
      BY <1>1, <1>2, <2>1
    <3> QED
      BY <1>2, <1>3, <2>1, <3>1, SlotsApart
  <2>3. ~(n < m)
    <3> SUFFICES ASSUME n < m PROVE FALSE
      OBVIOUS
    <3>1. m < n + FrameCount
      BY <1>1, <1>2, <2>1
    <3> QED
      BY <1>2, <1>3, <2>1, <3>1, SlotsApart
  <2> QED
    BY <1>2, <2>1, <2>2, <2>3
<1> QED
  BY <1>2, <1>3, SlotOfFrame

\* Steps that neither read nor save a frame, and what they do to the passes submitted.
Steady == UNCHANGED <<input, curr_frame, saved>>
SameIssued == \A n \in Window, r \in 1 .. 11 : Has(n, r) => (Issued(n, r)' <=> Issued(n, r))
NewIssued(frame, rank) ==
    \A n \in Window, r \in 1 .. 11 :
        Has(n, r) => (Issued(n, r)' <=> Issued(n, r) \/ (n = frame /\ r = rank))
StaysBusy == saved # <<>> /\ Busy => Busy'

\* The job is the next one of its frame.
Turn(job, n) ==
    /\ n \in Window /\ job \in Jobs /\ job.slot = SlotOf(n)
    /\ Has(n, Rank(job))
    /\ \A r \in 1 .. 11 : Issued(n, r) => r < Rank(job)
    /\ job.op = "read" => job.frame = n
    /\ job.op = "propagate" => n > 1
    /\ job.op = "copy_out" => n = 1
    /\ job.op = "estimate" => n - 1 \in Window
    /\ job.op # "readback" => n = curr_frame /\ Busy

\* Passes of the frame that is being added.
Advances == \A r \in 1 .. 10 : Has(curr_frame, r) => (r < NextRank' <=> r < NextRank \/ r = NextRank)
Halts == \A r \in 1 .. 10 : Has(curr_frame, r) => (r < NextRank' <=> r < NextRank)

\* A step of AddFrame that submits a list submits the next pass of its frame.
LEMMA BodyTurn ==
    ASSUME ControlInv, pc \in Body, pc' \in Body, UNCHANGED <<input, curr_frame, saved, total_frames>>,
           NEW job \in Jobs, job.slot = frame_index, Rank(job) = NextRank, NextRank \in 1 .. 10,
           job.op # "readback", Has(curr_frame, NextRank), Advances,
           job.op = "read" => job.frame = curr_frame,
           job.op \in {"estimate", "propagate"} => curr_frame > 1,
           job.op = "copy_out" => curr_frame = 1
    PROVE  Turn(job, curr_frame) /\ NewIssued(curr_frame, Rank(job)) /\ StaysBusy
<1>1. /\ curr_frame \in Window
      /\ curr_frame > 1 => curr_frame - 1 \in Window
      /\ total_frames = 0 /\ frame_index = SlotOf(curr_frame) /\ curr_frame \in Nat /\ Len(saved) \in Nat
  BY WindowFacts
<1>2. Busy /\ Busy'
  BY <1>1 DEF Busy, Body, Reading, Final
<1>3. pc \notin {"readback_wait", "save"} /\ pc' \notin {"readback_wait", "save"}
  BY DEF Body, Reading
<1>4. Turn(job, curr_frame)
  <2>1. \A r \in 1 .. 11 : Issued(curr_frame, r) => r < NextRank
    BY <1>1, <1>3 DEF Issued
  <2> HIDE DEF Has, Issued, NextRank, Rank, Busy
  <2> QED
    BY <1>1, <1>2, <2>1 DEF Turn
<1>5. NewIssued(curr_frame, Rank(job))
  <2> SUFFICES ASSUME NEW n \in Window, NEW r \in 1 .. 11, Has(n, r)
               PROVE  Issued(n, r)' <=> Issued(n, r) \/ (n = curr_frame /\ r = Rank(job))
    BY DEF NewIssued
  <2>1. n <= curr_frame /\ n \in Nat
    BY <1>1 DEF Window
  <2>2. CASE r = 11
    BY <1>3, <2>2 DEF Issued
  <2>3. CASE r # 11 /\ n < curr_frame
    BY <2>1, <2>3 DEF Issued
  <2>4. CASE r # 11 /\ n = curr_frame
    <3>1. r \in 1 .. 10 /\ (r < NextRank' <=> r < NextRank \/ r = NextRank)
      BY <2>4 DEF Advances
    <3>2. Issued(n, r)' <=> r < NextRank'
      BY <1>1, <2>4 DEF Issued
    <3>3. Issued(n, r) <=> r < NextRank
      BY <1>1, <2>4 DEF Issued
    <3> QED
      BY <2>4, <3>1, <3>2, <3>3
  <2> QED
    BY <1>1, <2>1, <2>2, <2>3, <2>4
<1> QED
  BY <1>2, <1>4, <1>5 DEF StaysBusy

\* A step of AddFrame that comes to no other pass submits nothing.
LEMMA BodyHalts ==
    ASSUME ControlInv, pc \in Body, pc' \in Body, UNCHANGED <<input, curr_frame, saved, total_frames>>, Halts
    PROVE  SameIssued /\ StaysBusy
<1>1. /\ total_frames = 0 /\ curr_frame \in Nat /\ Len(saved) \in Nat
  BY WindowFacts
<1>2. Busy /\ Busy'
  BY <1>1 DEF Busy, Body, Reading, Final
<1>3. pc \notin {"readback_wait", "save"} /\ pc' \notin {"readback_wait", "save"}
  BY DEF Body, Reading
<1>4. SameIssued
  <2> SUFFICES ASSUME NEW n \in Window, NEW r \in 1 .. 11, Has(n, r)
               PROVE  Issued(n, r)' <=> Issued(n, r)
    BY DEF SameIssued
  <2>1. n <= curr_frame /\ n \in Nat
    BY <1>1 DEF Window
  <2>2. CASE r = 11
    BY <1>3, <2>2 DEF Issued
  <2>3. CASE r # 11 /\ n < curr_frame
    BY <2>1, <2>3 DEF Issued
  <2>4. CASE r # 11 /\ n = curr_frame
    <3>1. r \in 1 .. 10 /\ (r < NextRank' <=> r < NextRank)
      BY <2>4 DEF Halts
    <3>2. Issued(n, r)' <=> r < NextRank'
      BY <1>1, <2>4 DEF Issued
    <3>3. Issued(n, r) <=> r < NextRank
      BY <1>1, <2>4 DEF Issued
    <3> QED
      BY <2>4, <3>1, <3>2, <3>3
  <2> QED
    BY <1>1, <2>1, <2>2, <2>3, <2>4
<1> QED
  BY <1>2, <1>4 DEF StaysBusy

\* After the frame has been added all its passes but the readback are submitted.
LEMMA AfterBody ==
    ASSUME ControlInv, pc \in Labels \ (Body \ {"move"}), pc' \in Labels \ (Body \ {"move"}),
           UNCHANGED <<input, curr_frame, saved>>, pc \in {"readback_wait", "save"} <=> pc' \in {"readback_wait", "save"}
    PROVE  SameIssued
<1>1. NextRank = 11 /\ NextRank' = 11
  BY DEF NextRank, Labels, Body, Reading
<1> HIDE DEF NextRank
<1> QED
  BY <1>1 DEF SameIssued, Issued

(****************************************************************************)
(* The next pass of a frame                                                  *)
(****************************************************************************)

\* A step that submits the next job of frame n.
Issues(q, v, job, n) ==
    /\ Gpu!Execute(q, v, job) \/ Gpu!ExecuteAndReset(q, v, job)
    /\ pc \notin {"save", "done"} /\ ((pc \in Body /\ pc' \in Body) \/ pc' = "readback_wait")
    /\ job.op = "estimate" <=> q = 1
    /\ frame_index = job.slot \/ job.op = "readback"
    /\ WaitFits(q, v, job)
    /\ tex' = tex /\ cb' = cb /\ (job.op = "read" \/ pc = job.op)
    /\ Steady /\ Turn(job, n) /\ NewIssued(n, Rank(job)) /\ StaysBusy

\* A step of AddFrame that submits a list without a wait.
LEMMA BodyIssues ==
    ASSUME ControlInv, pc \in Body, pc' \in Body, UNCHANGED <<input, curr_frame, saved, total_frames, tex, cb>>,
           NEW job \in Jobs, job.slot = frame_index, Rank(job) = NextRank, NextRank \in 1 .. 10,
           job.op # "readback", Has(curr_frame, NextRank), Advances,
           job.op = "read" => job.frame = curr_frame,
           job.op \in {"estimate", "propagate"} => curr_frame > 1,
           job.op = "read" \/ pc = job.op,
           job.op = "copy_out" => curr_frame = 1,
           NEW q \in {0, 1}, NEW v, WaitFits(q, v, job), job.op = "estimate" <=> q = 1,
           Gpu!Execute(q, v, job) \/ Gpu!ExecuteAndReset(q, v, job)
    PROVE  Issues(q, v, job, curr_frame)
<1>1. Turn(job, curr_frame) /\ NewIssued(curr_frame, Rank(job)) /\ StaysBusy
  BY BodyTurn
<1>2. pc \notin {"save", "done"}
  BY DEF Body, Reading
<1>3. Steady
  BY DEF Steady
<1> QED
  BY <1>1, <1>2, <1>3 DEF Issues

\* The upload of an image and the copies of the planes of a video frame.
LEMMA ReadIssues ==
    ASSUME ControlInv, ProgramInv, Upload \/ CopyPlane("mf_copy", ReadJob, "mf_flush")
    PROVE  Issues(0, FenceBound + 1, ReadJob, curr_frame)
<1>1. /\ UNCHANGED <<input, curr_frame, saved, total_frames, tex, cb>>
      /\ \/ pc = "upload" /\ pc' = "add_frame"
         \/ pc = "mf_copy" /\ plane < LastPlane /\ pc' = pc /\ plane' = plane + 1
         \/ pc = "mf_copy" /\ ~(plane < LastPlane) /\ pc' = "mf_flush"
      /\ Gpu!Execute(0, FenceBound + 1, ReadJob) \/ Gpu!ExecuteAndReset(0, FenceBound + 1, ReadJob)
  BY DEF Upload, CopyPlane, Goto, main_vars, Compute, Gpu!Compute, NoWait, Gpu!MaxFenceValue
<1>2. /\ pc = "upload" => plane = 0 /\ ~Video
      /\ pc = "mf_copy" => Video
      /\ plane \in 0 .. LastPlane
  BY DEF ControlInv, MainTypes, Branches
<1>3. LastPlane = IF Video THEN 1 ELSE 0
  BY DEF LastPlane
<1>4. ReadJob \in Jobs /\ ReadJob.slot = frame_index /\ ReadJob.op = "read" /\ ReadJob.frame = curr_frame
      /\ Rank(ReadJob) = 1 + plane
  BY JobTypes DEF ReadJob, Slot, Rank
<1>5. pc \in Body /\ pc' \in Body
  BY <1>1 DEF Body, Reading
<1>6. NextRank = 1 + plane /\ NextRank \in 1 .. 10
  BY <1>1, <1>2, <1>3 DEF NextRank
<1>7. Has(curr_frame, NextRank)
  BY <1>1, <1>2, <1>3, <1>6 DEF Has
<1>8. Advances
  <2>1. NextRank' = IF plane < LastPlane THEN 2 ELSE 3
    BY <1>1, <1>2, <1>3 DEF NextRank
  <2>2. ASSUME NEW r \in 1 .. 10, Has(curr_frame, r), ~Video PROVE r # 2
    BY <2>2 DEF Has
  <2> HIDE DEF NextRank, Has
  <2> QED
    BY <1>1, <1>2, <1>3, <1>6, <2>1, <2>2 DEF Advances
<1>9. WaitFits(0, FenceBound + 1, ReadJob)
  BY <1>4 DEF WaitFits
<1> HIDE DEF ReadJob, NextRank, Has, Rank
<1> QED
  BY <1>1, <1>4, <1>5, <1>6, <1>7, <1>8, <1>9, BodyIssues

\* The copies of the planes into the generator.
LEMMA CopyInIssues ==
    ASSUME ControlInv, ProgramInv, CopyPlane("copy_in", PlaneJob("copy_in"), "copy_in_flush")
    PROVE  Issues(0, FenceBound + 1, PlaneJob("copy_in"), curr_frame)
<1> DEFINE job == PlaneJob("copy_in")
<1>1. /\ UNCHANGED <<input, curr_frame, saved, total_frames, tex, cb>>
      /\ pc = "copy_in"
      /\ \/ plane < LastPlane /\ pc' = pc /\ plane' = plane + 1
         \/ ~(plane < LastPlane) /\ pc' = "copy_in_flush"
      /\ Gpu!Execute(0, FenceBound + 1, job) \/ Gpu!ExecuteAndReset(0, FenceBound + 1, job)
  BY DEF CopyPlane, Goto, main_vars, Compute, Gpu!Compute, NoWait, Gpu!MaxFenceValue
<1>2. plane \in 0 .. LastPlane
  BY DEF ControlInv, MainTypes, Branches
<1>3. LastPlane = IF Video THEN 1 ELSE 0
  BY DEF LastPlane
<1>4. job \in Jobs /\ job.slot = frame_index /\ job.op = "copy_in" /\ Rank(job) = 3 + plane
  BY JobTypes DEF PlaneJob, Slot, Rank
<1>5. pc \in Body /\ pc' \in Body
  BY <1>1 DEF Body, Reading
<1>6. NextRank = 3 + plane /\ NextRank \in 1 .. 10
  BY <1>1, <1>2, <1>3 DEF NextRank
<1>7. Has(curr_frame, NextRank)
  BY <1>1, <1>2, <1>3, <1>6 DEF Has
<1>8. Advances
  <2>1. NextRank' = IF plane < LastPlane THEN 4 ELSE 5
    BY <1>1, <1>2, <1>3 DEF NextRank
  <2>2. ASSUME NEW r \in 1 .. 10, Has(curr_frame, r), ~Video PROVE r # 4
    BY <2>2 DEF Has
  <2> HIDE DEF NextRank, Has
  <2> QED
    BY <1>1, <1>2, <1>3, <1>6, <2>1, <2>2 DEF Advances
<1>9. WaitFits(0, FenceBound + 1, job)
  BY <1>4 DEF WaitFits
<1> HIDE DEF job, NextRank, Has, Rank
<1>10. Issues(0, FenceBound + 1, job, curr_frame)
  BY <1>1, <1>4, <1>5, <1>6, <1>7, <1>8, <1>9, BodyIssues
<1> QED
  BY <1>10 DEF job

\* The copy of the first frame.
LEMMA CopyOutIssues ==
    ASSUME ControlInv, ProgramInv,
           pc = "copy_out", Gpu!ExecuteAndReset(Compute, NoWait, Job("copy_out")),
           Goto("copy_out_flush"), UNCHANGED <<main_vars, tex>>
    PROVE  Issues(0, FenceBound + 1, Job("copy_out"), curr_frame)
<1> DEFINE job == Job("copy_out")
<1>1. /\ UNCHANGED <<input, curr_frame, saved, total_frames, tex, cb>>
      /\ pc = "copy_out" /\ pc' = "copy_out_flush"
      /\ Gpu!Execute(0, FenceBound + 1, job) \/ Gpu!ExecuteAndReset(0, FenceBound + 1, job)
  BY DEF Goto, main_vars, Compute, Gpu!Compute, NoWait, Gpu!MaxFenceValue
<1>2. curr_frame = 1
  BY DEF ControlInv, Branches
<1>4. job \in Jobs /\ job.slot = frame_index /\ job.op = "copy_out" /\ Rank(job) = 8
  BY JobTypes DEF Job, Slot, Rank
<1>5. pc \in Body /\ pc' \in Body
  BY <1>1 DEF Body, Reading
<1>6. NextRank = 8 /\ NextRank' = 11
  BY <1>1 DEF NextRank
<1>7. Has(curr_frame, NextRank)
  BY <1>2, <1>6 DEF Has
<1>8. Advances
  BY <1>2, <1>6 DEF Advances, Has
<1>9. WaitFits(0, FenceBound + 1, job)
  BY <1>4 DEF WaitFits
<1> HIDE DEF job, NextRank, Has, Rank
<1>10. Issues(0, FenceBound + 1, job, curr_frame)
  BY <1>1, <1>2, <1>4, <1>5, <1>6, <1>7, <1>8, <1>9, BodyIssues
<1> QED
  BY <1>10 DEF job

\* The passes of the shaders.
LEMMA PassIssues ==
    ASSUME ControlInv, ProgramInv, NEW next,
           \/ Pass("to_rgb", Compute, NoWait, next) /\ next = "to_nv12"
           \/ Pass("to_nv12", Compute, NoWait, next) /\ next = IF first_frame THEN "copy_out" ELSE "estimate"
           \/ Pass("gather", Compute, NoWait, next) /\ next = IF input.overlay THEN "overlay" ELSE "move"
           \/ Pass("overlay", Compute, NoWait, next) /\ next = "move"
    PROVE  Issues(0, FenceBound + 1, Job(pc), curr_frame)
<1> DEFINE job == Job(pc)
<1>1. /\ UNCHANGED <<input, curr_frame, saved, total_frames, tex, cb>>
      /\ pc \in {"to_rgb", "to_nv12", "gather", "overlay"}
      /\ Gpu!Execute(0, FenceBound + 1, job)
      /\ pc = "to_rgb" => pc' = "to_nv12"
      /\ pc = "to_nv12" => pc' = IF first_frame THEN "copy_out" ELSE "estimate"
      /\ pc = "gather" => pc' = IF input.overlay THEN "overlay" ELSE "move"
      /\ pc = "overlay" => pc' = "move"
  BY DEF Pass, Goto, Compute, Gpu!Compute, NoWait, Gpu!MaxFenceValue
<1>2. /\ pc = "to_rgb" => Video
      /\ pc = "to_nv12" => (first_frame <=> curr_frame = 1)
      /\ pc \in {"gather", "overlay"} => curr_frame > 1
      /\ pc = "overlay" => input.overlay
  BY DEF ControlInv, Branches, Body, Reading
<1>3. curr_frame \in Nat /\ curr_frame >= 1
  BY <1>1, WindowFacts DEF Body, Reading
<1>4. job \in Jobs /\ job.slot = frame_index /\ job.op = pc /\ Rank(job) = NextRank /\ NextRank \in 1 .. 10
  BY <1>1, JobTypes DEF Job, Slot, Rank, NextRank
<1>5. pc \in Body /\ pc' \in Body
  BY <1>1 DEF Body, Reading
<1>6. /\ pc = "to_rgb" => NextRank = 5 /\ NextRank' = 6
      /\ pc = "to_nv12" => NextRank = 6 /\ NextRank' = IF first_frame THEN 8 ELSE 7
      /\ pc = "gather" => NextRank = 9 /\ NextRank' = IF input.overlay THEN 10 ELSE 11
      /\ pc = "overlay" => NextRank = 10 /\ NextRank' = 11
  BY <1>1 DEF NextRank
<1>7. Has(curr_frame, NextRank)
  BY <1>1, <1>2, <1>6 DEF Has
<1>8. Advances
  <2>1. ASSUME NEW r \in 1 .. 10, Has(curr_frame, r)
        PROVE  (curr_frame = 1 => r # 7) /\ (~input.overlay => r # 10)
    BY <2>1 DEF Has
  <2> HIDE DEF NextRank, Has
  <2> QED
    BY <1>1, <1>2, <1>6, <2>1 DEF Advances
<1>9. WaitFits(0, FenceBound + 1, job)
  BY <1>1, <1>4 DEF WaitFits
<1>11. job.op \notin {"read", "readback", "estimate", "propagate", "copy_out"}
  BY <1>1, <1>4
<1> HIDE DEF job, NextRank, Has, Rank
<1>10. Issues(0, FenceBound + 1, job, curr_frame)
  BY <1>1, <1>4, <1>5, <1>7, <1>8, <1>9, <1>11, BodyIssues
<1> QED
  BY <1>10 DEF job

\* The passes that wait for the other queue.
LEMMA WaitingIssues ==
    ASSUME ControlInv, ProgramInv, NextInv, EstimateMotionVectors \/ PropagateMotionBlur
    PROVE  Issues(IF pc = "estimate" THEN 1 ELSE 0, fence_value, Job(pc), curr_frame)
<1> DEFINE job == Job(pc)
           q == IF pc = "estimate" THEN 1 ELSE 0
<1>1. /\ UNCHANGED <<input, curr_frame, saved, total_frames, tex, cb>>
      /\ pc \in {"estimate", "propagate"}
      /\ Gpu!Execute(q, fence_value, job)
      /\ pc = "estimate" => pc' = "timespan"
      /\ pc = "propagate" => pc' = "gather"
  BY DEF EstimateMotionVectors, PropagateMotionBlur, Pass, Goto, Compute, Gpu!Compute, VideoEncode,
     Gpu!VideoEncode
<1>2. curr_frame > 1
  BY <1>1 DEF ControlInv, Branches
<1>4. job \in Jobs /\ job.slot = frame_index /\ job.op = pc /\ Rank(job) = NextRank /\ NextRank \in 1 .. 10
  BY <1>1, JobTypes DEF Job, Slot, Rank, NextRank
<1>5. pc \in Body /\ pc' \in Body
  BY <1>1 DEF Body, Reading
<1>6. /\ pc = "estimate" => NextRank = 7 /\ NextRank' = 8
      /\ pc = "propagate" => NextRank = 8 /\ NextRank' = 9
  BY <1>1 DEF NextRank
<1>7. Has(curr_frame, NextRank)
  BY <1>1, <1>2, <1>6 DEF Has
<1>8. Advances
  BY <1>1, <1>6 DEF Advances
<1>9. WaitFits(q, fence_value, job) /\ q \in {0, 1}
  <2>1. fence_value \in 1 .. FenceBound /\ FenceBound \in Nat
    BY <1>1, ProgramAssumption DEF ProgramInv, UseInv, Waiting, Gpu!GpuAssumption
  <2>2. NextWait(fence_value, queue[q], queue[1 - q])
    <3>1. CASE pc = "estimate"
      <4>1. q = 1 /\ 1 - q = 0
        BY <3>1
      <4> QED
        BY <3>1, <4>1 DEF NextInv
    <3>2. CASE pc = "propagate"
      <4>1. q = 0 /\ 1 - q = 1
        BY <3>2
      <4> QED
        BY <3>2, <4>1 DEF NextInv
    <3> QED
      BY <1>1, <3>1, <3>2
  <2>3. fence_value \in Nat /\ fence_value # FenceBound + 1 /\ q \in {0, 1}
    BY <2>1
  <2> QED
    BY <2>2, <2>3 DEF WaitFits
<1>11. job.op \notin {"read", "readback", "copy_out"} /\ (job.op = "estimate" <=> q = 1)
  BY <1>1, <1>4
<1> HIDE DEF job, NextRank, Has, Rank, q
<1>10. Issues(q, fence_value, job, curr_frame)
  BY <1>1, <1>2, <1>4, <1>5, <1>7, <1>8, <1>9, <1>11, BodyIssues
<1> QED
  BY <1>10 DEF job, q

\* The readback of the frame whose turn it is to be saved.
LEMMA ReadbackIssues ==
    ASSUME ControlInv, ProgramInv, Readback
    PROVE  Issues(0, FenceBound + 1, [op |-> "readback", slot |-> SavingSlot], Len(saved) + 1)
<1> DEFINE job == [op |-> "readback", slot |-> SavingSlot]
           n == Len(saved) + 1
<1>1. /\ UNCHANGED <<input, curr_frame, saved, total_frames, tex, cb>>
      /\ pc = "readback" /\ pc' = "readback_wait"
      /\ Gpu!ExecuteAndReset(0, FenceBound + 1, job)
  BY DEF Readback, Goto, main_vars, Compute, Gpu!Compute, NoWait, Gpu!MaxFenceValue
<1>2. n \in Window /\ SavingSlot = SlotOf(n) /\ Len(saved) \in Nat /\ curr_frame \in Nat
  BY <1>1, WindowFacts
<1>3. job \in Jobs /\ job.op = "readback" /\ job.slot = SlotOf(n) /\ Rank(job) = 11
  BY <1>2, JobTypes DEF Rank
<1>4. Has(n, 11)
  BY DEF Has
<1>5. \A r \in 1 .. 11 : Issued(n, r) => r < 11
  BY <1>1 DEF Issued
<1>6. NewIssued(n, 11)
  <2>1. NextRank = 11 /\ NextRank' = 11
    BY <1>1 DEF NextRank
  <2> HIDE DEF NextRank, Has
  <2> QED
    BY <1>1, <1>2, <2>1 DEF NewIssued, Issued
<1>7. StaysBusy
  BY <1>1 DEF StaysBusy, Busy, Final
<1>8. WaitFits(0, FenceBound + 1, job)
  BY <1>3 DEF WaitFits
<1>9. Steady
  BY <1>1 DEF Steady
<1> HIDE DEF job, n, Has, Issued, Rank
<1>10. Turn(job, n)
  BY <1>2, <1>3, <1>4, <1>5 DEF Turn
<1>11. Issues(0, FenceBound + 1, job, n)
  BY <1>1, <1>3, <1>6, <1>7, <1>8, <1>9, <1>10 DEF Issues
<1> QED
  BY <1>11 DEF job, n

(****************************************************************************)
(* Whose passes the jobs are                                                 *)
(****************************************************************************)

\* Steps that leave the frames and the jobs alone.
QuietStep == Steady /\ SameUndone /\ SameIssued /\ StaysBusy

\* Whose pass a job is.
LEMMA OwnerOf ==
    ASSUME ControlInv, JobInv, NEW job \in Undone, NEW m \in Window, job.slot = SlotOf(m)
    PROVE  Of(job, m)
<1>1. PICK n \in Window : Of(job, n)
  BY DEF JobInv
<1>2. SlotOf(n) = SlotOf(m)
  BY <1>1 DEF Of
<1>3. n = m
  BY <1>2, WindowSlots
<1> QED
  BY <1>1, <1>3

\* The job whose turn it is comes after all that is left of its slot, and no list that is
\* left needs what it gives.
LEMMA TurnComes ==
    ASSUME ControlInv, ProgramInv, HalvesInv, JobInv, NEW job, NEW n, Turn(job, n)
    PROVE  Later(job) /\ Unneeded(job)
<1>1. \A other \in Undone : other \in Jobs /\ Rank(other) \in 1 .. 11
  BY UndoneJobs
<1>2. n \in Window /\ job.slot = SlotOf(n) /\ job \in Jobs
  BY DEF Turn
<1>3. Later(job)
  <2> SUFFICES ASSUME NEW other \in Undone, other.slot = job.slot PROVE Rank(other) < Rank(job)
    BY DEF Later
  <2>1. Of(other, n)
    BY <1>2, OwnerOf
  <2>2. Issued(n, Rank(other))
    BY <2>1 DEF Of
  <2> HIDE DEF Rank, Issued
  <2> QED
    BY <1>1, <2>2 DEF Turn
<1>4. Unneeded(job)
  <2> SUFFICES ASSUME NEW other \in Undone, Needs(other, job) PROVE FALSE
    BY DEF Unneeded
  <2>1. PICK m \in Window : Of(other, m)
    BY DEF JobInv
  <2>2. CASE other.slot = job.slot
    <3>1. Rank(other) < Rank(job)
      BY <1>3, <2>2 DEF Later
    <3>2. \/ other.op = "estimate" /\ job.op = "to_nv12"
          \/ other.op = "propagate" /\ job.op = "estimate"
      BY DEF Needs
    <3> QED
      BY <3>1, <3>2 DEF Rank
  <2>3. CASE other.slot # job.slot
    <3>1. other.op = "estimate" /\ job.op = "to_nv12" /\ job.slot = Gpu!PrevSlot(other.slot)
      BY <2>3 DEF Needs
    <3>2. m - 1 \in Window /\ other.slot = SlotOf(m)
      BY <2>1, <3>1 DEF Of
    <3>3. m - 1 \in Nat \ {0} /\ m = (m - 1) + 1
      <4>1. m - 1 \in Nat \ {0}
        BY <3>2, WindowSlots
      <4> QED
        BY <4>1, WindowSlots
    <3>4. SlotOf(m - 1) = Gpu!PrevSlot(SlotOf(m))
      <4> DEFINE p == m - 1
      <4>1. SlotOf(p) = Gpu!PrevSlot(SlotOf(p + 1))
        BY <3>3, SlotOfFrame
      <4> QED
        BY <3>3, <4>1
    <3>5. n = m - 1
      BY <1>2, <3>1, <3>2, <3>4, WindowSlots
    <3>6. n = curr_frame
      BY <3>1 DEF Turn
    <3>7. m <= curr_frame /\ curr_frame \in Nat /\ m \in Nat
      BY WindowFacts, WindowSlots DEF Window
    <3> QED
      BY <3>5, <3>6, <3>7
  <2> QED
    BY <2>2, <2>3
<1> QED
  BY <1>3, <1>4

\* Steps of the program that leave the jobs and the counters alone.
LEMMA SteadyWindow == Steady => Window' = Window
  BY DEF Steady, Window

\* The passes that a frame goes through stay the same.
LEMMA SteadyHas == ASSUME Steady, NEW n, NEW r PROVE Has(n, r)' <=> Has(n, r)
<1>1. Video' <=> Video
  BY SameInput DEF Steady
<1> QED
  BY <1>1 DEF Steady, Has

\* A pass that stays submitted is still one of its frame.
LEMMA QuietOf ==
    ASSUME Steady, StaysBusy, NEW job, NEW n, Rank(job) \in 1 .. 11, Of(job, n),
           Issued(n, Rank(job))'
    PROVE  Of(job, n)'
<1>1. Window' = Window /\ saved' = saved /\ curr_frame' = curr_frame /\ (Has(n, Rank(job))' <=> Has(n, Rank(job)))
  BY SteadyWindow, SteadyHas DEF Steady
<1> HIDE DEF Has, Issued, Rank, Busy
<1> QED
  BY <1>1 DEF Of, StaysBusy

\* Steps that neither submit nor run a job keep what is left.
LEMMA QuietJobs ==
    ASSUME ControlInv, ProgramInv, HalvesInv, JobInv, QuietStep
    PROVE  JobInv' /\ \A n, r : Pend(n, r)' <=> Pend(n, r)
<1>1. Steady /\ SameUndone /\ SameIssued /\ StaysBusy /\ Window' = Window
  BY SteadyWindow DEF QuietStep
<1>2. \A job \in Undone : Rank(job) \in 1 .. 11
  BY UndoneJobs
<1>3. \A n, r : Pend(n, r)' <=> Pend(n, r)
  BY <1>1 DEF Pend, SameUndone
<1>4. ASSUME NEW job \in Undone' PROVE \E n \in Window' : Of(job, n)'
  <2>1. job \in Undone /\ Rank(job) \in 1 .. 11
    BY <1>1, <1>2 DEF SameUndone
  <2>2. PICK n \in Window : Of(job, n)
    BY <2>1 DEF JobInv
  <2>3. Has(n, Rank(job)) /\ Issued(n, Rank(job))
    BY <2>2 DEF Of
  <2>4. Issued(n, Rank(job))'
    <3> HIDE DEF Has, Issued, Rank
    <3> QED
      BY <1>1, <2>1, <2>3 DEF SameIssued
  <2>5. Of(job, n)'
    BY <1>1, <2>1, <2>2, <2>4, QuietOf
  <2> QED
    BY <1>1, <2>5
<1>5. ASSUME NEW n \in Window', Pend(n, 7)', Issued(n, 8)' PROVE Pend(n, 8)'
  <2>1. n \in Window /\ Pend(n, 7)
    BY <1>1, <1>3, <1>5
  <2>2. Has(n, 8)
    BY <2>1, WindowSlots DEF Has
  <2>3. Issued(n, 8)
    <3> HIDE DEF Has, Issued
    <3> QED
      BY <1>1, <1>5, <2>1, <2>2 DEF SameIssued
  <2> QED
    BY <1>3, <2>1, <2>3 DEF JobInv
<1> QED
  BY <1>3, <1>4, <1>5 DEF JobInv

\* A job joins those that are left.
LEMMA IssuedJobs ==
    ASSUME ControlInv, ProgramInv, HalvesInv, JobInv, NEW job, NEW frame,
           Steady, StaysBusy, Turn(job, frame), NewIssued(frame, Rank(job)), Joins(job)
    PROVE  /\ JobInv'
           /\ \A n \in Window : \A r : Pend(n, r)' <=> Pend(n, r) \/ (n = frame /\ r = Rank(job))
<1>1. /\ Window' = Window /\ saved' = saved /\ curr_frame' = curr_frame
      /\ frame \in Window /\ job.slot = SlotOf(frame) /\ job \in Jobs /\ Has(frame, Rank(job))
  BY SteadyWindow DEF Steady, Turn
<1>2. \A other \in Undone : Rank(other) \in 1 .. 11
  BY UndoneJobs
<1>0. Rank(job) \in 1 .. 11
  BY <1>1, RankRange
<1> HIDE DEF Rank
<1>3. \A n \in Window : \A r : Pend(n, r)' <=> Pend(n, r) \/ (n = frame /\ r = Rank(job))
  <2> TAKE n \in Window
  <2> TAKE r
  <2>1. SlotOf(n) = SlotOf(frame) <=> n = frame
    BY <1>1, WindowSlots
  <2>2. Pend(n, r)' <=> \E other \in Undone' : other.slot = SlotOf(n) /\ Rank(other) = r
    BY DEF Pend
  <2> QED
    BY <1>1, <2>1, <2>2 DEF Pend, Joins
<1>4. \A n \in Window, r \in 1 .. 11 : Has(n, r) => (Issued(n, r)' <=> Issued(n, r) \/ (n = frame /\ r = Rank(job)))
  BY DEF NewIssued
<1>5. ASSUME NEW other \in Undone' PROVE \E n \in Window' : Of(other, n)'
  <2>1. CASE other \in Undone
    <3>1. PICK n \in Window : Of(other, n)
      BY <2>1 DEF JobInv
    <3>2. Has(n, Rank(other)) /\ Issued(n, Rank(other)) /\ Rank(other) \in 1 .. 11
      BY <1>2, <2>1, <3>1 DEF Of
    <3>3. Issued(n, Rank(other))'
      <4> HIDE DEF Has, Issued
      <4> QED
        BY <1>4, <3>2
    <3>4. Of(other, n)'
      BY <3>1, <3>2, <3>3, QuietOf
    <3> QED
      BY <1>1, <3>4
  <2>2. CASE other = job
    <3>1. Issued(frame, Rank(job))'
      <4> HIDE DEF Has, Issued
      <4> QED
        BY <1>0, <1>1, <1>4
    <3>2. Has(frame, Rank(job))'
      BY <1>1, SteadyHas
    <3>3. job.op # "readback" /\ saved # <<>> => frame = curr_frame /\ Busy'
      BY DEF Turn, StaysBusy
    <3>4. Of(job, frame)'
      <4> HIDE DEF Has, Issued, Busy
      <4> QED
        BY <1>1, <3>1, <3>2, <3>3 DEF Of, Turn
    <3> QED
      BY <1>1, <2>2, <3>4
  <2> QED
    BY <2>1, <2>2 DEF Joins
<1>6. ASSUME NEW n \in Window', Pend(n, 7)', Issued(n, 8)' PROVE Pend(n, 8)'
  <2>1. n \in Window
    BY <1>1, <1>6
  <2>2. Has(n, 8)
    BY <2>1, WindowSlots DEF Has
  <2>3. Issued(n, 8) \/ (n = frame /\ Rank(job) = 8)
    <3> HIDE DEF Has, Issued
    <3> QED
      BY <1>4, <1>6, <2>1, <2>2
  <2>4. CASE n = frame /\ Rank(job) = 8
    BY <1>3, <2>1, <2>4
  <2>5. CASE Issued(n, 8)
    <3>1. Pend(n, 7) \/ (n = frame /\ Rank(job) = 7)
      BY <1>3, <1>6, <2>1
    <3>2. ~(n = frame /\ Rank(job) = 7)
      <4>1. \A r \in 1 .. 11 : Issued(frame, r) => r < Rank(job)
        BY DEF Turn
      <4> HIDE DEF Issued
      <4> QED
        BY <2>5, <4>1
    <3>3. Pend(n, 8)
      BY <2>1, <2>5, <3>1, <3>2 DEF JobInv
    <3> QED
      BY <1>3, <2>1, <3>3
  <2> QED
    BY <2>3, <2>4, <2>5
<1> QED
  BY <1>3, <1>5, <1>6 DEF JobInv

(****************************************************************************)
(* A frame is read or saved, or the GPU does a job                           *)
(****************************************************************************)

\* A queue without lists has no jobs left.
LEMMA NoExecLeft ==
    ASSUME NEW s
    PROVE  /\ Gpu!NoExec(s) => \A job : job \notin Left(s)
           /\ Homes(s, 1) /\ (\A job : job \notin Left(s)) => Gpu!NoExec(s)
  BY DEF Gpu!NoExec, Left, IsReal, Homes

\* When a picture is copied out no job is left.
LEMMA DrainedUndone ==
    ASSUME DrainedInv, pc = "save", call = "idle"
    PROVE  \A job : job \notin Undone
<1>1. Gpu!NoExec(queue[0]) /\ Gpu!NoExec(queue[1])
  BY DEF DrainedInv
<1>2. (\A job : job \notin Left(queue[0])) /\ (\A job : job \notin Left(queue[1]))
  BY <1>1, NoExecLeft
<1> QED
  BY <1>2 DEF Undone

\* The loop reads a frame: nothing is left in its slot.
LEMMA ReadJobs ==
    ASSUME ControlInv, ProgramInv, CallInv, HalvesInv, JobInv, ReadFrame, curr_frame < input.frames
    PROVE  /\ JobInv' /\ HalvesInv' /\ SameUndone
           /\ \A job \in Undone : job.slot # SlotOf(curr_frame + 1)
           /\ \A n, r : Pend(n, r)' <=> Pend(n, r)
           /\ \A n, r : Has(n, r)' <=> Has(n, r)
           /\ \A n \in Window' : n # curr_frame + 1 => n \in Window
           /\ \A n \in Window, r \in 1 .. 11 : Issued(n, r)' <=> Issued(n, r)
           /\ \A n, r : n = curr_frame + 1 /\ r \in 1 .. 11 => ~Issued(n, r)'
           /\ curr_frame + 1 \in Window'
<1>1. /\ UNCHANGED <<gpu_vars, input, saved>> /\ curr_frame' = curr_frame + 1 /\ pc = "loop" /\ plane' = 0
      /\ total_frames = 0 /\ pc' \in {"mf_copy", "upload"}
  BY AllGiven DEF ReadFrame, Goto, ControlInv
<1>2. /\ Len(saved) \in Nat /\ curr_frame \in Nat /\ curr_frame + 1 <= Len(saved) + FrameCount
      /\ FrameCount \in Nat \ {0, 1} /\ Len(saved) <= curr_frame
  <2>1. Len(saved) \in Nat /\ curr_frame \in Nat /\ curr_frame + 1 <= Len(saved) + FrameCount
    BY <1>1, WindowFacts
  <2>2. input.frames > 0 /\ i \in Nat
    BY <2>1, FrameNumbers DEF ControlInv, MainTypes
  <2>3. curr_frame = i /\ Len(saved) = SavedBy(i)
    BY <1>1, <2>2 DEF ControlInv, Counting, Final
  <2> QED
    BY <2>1, <2>2, <2>3, SlotNumbers DEF SavedBy
<1>3. HalvesInv' /\ SameUndone
  <2>1. UNCHANGED <<queue, fence>> /\ Newest' = Newest
    BY <1>1 DEF gpu_vars, Newest, Gpu!NewestVal, Gpu!NewestSlot, Gpu!InPace, Gpu!PrevSlot
  <2> QED
    BY <2>1, HalvesKept
<1>4. \A n \in Window : n \in Window' /\ n <= curr_frame /\ n \in Nat \ {0} /\ Len(saved) + 1 <= n
  BY <1>1, <1>2 DEF Window
<1>5. \A n \in Window' : n # curr_frame + 1 => n \in Window
  BY <1>1, <1>2 DEF Window
<1>6. curr_frame + 1 \in Window'
  BY <1>1, <1>2 DEF Window
<1>7. \A n, r : Pend(n, r)' <=> Pend(n, r)
  BY <1>3 DEF Pend, SameUndone
<1>8. \A n, r : Has(n, r)' <=> Has(n, r)
  BY <1>1, SameInput DEF Has
<1>9. \A n \in Window, r \in 1 .. 11 : Issued(n, r)' <=> Issued(n, r)
  <2>1. NextRank = 11
    BY <1>1 DEF NextRank
  <2> HIDE DEF NextRank
  <2> QED
    BY <1>1, <1>2, <1>4, <2>1 DEF Issued
<1>10. \A n, r : n = curr_frame + 1 /\ r \in 1 .. 11 => ~Issued(n, r)'
  <2>1. NextRank' = 1
    BY <1>1 DEF NextRank
  <2> HIDE DEF NextRank
  <2> QED
    BY <1>1, <1>2, <2>1 DEF Issued
<1>11. \A job \in Undone : job.slot # SlotOf(curr_frame + 1)
  <2> SUFFICES ASSUME NEW job \in Undone PROVE job.slot # SlotOf(curr_frame + 1)
    OBVIOUS
  <2>1. PICK n \in Window : Of(job, n)
    BY DEF JobInv
  <2> DEFINE k == curr_frame + 1
  <2>2. n \in Nat \ {0} /\ k \in Nat \ {0} /\ n < k /\ k < n + FrameCount
    BY <1>2, <1>4
  <2> HIDE DEF k
  <2>3. SlotOf(n) # SlotOf(k)
    BY <2>2, SlotsApart
  <2> QED
    BY <2>1, <2>3 DEF Of, k
<1>12. ASSUME NEW job \in Undone' PROVE \E n \in Window' : Of(job, n)'
  <2>1. job \in Undone /\ Rank(job) \in 1 .. 11
    BY <1>3, UndoneJobs DEF SameUndone
  <2>2. PICK n \in Window : Of(job, n)
    BY <2>1 DEF JobInv
  <2>3. Has(n, Rank(job)) /\ Issued(n, Rank(job))
    BY <2>2 DEF Of
  <2>4. saved = <<>> \/ job.op = "readback"
    <3>1. ~Busy
      BY <1>1 DEF Busy
    <3> QED
      BY <2>2, <3>1 DEF Of
  <2>5. job.op = "estimate" => n - 1 \in Window'
    BY <1>4, <2>2 DEF Of
  <2>6. Has(n, Rank(job))' /\ Issued(n, Rank(job))'
    BY <1>8, <1>9, <2>1, <2>3
  <2>7. Of(job, n)'
    <3> HIDE DEF Has, Issued, Rank, Busy
    <3> QED
      BY <1>1, <1>4, <2>2, <2>4, <2>5, <2>6 DEF Of
  <2> QED
    BY <1>4, <2>7
<1>13. ASSUME NEW n \in Window', Pend(n, 7)', Issued(n, 8)' PROVE Pend(n, 8)'
  <2>1. n # curr_frame + 1
    <3> SUFFICES ASSUME n = curr_frame + 1 PROVE FALSE
      OBVIOUS
    <3> HIDE DEF Issued
    <3> QED
      BY <1>10, <1>13
  <2>2. n \in Window /\ Issued(n, 8)
    BY <1>5, <1>9, <1>13, <2>1
  <2> QED
    BY <1>7, <1>13, <2>2 DEF JobInv
<1>14. JobInv'
  BY <1>12, <1>13 DEF JobInv
<1> QED
  BY <1>3, <1>5, <1>6, <1>7, <1>8, <1>9, <1>10, <1>11, <1>14

\* A frame is saved when no job is left.
LEMMA SaveJobs ==
    ASSUME ProgramInv, CallInv, HalvesInv, DrainedInv, SaveTexture
    PROVE  JobInv' /\ HalvesInv' /\ \A job : job \notin Undone /\ job \notin Undone'
<1>1. pc = "save" /\ Gpu!Execute(0, FenceBound + 1, NoJob)
  BY DEF SaveTexture, Compute, Gpu!Compute, NoWait, Gpu!MaxFenceValue
<1>2. call = "idle"
  BY <1>1 DEF Gpu!Execute, Gpu!ExecuteOnly, Gpu!Ready
<1>3. \A job : job \notin Undone
  BY <1>1, <1>2, DrainedUndone
<1>4. HalvesInv' /\ SameUndone
  BY <1>1, SubmitEmpty
<1>5. \A job : job \notin Undone'
  BY <1>3, <1>4 DEF SameUndone
<1>6. JobInv'
  BY <1>5 DEF JobInv, Pend
<1> QED
  BY <1>3, <1>4, <1>5, <1>6

\* What is left when a job is at the head of its queue: no earlier pass of its frame, and
\* nothing that it needs.
HeadOf(job, n) ==
    /\ n \in Window /\ Of(job, n) /\ job \in Undone /\ job \in Jobs
    /\ \A r \in 1 .. 11 : r < Rank(job) /\ r # 7 /\ job.op # "estimate" => ~Pend(n, r)
    /\ job.op = "propagate" => ~Pend(n, 7)
    /\ job.op = "estimate" => ~Pend(n, 6) /\ ~Pend(n - 1, 6)

\* A job that the GPU comes to has what it needs.
LEMMA HeadReady ==
    ASSUME ControlInv, ProgramInv, CallInv, HalvesInv, JobInv, NEW q \in {0, 1}, Gpu!GpuStep(q), IsReal(queue[q][1])
    PROVE  \E n \in Window : HeadOf(queue[q][1].job, n)
<1> DEFINE s == queue[q]
           o == queue[1 - q]
           job == queue[q][1].job
<1>1. /\ s # <<>> /\ job \in Undone /\ (job.op = "estimate" <=> q = 1)
  BY GpuEffect, GpuHalves
<1>2. /\ s \in Seq(Known!Entry) /\ o \in Seq(Known!Entry) /\ RanksGrow(s) /\ Covered(s, o)
  BY GpuTypes, Halves DEF Half
<1>3. PICK n \in Window : Of(job, n)
  BY <1>1 DEF JobInv
<1>4. /\ \A r : PendingIn(s, s[1].job.slot, r) => r = Rank(s[1].job) \/ Rank(s[1].job) < r
      /\ \A k \in 1 .. Len(o) : IsReal(o[k]) => ~Needs(s[1].job, o[k].job)
  <2> HIDE DEF s, o, job
  <2> QED
    BY <1>1, <1>2, HeadJob DEF s
<1>5. job.slot = SlotOf(n) /\ job \in Jobs /\ Rank(job) \in 1 .. 11
  BY <1>1, <1>3, UndoneJobs DEF Of
<1>6. \A other \in Left(s) : other.slot = job.slot => Rank(other) = Rank(job) \/ Rank(job) < Rank(other)
  <2> HIDE DEF Rank
  <2> QED
    BY <1>4, LeftPending
<1>7. \A other \in Left(o) : ~Needs(job, other)
  <2> HIDE DEF Needs, IsReal
  <2> QED
    BY <1>4 DEF Left
<1>8. \A other : other \in Undone <=> other \in Left(s) \/ other \in Left(o)
  BY Halves
<1>9. \A other \in Undone : other.op = "estimate" <=> Rank(other) = 7
  <2>1. \A other \in Jobs : Rank(other) = 7 <=> other.op = "estimate"
    BY DEF Rank, Jobs
  <2> QED
    BY <2>1, UndoneJobs
<1>10. q = 0 => \A other \in Left(o) : other.op = "estimate"
  BY UndoneJobs
<1>11. q = 1 => \A other \in Left(s) : other.op = "estimate"
  BY UndoneJobs
<1> HIDE DEF s, o, job, Rank
<1>12. ASSUME NEW r \in 1 .. 11, r < Rank(job), r # 7, job.op # "estimate" PROVE ~Pend(n, r)
  <2> SUFFICES ASSUME NEW other \in Undone, other.slot = SlotOf(n), Rank(other) = r PROVE FALSE
    BY DEF Pend
  <2>1. q = 0
    BY <1>1, <1>12
  <2>2. other \in Left(s)
    BY <1>8, <1>9, <1>10, <1>12, <2>1
  <2> QED
    BY <1>5, <1>6, <1>12, <2>2
<1>13. ASSUME job.op = "propagate" PROVE ~Pend(n, 7)
  <2> SUFFICES ASSUME NEW other \in Undone, other.slot = SlotOf(n), Rank(other) = 7 PROVE FALSE
    BY DEF Pend
  <2>1. q = 0 /\ other.op = "estimate"
    BY <1>1, <1>9, <1>13
  <2>2. other \in Left(o)
    <3>1. other \in Left(queue[1])
      BY <2>1, UndoneJobs
    <3>2. 1 - q = 1
      BY <2>1
    <3> QED
      BY <3>1, <3>2 DEF o
  <2> QED
    BY <1>5, <1>7, <1>13, <2>1, <2>2 DEF Needs
<1>14. ASSUME job.op = "estimate" PROVE ~Pend(n, 6) /\ ~Pend(n - 1, 6)
  <2>1. ASSUME NEW other \in Undone, Rank(other) = 6 PROVE ~Needs(job, other) /\ other.op = "to_nv12"
    <3>1. other.op # "estimate"
      BY <1>9, <2>1
    <3>2. other \in Left(queue[0])
      BY <3>1, UndoneJobs
    <3>3. q = 1 /\ 1 - q = 0
      BY <1>1, <1>14
    <3>4. other \in Left(o)
      BY <3>2, <3>3 DEF o
    <3>5. other \in Jobs
      BY UndoneJobs
    <3>6. \A x \in Jobs : Rank(x) = 6 => x.op = "to_nv12"
      BY DEF Rank, Jobs
    <3> QED
      BY <1>7, <2>1, <3>4, <3>5, <3>6
  <2>2. ~Pend(n, 6)
    BY <1>5, <1>14, <2>1 DEF Pend, Needs
  <2>3. n - 1 \in Window
    BY <1>3, <1>14 DEF Of
  <2>4. SlotOf(n - 1) = Gpu!PrevSlot(SlotOf(n))
    <3> DEFINE p == n - 1
    <3>1. p \in Nat \ {0} /\ n = p + 1
      <4>1. p \in Nat \ {0}
        BY <2>3, WindowSlots
      <4> QED
        BY <4>1, WindowSlots
    <3> HIDE DEF p
    <3>2. SlotOf(p) = Gpu!PrevSlot(SlotOf(p + 1))
      BY <3>1, SlotOfFrame
    <3> QED
      BY <3>1, <3>2 DEF p
  <2>5. ~Pend(n - 1, 6)
    BY <1>5, <1>14, <2>1, <2>4 DEF Pend, Needs
  <2> QED
    BY <2>2, <2>5
<1>15. HeadOf(job, n)
  BY <1>1, <1>3, <1>5, <1>12, <1>13, <1>14 DEF HeadOf
<1> QED
  BY <1>15 DEF job

\* The GPU does a job.
LEMMA DoneJobs ==
    ASSUME ControlInv, ProgramInv, HalvesInv, JobInv, NEW job, NEW frame, HeadOf(job, frame), Leaves(job),
           UNCHANGED <<input, curr_frame, saved, pc, plane, total_frames>>
    PROVE  /\ JobInv' /\ Window' = Window
           /\ \A n, r : Has(n, r)' <=> Has(n, r)
           /\ \A n, r : Issued(n, r)' <=> Issued(n, r)
           /\ \A n \in Window : \A r : Pend(n, r)' <=> Pend(n, r) /\ ~(n = frame /\ r = Rank(job))
<1>1. Window' = Window /\ Steady
  BY DEF Window, Steady
<1>2. \A n, r : Has(n, r)' <=> Has(n, r)
  BY <1>1, SteadyHas
<1>3. \A n, r : Issued(n, r)' <=> Issued(n, r)
  <2>1. NextRank' = NextRank
    BY DEF NextRank
  <2> HIDE DEF NextRank
  <2> QED
    BY <2>1 DEF Issued
<1>4. /\ frame \in Window /\ job.slot = SlotOf(frame) /\ job \in Undone /\ job \in Jobs
  BY DEF HeadOf, Of
<1>5. \A n \in Window : \A r : Pend(n, r)' <=> Pend(n, r) /\ ~(n = frame /\ r = Rank(job))
  <2> TAKE n \in Window
  <2> TAKE r
  <2>1. SlotOf(n) = SlotOf(frame) <=> n = frame
    BY <1>4, WindowSlots
  <2>2. \A other \in Undone : other.slot = job.slot /\ Rank(other) = Rank(job) => other = job
    BY <1>4, UndoneJobs
  <2>3. Pend(n, r)' <=> \E other \in Undone' : other.slot = SlotOf(n) /\ Rank(other) = r
    BY DEF Pend
  <2> HIDE DEF Rank
  <2> QED
    BY <1>4, <2>1, <2>2, <2>3 DEF Pend, Leaves
<1>6. ASSUME NEW other \in Undone' PROVE \E n \in Window' : Of(other, n)'
  <2>1. other \in Undone
    BY <1>6 DEF Leaves
  <2>2. PICK n \in Window : Of(other, n)
    BY <2>1 DEF JobInv
  <2>3. Busy' <=> Busy
    BY DEF Busy
  <2>4. Of(other, n)'
    <3> HIDE DEF Has, Issued, Rank, Busy
    <3> QED
      BY <1>1, <1>2, <1>3, <2>2, <2>3 DEF Of
  <2> QED
    BY <1>1, <2>4
<1>7. ASSUME NEW n \in Window', Pend(n, 7)', Issued(n, 8)' PROVE Pend(n, 8)'
  <2>1. n \in Window /\ Pend(n, 7) /\ Issued(n, 8)
    BY <1>1, <1>3, <1>5, <1>7
  <2>2. Pend(n, 8)
    BY <2>1 DEF JobInv
  <2>3. ~(n = frame /\ 8 = Rank(job))
    <3> SUFFICES ASSUME n = frame, Rank(job) = 8 PROVE FALSE
      OBVIOUS
    <3>1. job.op = "propagate" \/ job.op = "copy_out"
      BY <1>4 DEF Rank, Jobs
    <3>2. job.op # "propagate"
      BY <2>1 DEF HeadOf
    <3>3. n = 1
      BY <3>1, <3>2 DEF HeadOf, Of
    <3>4. PICK other \in Undone : other.slot = SlotOf(n) /\ Rank(other) = 7
      BY <2>1 DEF Pend
    <3>5. Of(other, n)
      BY <2>1, <3>4, OwnerOf
    <3>6. Has(1, 7)
      BY <3>3, <3>4, <3>5 DEF Of
    <3> QED
      BY <3>6 DEF Has
  <2> QED
    BY <1>5, <2>1, <2>2, <2>3
<1>8. JobInv'
  BY <1>6, <1>7 DEF JobInv
<1> QED
  BY <1>1, <1>2, <1>3, <1>5, <1>8

(****************************************************************************)
(* What a step of the program can be                                         *)
(****************************************************************************)

\* Steps that neither submit, save nor read a frame and run no job.
Quiet == QuietStep /\ HalvesInv' /\ tex' = tex /\ (cb' = cb \/ SetTimespan)

\* Steps that leave GpuSystem alone leave the newest value alone.
LEMMA NewestKept ==
    UNCHANGED gpu_vars => UNCHANGED <<queue, fence>> /\ Newest' = Newest
  BY DEF gpu_vars, Newest, Gpu!NewestVal, Gpu!NewestSlot, Gpu!InPace, Gpu!PrevSlot

\* The steps that leave the counters alone.
LEMMA SamePlace ==
    ASSUME UNCHANGED <<input, pc, plane, curr_frame, saved, total_frames>>
    PROVE  Steady /\ SameIssued /\ StaysBusy
<1>1. NextRank' = NextRank
  BY DEF NextRank
<1>2. SameIssued
  <2> HIDE DEF NextRank, Has
  <2> QED
    BY <1>1 DEF SameIssued, Issued
<1>3. StaysBusy
  BY DEF StaysBusy, Busy
<1> QED
  BY <1>2, <1>3 DEF Steady

\* Main's own steps around AddFrame.
LEMMA QuietMain ==
    ASSUME ControlInv, ProgramInv, HalvesInv,
           \/ ReadFrame /\ ~(curr_frame < input.frames)
           \/ SkipRead \/ PollThreads \/ LoopEnd \/ JoinThreads
    PROVE  Quiet
<1>1. /\ UNCHANGED gpu_vars /\ UNCHANGED <<input, curr_frame, saved, cb>> /\ tex' = tex
      /\ pc \in {"loop", "after", "loop_end", "join"}
      /\ pc' \in {"after", "readback", "aborted", "loop_end", "join", "loop", "final_wait"}
      /\ pc = "after" /\ pc' = "loop_end" => ~(i >= FrameCount - 1)
      /\ pc = "after" => pc' \in {"readback", "aborted", "loop_end"} /\ total_frames' = total_frames
  BY DEF ReadFrame, SkipRead, PollThreads, LoopEnd, LoopEndsAt, JoinThreads, Goto, main_vars
<1>2. HalvesInv' /\ SameUndone
  BY <1>1, NewestKept, HalvesKept
<1>3. SameIssued
  BY <1>1, AfterBody DEF Labels, Body, Reading
<1>4. StaysBusy
  <2>1. pc = "after" /\ saved # <<>> => i >= FrameCount - 1
    BY WindowFacts
  <2> QED
    BY <1>1, <2>1 DEF StaysBusy, Busy, Final
<1> QED
  BY <1>1, <1>2, <1>3, <1>4 DEF Quiet, QuietStep, Steady

\* The steps of AddFrame that submit nothing.
LEMMA QuietBody ==
    ASSUME ControlInv, ProgramInv, CallInv, HalvesInv, AddFrame \/ SetTimespan
    PROVE  Quiet
<1>1. /\ UNCHANGED gpu_vars /\ UNCHANGED <<input, curr_frame, saved, total_frames, plane>> /\ tex' = tex
      /\ cb' = cb \/ SetTimespan
      /\ \/ pc = "add_frame" /\ pc' = "copy_in"
         \/ pc = "timespan" /\ pc' = "propagate"
  BY AddFrameControl DEF AddFrame, SetTimespan, Goto
<1>2. HalvesInv' /\ SameUndone
  BY <1>1, NewestKept, HalvesKept
<1>3. pc = "add_frame" => plane = 0
  BY DEF ControlInv, Branches
<1>4. NextRank' = NextRank
  BY <1>1, <1>3 DEF NextRank
<1>5. pc \in Body /\ pc' \in Body
  BY <1>1 DEF Body, Reading
<1>6. Halts
  <2> HIDE DEF NextRank
  <2> QED
    BY <1>4 DEF Halts
<1>7. SameIssued /\ StaysBusy
  BY <1>1, <1>5, <1>6, BodyHalts
<1> QED
  BY <1>1, <1>2, <1>7 DEF Quiet, QuietStep, Steady

\* The submissions of the list that the last plane left open.
LEMMA QuietEmpty ==
    ASSUME ControlInv, ProgramInv, CallInv, HalvesInv,
           \/ ExecuteEmpty("mf_flush", "add_frame")
           \/ ExecuteEmpty("copy_in_flush", IF Video THEN "to_rgb" ELSE "to_nv12")
           \/ ExecuteEmpty("copy_out_flush", "move")
           \/ UploadRandomTex
    PROVE  Quiet
<1>1. /\ UNCHANGED <<input, curr_frame, saved, total_frames, plane>> /\ tex' = tex /\ cb' = cb
      /\ Gpu!Execute(0, FenceBound + 1, NoJob)
      /\ \/ pc = "mf_flush" /\ pc' = "add_frame"
         \/ pc = "copy_in_flush" /\ pc' = IF Video THEN "to_rgb" ELSE "to_nv12"
         \/ pc = "copy_out_flush" /\ pc' = "move"
         \/ pc = "random_tex" /\ pc' = "loop"
  BY DEF UploadRandomTex, ExecuteEmpty, Goto, main_vars, Compute, Gpu!Compute, NoWait, Gpu!MaxFenceValue
<1>2. HalvesInv' /\ SameUndone
  BY <1>1, SubmitEmpty
<1>3. CASE pc = "random_tex"
  <2>1. SameIssued
    BY <1>1, <1>3, AfterBody DEF Labels, Body, Reading
  <2>2. StaysBusy
    BY <1>1, <1>3 DEF StaysBusy, Busy, Final
  <2> QED
    BY <1>1, <1>2, <2>1, <2>2 DEF Quiet, QuietStep, Steady
<1> SUFFICES ASSUME pc # "random_tex" PROVE Quiet
  BY <1>3
<1>5. pc \in Body /\ pc' \in Body
  BY <1>1 DEF Body, Reading
<1>6. Halts
  <2>1. NextRank' = NextRank \/ (~Video /\ NextRank = 5 /\ NextRank' = 6)
    BY <1>1 DEF NextRank
  <2>2. ~Video => \A r \in 1 .. 10 : Has(curr_frame, r) => r # 5
    BY DEF Has
  <2> HIDE DEF NextRank, Has
  <2> QED
    BY <2>1, <2>2 DEF Halts
<1>7. SameIssued /\ StaysBusy
  BY <1>1, <1>5, <1>6, BodyHalts
<1> QED
  BY <1>1, <1>2, <1>7 DEF Quiet, QuietStep, Steady

\* The calls of GpuSystem that submit nothing.
LEMMA QuietCall ==
    ASSUME ControlInv, ProgramInv, HalvesInv,
           \/ \E q \in Gpu!CmdQueues : CreateCommandList(q)
           \/ ReadbackWait \/ FinalWait \/ Move \/ GpuCall
    PROVE  Quiet
<1>1. /\ UNCHANGED <<input, plane, curr_frame, saved, total_frames>> /\ tex' = tex /\ cb' = cb
      /\ \/ pc' = pc
         \/ pc = "readback_wait" /\ pc' = "save"
         \/ pc = "final_wait" /\ pc' = "done"
         \/ pc = "move" /\ pc' = "after"
  BY DEF CreateCommandList, ReadbackWait, FinalWait, Move, GpuCall, Goto, main_vars
<1>2. HalvesInv' /\ SameUndone
  <2>1. ASSUME NEW q \in Gpu!CmdQueues, CreateCommandList(q) PROVE HalvesInv' /\ SameUndone
    <3>1. UNCHANGED <<queue, fence, fence_vals, frame_index, call>>
      BY <2>1 DEF CreateCommandList, Gpu!CreateCommandList
    <3>2. Newest' = Newest
      BY <3>1 DEF Newest, Gpu!NewestVal, Gpu!NewestSlot, Gpu!InPace, Gpu!PrevSlot
    <3> QED
      BY <3>1, <3>2, HalvesKept
  <2>2. CASE ReadbackWait \/ FinalWait
    <3>1. UNCHANGED <<queue, fence, fence_vals, frame_index>> /\ call = "idle" /\ call' = "flush"
      BY <2>2 DEF ReadbackWait, FinalWait, Gpu!WaitForGpu, Gpu!Ready
    <3>2. Newest' = Newest
      BY <3>1 DEF Newest, Gpu!NewestVal, Gpu!NewestSlot, Gpu!InPace
    <3> QED
      BY <3>1, <3>2, HalvesKept
  <2>3. CASE Move
    BY <2>3, MoveHalves DEF Move
  <2>4. CASE GpuCall
    BY <2>4, CallHalves DEF GpuCall
  <2> QED
    BY <2>1, <2>2, <2>3, <2>4
<1>3. SameIssued /\ StaysBusy
  <2>1. CASE pc' = pc
    BY <1>1, <2>1, SamePlace
  <2>2. CASE pc' # pc
    <3>1. SameIssued
      BY <1>1, <2>2, AfterBody DEF Labels, Body, Reading
    <3>2. StaysBusy
      BY <1>1, <2>2 DEF StaysBusy, Busy, Final
    <3> QED
      BY <3>1, <3>2
  <2> QED
    BY <2>1, <2>2
<1> QED
  BY <1>1, <1>2, <1>3 DEF Quiet, QuietStep, Steady

\* The GPU runs an entry that is no list with a job; a file is written; nothing happens.
LEMMA QuietRest ==
    ASSUME ControlInv, ProgramInv, CallInv, HalvesInv,
           \/ \E q \in Gpu!CmdQueues : GpuRuns(q) /\ ~IsReal(queue[q][1])
           \/ \E k \in DOMAIN writer : WriteFile(k)
           \/ UNCHANGED vars
    PROVE  Quiet
<1>1. UNCHANGED <<input, pc, plane, curr_frame, saved, total_frames>> /\ cb' = cb
  BY DEF GpuRuns, WriteFile, vars, main_vars
<1>2. HalvesInv' /\ SameUndone /\ tex' = tex
  <2>1. ASSUME NEW q \in Gpu!CmdQueues, GpuRuns(q), ~IsReal(queue[q][1]) PROVE HalvesInv' /\ SameUndone /\ tex' = tex
    <3>1. q \in {0, 1} /\ Gpu!GpuStep(q)
      BY <2>1 DEF Gpu!CmdQueues, Gpu!Compute, Gpu!VideoEncode, GpuRuns
    <3>2. queue[q] # <<>> /\ HalvesInv' /\ SameUndone
      BY <2>1, <3>1, GpuEffect, GpuHalves
    <3>3. Head(queue[q]) = queue[q][1]
      BY <3>1, <3>2, GpuTypes
    <3> QED
      BY <2>1, <3>2, <3>3, Zenon DEF GpuRuns, IsReal
  <2>2. CASE (\E k \in DOMAIN writer : WriteFile(k)) \/ UNCHANGED vars
    <3>1. UNCHANGED gpu_vars /\ tex' = tex
      BY <2>2 DEF WriteFile, vars
    <3> QED
      BY <3>1, NewestKept, HalvesKept
  <2> QED
    BY <2>1, <2>2
<1> QED
  BY <1>1, <1>2, SamePlace DEF Quiet, QuietStep

\* Steps that submit a job, and steps in which the GPU runs one.
JobSubmitted == \E q \in {0, 1}, v \in Nat, job \in Jobs, n \in Window : Issues(q, v, job, n)
JobRun == \E q \in {0, 1} : GpuRuns(q) /\ IsReal(queue[q][1])

\* What a step of the program can be.
LEMMA StepKinds ==
    ASSUME ControlInv, ProgramInv, CallInv, HalvesInv, NextInv, [Next]_vars
    PROVE  \/ Quiet
           \/ JobSubmitted
           \/ ReadFrame /\ curr_frame < input.frames
           \/ SaveTexture
           \/ JobRun
<1>1. ASSUME NEW q \in {0, 1}, NEW v \in Nat, NEW job, NEW n, Issues(q, v, job, n) PROVE JobSubmitted
  <2>1. job \in Jobs /\ n \in Window
    BY <1>1 DEF Issues, Turn
  <2> QED
    BY <1>1, <2>1 DEF JobSubmitted
<1>2. FenceBound + 1 \in Nat /\ (pc \in {"estimate", "propagate"} => fence_value \in Nat)
  BY ProgramAssumption DEF ProgramInv, UseInv, Waiting, Gpu!GpuAssumption
<1>3. CASE Upload \/ VideoRead \/ UploadRandomTex
  BY <1>1, <1>2, <1>3, ReadIssues, QuietEmpty DEF VideoRead
<1>4. CASE CopyIn
  BY <1>1, <1>2, <1>4, CopyInIssues, QuietEmpty DEF CopyIn
<1>5. CASE CopyOut
  <2>1. CASE ExecuteEmpty("copy_out_flush", "move")
    BY <2>1, QuietEmpty
  <2>2. CASE ~ExecuteEmpty("copy_out_flush", "move")
    <3>1. /\ pc = "copy_out"
          /\ Gpu!ExecuteAndReset(Compute, NoWait, Job("copy_out"))
          /\ Goto("copy_out_flush")
          /\ UNCHANGED <<main_vars, tex>>
      BY <1>5, <2>2 DEF CopyOut
    <3> QED
      BY <1>1, <1>2, <3>1, CopyOutIssues
  <2> QED
    BY <2>1, <2>2
<1>6. CASE ConvertToRgb \/ ConvertToNv12 \/ GatherMotionBlur \/ OverlayMotionVector
  <2>1. Issues(0, FenceBound + 1, Job(pc), curr_frame)
    BY <1>6, PassIssues DEF ConvertToRgb, ConvertToNv12, GatherMotionBlur, OverlayMotionVector
  <2> QED
    BY <1>1, <1>2, <2>1
<1>7. CASE EstimateMotionVectors \/ PropagateMotionBlur
  <2>1. Issues(IF pc = "estimate" THEN 1 ELSE 0, fence_value, Job(pc), curr_frame)
    BY <1>7, WaitingIssues
  <2>2. fence_value \in Nat
    BY <1>2, <1>7 DEF EstimateMotionVectors, PropagateMotionBlur, Pass
  <2> QED
    BY <1>1, <2>1, <2>2
<1>8. CASE Readback
  BY <1>1, <1>2, <1>8, ReadbackIssues
<1>9. CASE AddFrame \/ SetTimespan
  BY <1>9, QuietBody
<1>10. CASE ReadFrame \/ SkipRead \/ PollThreads \/ LoopEnd \/ JoinThreads
  BY <1>10, QuietMain
<1>11. CASE (\E q \in Gpu!CmdQueues : CreateCommandList(q)) \/ ReadbackWait \/ FinalWait \/ Move \/ GpuCall
  BY <1>11, QuietCall
<1>12. CASE (\E k \in DOMAIN writer : WriteFile(k)) \/ UNCHANGED vars
  BY <1>12, QuietRest
<1>13. ASSUME NEW q \in Gpu!CmdQueues, GpuRuns(q), ~IsReal(queue[q][1]) PROVE Quiet
  BY <1>13, QuietRest
<1>14. Gpu!CmdQueues = {0, 1}
  BY DEF Gpu!CmdQueues, Gpu!Compute, Gpu!VideoEncode
<1> HIDE DEF Quiet
<1> QED
  BY <1>3, <1>4, <1>5, <1>6, <1>7, <1>8, <1>9, <1>10, <1>11, <1>12, <1>13, <1>14 DEF Next, Main, JobRun

(****************************************************************************)
(* What holds between the calls                                              *)
(****************************************************************************)

\* Steps that submit nothing and make no call that waits.
Aside ==
    /\ UNCHANGED <<queue, fence, fence_vals, frame_index, call, saved>>
    /\ pc' \in {"save", "done"} <=> pc \in {"save", "done"}
    /\ pc' = "save" => pc = "save"
    /\ pc' \in Waiting => /\ fence_value' = fence_value
                          /\ pc' = "estimate" <=> pc = "estimate"
                          /\ pc \in Waiting
    /\ saved # <<>> /\ Adding' => Adding

\* Steps that submit a list, but the one that saves.
SubmitsList ==
    /\ \E q \in {0, 1}, v \in Nat, job \in Jobs \cup {NoJob} : Gpu!Execute(q, v, job) \/ Gpu!ExecuteAndReset(q, v, job)
    /\ saved' = saved /\ pc \in Body \cup {"random_tex", "readback"}
    /\ pc' # "save"
    /\ Adding' => Adding
    /\ pc' \in Waiting =>
        \/ pc' = "estimate" /\ ConvertToNv12
        \/ pc' = "timespan" /\ EstimateMotionVectors

\* The steps of the program beside its calls.
LEMMA AsideSteps ==
    ASSUME ControlInv, CallInv,
           \/ \E q \in Gpu!CmdQueues : CreateCommandList(q)
           \/ ReadFrame \/ SkipRead \/ AddFrame \/ SetTimespan \/ PollThreads \/ LoopEnd \/ JoinThreads
           \/ \E k \in DOMAIN writer : WriteFile(k)
           \/ UNCHANGED vars
    PROVE  Aside
<1>1. /\ UNCHANGED <<queue, fence, fence_vals, frame_index, call, saved, fence_value>>
      /\ \/ pc' = pc
         \/ pc = "loop" /\ pc' \in {"mf_copy", "upload", "after"}
         \/ pc = "add_frame" /\ pc' = "copy_in"
         \/ pc = "timespan" /\ pc' = "propagate"
         \/ pc = "after" /\ pc' \in {"readback", "aborted"}
         \/ pc = "after" /\ pc' = "loop_end" /\ ~(i >= FrameCount - 1)
         \/ pc = "loop_end" /\ pc' \in {"join", "loop"}
         \/ pc = "join" /\ pc' = "final_wait"
  BY AddFrameControl, AllGiven DEF ControlInv, CreateCommandList, Gpu!CreateCommandList, ReadFrame, SkipRead,
     AddFrame, SetTimespan, PollThreads, LoopEnd, LoopEndsAt, JoinThreads, WriteFile, vars, gpu_vars, main_vars, Goto
<1>2. pc = "after" /\ saved # <<>> => i >= FrameCount - 1
  BY WindowFacts
<1> QED
  BY <1>1, <1>2 DEF Aside, Waiting, Adding, Body, Reading

\* The steps that submit a list.
LEMMA SubmissionSteps ==
    ASSUME ControlInv, ProgramInv,
           \/ UploadRandomTex \/ Upload \/ VideoRead \/ CopyIn \/ ConvertToRgb \/ ConvertToNv12 \/ CopyOut
           \/ EstimateMotionVectors \/ PropagateMotionBlur \/ GatherMotionBlur
           \/ OverlayMotionVector \/ Readback
    PROVE  SubmitsList
<1>1. FenceBound + 1 \in Nat /\ (pc \in {"estimate", "propagate"} => fence_value \in Nat)
  BY ProgramAssumption DEF ProgramInv, UseInv, Waiting, Gpu!GpuAssumption
<1>2. \E q \in {0, 1}, v \in Nat, job \in Jobs \cup {NoJob} : Gpu!Execute(q, v, job) \/ Gpu!ExecuteAndReset(q, v, job)
  <2>0. Compute \in {0, 1} /\ VideoEncode \in {0, 1} /\ NoWait \in Nat
    BY <1>1 DEF Compute, VideoEncode, Gpu!Compute, Gpu!VideoEncode, NoWait, Gpu!MaxFenceValue
  <2>1. CASE UploadRandomTex \/ Upload \/ Readback \/ VideoRead \/ CopyIn \/ CopyOut
    <3>1. \E job \in Jobs \cup {NoJob} : Gpu!Execute(Compute, NoWait, job) \/ Gpu!ExecuteAndReset(Compute, NoWait, job)
      BY <2>1, JobTypes DEF UploadRandomTex, Upload, Readback, VideoRead, CopyPlane, ExecuteEmpty, CopyIn, CopyOut
    <3> QED
      BY <2>0, <3>1
  <2>2. CASE ConvertToRgb \/ ConvertToNv12 \/ GatherMotionBlur \/ OverlayMotionVector
    <3>1. \E job \in Jobs \cup {NoJob} : Gpu!Execute(Compute, NoWait, job)
      BY <2>2, JobTypes DEF ConvertToRgb, ConvertToNv12, GatherMotionBlur, OverlayMotionVector, Pass
    <3> QED
      BY <2>0, <3>1
  <2>3. CASE EstimateMotionVectors \/ PropagateMotionBlur
    <3>1. pc \in {"estimate", "propagate"} /\ Job(pc) \in Jobs
          /\ (Gpu!Execute(Compute, fence_value, Job(pc)) \/ Gpu!Execute(VideoEncode, fence_value, Job(pc)))
      BY <2>3, JobTypes DEF EstimateMotionVectors, PropagateMotionBlur, Pass
    <3> QED
      BY <1>1, <2>0, <3>1
  <2> QED
    BY <2>1, <2>2, <2>3
<1>3. /\ saved' = saved
      /\ \/ pc = "upload" /\ pc' = "add_frame"
         \/ pc = "mf_copy" /\ pc' \in {"mf_copy", "mf_flush"}
         \/ pc = "mf_flush" /\ pc' = "add_frame"
         \/ pc = "copy_in" /\ pc' \in {"copy_in", "copy_in_flush"}
         \/ pc = "copy_in_flush" /\ pc' \in {"to_rgb", "to_nv12"}
         \/ pc = "to_rgb" /\ pc' = "to_nv12"
         \/ pc = "to_nv12" /\ pc' \in {"copy_out", "estimate"} /\ ConvertToNv12
         \/ pc = "copy_out" /\ pc' = "copy_out_flush"
         \/ pc = "copy_out_flush" /\ pc' = "move"
         \/ pc = "estimate" /\ pc' = "timespan" /\ EstimateMotionVectors
         \/ pc = "propagate" /\ pc' = "gather"
         \/ pc = "gather" /\ pc' \in {"overlay", "move"}
         \/ pc = "overlay" /\ pc' = "move"
         \/ pc = "readback" /\ pc' = "readback_wait"
         \/ pc = "random_tex" /\ pc' = "loop"
  <2>1. CASE UploadRandomTex \/ Upload \/ VideoRead \/ CopyIn \/ CopyOut \/ Readback
    BY <2>1 DEF UploadRandomTex, Upload, VideoRead, CopyPlane, ExecuteEmpty, CopyIn, CopyOut, Readback, main_vars, Goto
  <2>2. CASE ConvertToRgb \/ ConvertToNv12 \/ GatherMotionBlur \/ OverlayMotionVector \/ EstimateMotionVectors \/ PropagateMotionBlur
    BY <2>2 DEF ConvertToRgb, ConvertToNv12, GatherMotionBlur, OverlayMotionVector, EstimateMotionVectors,
       PropagateMotionBlur, Pass, Goto
  <2> QED
    BY <2>1, <2>2
<1> QED
  BY <1>2, <1>3 DEF SubmitsList, Adding, Body, Reading, Waiting

\* What a step of the program does to GpuSystem.
LEMMA CallKinds ==
    ASSUME ControlInv, ProgramInv, CallInv, [Next]_vars
    PROVE  Aside \/ SubmitsList \/ SaveTexture \/ Move \/ ReadbackWait \/ FinalWait \/ GpuCall
           \/ \E q \in {0, 1} : GpuRuns(q)
<1>1. Gpu!CmdQueues = {0, 1}
  BY DEF Gpu!CmdQueues, Gpu!Compute, Gpu!VideoEncode
<1> HIDE DEF Aside, SubmitsList
<1> QED
  BY <1>1, AsideSteps, SubmissionSteps DEF Next, Main

\* The CPU uses a value that the fence has not reached and that nothing signals.
LEMMA FreshStep ==
    ASSUME ControlInv, ProgramInv, CallInv, FreshInv, [Next]_vars
    PROVE  FreshInv'
<1>1. CASE Aside
  <2>1. UNCHANGED <<queue, fence, call>> /\ Gpu!CurrFenceVal' = Gpu!CurrFenceVal
    BY <1>1 DEF Aside, Gpu!CurrFenceVal
  <2> QED
    BY <1>1, <2>1 DEF Aside, FreshInv
<1>2. CASE SubmitsList
  BY <1>2, FreshSubmit DEF SubmitsList
<1>3. CASE SaveTexture
  <2>1. Gpu!Execute(0, FenceBound + 1, NoJob) /\ FenceBound + 1 \in Nat
    BY <1>3, ProgramAssumption DEF SaveTexture, Compute, Gpu!Compute, NoWait, Gpu!MaxFenceValue,
       Gpu!GpuAssumption
  <2> QED
    BY <2>1, FreshSubmit
<1>4. CASE Move \/ ReadbackWait \/ FinalWait
  <2>1. call' # "idle"
    BY <1>4 DEF Move, ReadbackWait, FinalWait, Gpu!MoveToNextFrame, Gpu!WaitForGpu
  <2> QED
    BY <2>1 DEF FreshInv
<1>5. CASE GpuCall
  <2>1. CASE Gpu!PaceDone
    BY <2>1, FreshPaced
  <2>2. CASE Gpu!WaitForGpuReturns
    <3>1. pc' \in {"save", "done"}
      BY <1>5, <2>2 DEF GpuCall, Gpu!WaitForGpuReturns, CallInv
    <3> QED
      BY <3>1 DEF FreshInv
  <2>3. CASE ~Gpu!PaceDone /\ ~Gpu!WaitForGpuReturns
    <3>1. call' # "idle"
      BY <1>5, <2>3 DEF GpuCall, Gpu!CallStep, Gpu!PaceWait, Gpu!FlushSignal, Gpu!FlushWait,
         Gpu!FlushPassed, Gpu!FlushSkip, Gpu!FlushWoken
    <3> QED
      BY <3>1 DEF FreshInv
  <2> QED
    BY <2>1, <2>2, <2>3
<1>6. ASSUME NEW q \in {0, 1}, GpuRuns(q) PROVE FreshInv'
  BY <1>6, FreshGpu DEF GpuRuns
<1> QED
  BY <1>1, <1>2, <1>3, <1>4, <1>5, <1>6, CallKinds

\* What the next pass waits for.
LEMMA NextStep ==
    ASSUME ControlInv, ProgramInv, CallInv, HalvesInv, FreshInv, NextInv, [Next]_vars
    PROVE  NextInv'
<1>1. CASE Aside
  <2>1. UNCHANGED <<queue, fence>> /\ Gpu!CurrFenceVal' = Gpu!CurrFenceVal
    BY <1>1 DEF Aside, Gpu!CurrFenceVal
  <2>2. pc' \in Waiting => /\ fence_value' = fence_value
                           /\ pc' = "estimate" <=> pc = "estimate"
                           /\ pc \in Waiting
    BY <1>1 DEF Aside
  <2>3. ASSUME pc' = "estimate" PROVE NextWait(fence_value, queue[1], queue[0])'
    <3>1. fence_value' = fence_value /\ NextWait(fence_value, queue[1], queue[0])
      BY <2>2, <2>3 DEF NextInv, Waiting
    <3> QED
      BY <2>1, <3>1 DEF NextWait
  <2>4. ASSUME pc' \in {"timespan", "propagate"} PROVE NextWait(fence_value, queue[0], queue[1])'
    <3>1. fence_value' = fence_value /\ pc \in {"timespan", "propagate"}
      BY <2>2, <2>4 DEF Waiting
    <3>2. NextWait(fence_value, queue[0], queue[1])
      BY <3>1 DEF NextInv
    <3> QED
      BY <2>1, <3>1, <3>2 DEF NextWait
  <2> QED
    BY <2>3, <2>4 DEF NextInv
<1>2. CASE SubmitsList
  <2>1. CASE pc' \notin Waiting
    BY <2>1 DEF NextInv, Waiting
  <2>2. CASE pc' = "estimate" /\ ConvertToNv12
    <3>1. Gpu!Execute(0, FenceBound + 1, Job("to_nv12")) /\ pc = "to_nv12" /\ fence_value' = Gpu!CurrFenceVal
      BY <2>2 DEF ConvertToNv12, Pass, Compute, Gpu!Compute, NoWait, Gpu!MaxFenceValue
    <3>2. /\ Gpu!ExecuteOnly(0, FenceBound + 1, Job("to_nv12"))
          /\ fence' = fence /\ Newest' = Newest + 1 /\ Gpu!CurrFenceVal' = Newest + 1
      BY <3>1, SubmitNewest
    <3>3. call = "idle" /\ Newest = Gpu!CurrFenceVal /\ queue'[1 - 0] = queue[1 - 0] /\ Newest \in Nat
      BY <3>2, SubmitEffect, GpuTypes
    <3>4. fence < Newest /\ SignalsBelow(Newest, queue[1])
      BY <3>1, <3>3 DEF FreshInv
    <3>5. Awaits(Newest, queue'[0], fence)
      BY <3>4 DEF Awaits
    <3>6. NextWait(fence_value, queue[1], queue[0])'
      BY <3>1, <3>2, <3>3, <3>4, <3>5 DEF NextWait
    <3> QED
      BY <2>2, <3>6 DEF NextInv
  <2>3. CASE pc' = "timespan" /\ EstimateMotionVectors
    <3>1. Gpu!Execute(1, fence_value, Job("estimate")) /\ pc = "estimate" /\ fence_value' = Gpu!CurrFenceVal
      BY <2>3 DEF EstimateMotionVectors, Pass, VideoEncode, Gpu!VideoEncode
    <3>2. /\ Gpu!ExecuteOnly(1, fence_value, Job("estimate"))
          /\ fence' = fence /\ Newest' = Newest + 1 /\ Gpu!CurrFenceVal' = Newest + 1
      BY <3>1, SubmitNewest
    <3>3. call = "idle" /\ Newest = Gpu!CurrFenceVal /\ queue'[1 - 1] = queue[1 - 1] /\ Newest \in Nat
      BY <3>2, SubmitEffect, GpuTypes
    <3>4. fence < Newest /\ SignalsBelow(Newest, queue[0])
      BY <3>1, <3>3 DEF FreshInv
    <3>5. Awaits(Newest, queue'[1], fence)
      BY <3>4 DEF Awaits
    <3>6. NextWait(fence_value, queue[0], queue[1])'
      BY <3>1, <3>2, <3>3, <3>4, <3>5 DEF NextWait
    <3> QED
      BY <2>3, <3>6 DEF NextInv
  <2> QED
    BY <1>2, <2>1, <2>2, <2>3 DEF SubmitsList
<1>3. CASE SaveTexture \/ Move \/ ReadbackWait \/ FinalWait
  <2>1. pc' \notin Waiting
    BY <1>3 DEF SaveTexture, Move, ReadbackWait, FinalWait, Goto, Waiting
  <2> QED
    BY <2>1 DEF NextInv, Waiting
<1>4. CASE GpuCall
  <2>1. call # "idle" /\ pc' = pc
    BY <1>4 DEF GpuCall, Gpu!CallStep, Gpu!PaceWait, Gpu!PaceDone, Gpu!FlushSignal, Gpu!FlushWait,
       Gpu!FlushPassed, Gpu!FlushSkip, Gpu!FlushWoken, Gpu!WaitForGpuReturns
  <2>2. pc \in {"after", "save", "done"}
    BY <2>1, GpuTypes DEF CallInv, Gpu!InPace
  <2> QED
    BY <2>1, <2>2 DEF NextInv
<1>5. ASSUME NEW q \in {0, 1}, GpuRuns(q) PROVE NextInv'
  <2>1. pc' = pc /\ fence_value' = fence_value /\ Gpu!GpuStep(q)
    BY <1>5 DEF GpuRuns, main_vars
  <2>2. CASE pc = "estimate"
    <3>1. fence_value \in Nat
      BY <2>2 DEF ProgramInv, UseInv, Waiting
    <3> DEFINE v == fence_value
               p == 1
    <3>2. \A u \in Nat : NextWait(u, queue[1], queue[0]) => NextWait(u, queue[1], queue[0])'
      <4>1. \A u \in Nat : NextWait(u, queue[1], queue[1 - 1]) => NextWait(u, queue[1], queue[1 - 1])'
        BY <2>1, NextWaitGpu
      <4> QED
        BY <4>1
    <3>3. NextWait(fence_value, queue[1], queue[0])
      BY <2>2 DEF NextInv
    <3>4. NextWait(fence_value, queue[1], queue[0])'
      BY <2>1, <3>1, <3>2, <3>3 DEF NextWait
    <3> QED
      BY <2>1, <2>2, <3>4 DEF NextInv
  <2>3. CASE pc \in {"timespan", "propagate"}
    <3>1. fence_value \in Nat
      BY <2>3 DEF ProgramInv, UseInv, Waiting
    <3>2. \A u \in Nat : NextWait(u, queue[0], queue[1]) => NextWait(u, queue[0], queue[1])'
      <4>1. \A u \in Nat : NextWait(u, queue[0], queue[1 - 0]) => NextWait(u, queue[0], queue[1 - 0])'
        BY <2>1, NextWaitGpu
      <4> QED
        BY <4>1
    <3>3. NextWait(fence_value, queue[0], queue[1])
      BY <2>3 DEF NextInv
    <3>4. NextWait(fence_value, queue[0], queue[1])'
      BY <2>1, <3>1, <3>2, <3>3 DEF NextWait
    <3> QED
      BY <2>1, <2>3, <3>4 DEF NextInv
  <2>4. CASE pc \notin {"estimate", "timespan", "propagate"}
    BY <2>1, <2>4 DEF NextInv
  <2> QED
    BY <2>2, <2>3, <2>4
<1> QED
  BY <1>1, <1>2, <1>3, <1>4, <1>5, CallKinds

\* When WaitForGpu returns no list is left, in the video queue neither: a motion estimate
\* that is left has its propagation left in the compute queue.
LEMMA DrainedStep ==
    ASSUME ControlInv, ProgramInv, CallInv, HalvesInv, JobInv, DrainedInv, [Next]_vars
    PROVE  DrainedInv'
<1>1. CASE Aside
  <2>1. UNCHANGED <<queue, call>> /\ (pc' = "save" => pc = "save")
    BY <1>1 DEF Aside
  <2> QED
    BY <2>1 DEF DrainedInv, Gpu!NoExec
<1>2. CASE SubmitsList \/ SaveTexture \/ Move \/ ReadbackWait \/ FinalWait
  <2>1. pc' # "save" \/ call' # "idle"
    BY <1>2 DEF SubmitsList, SaveTexture, Move, ReadbackWait, FinalWait, Goto, Gpu!WaitForGpu
  <2> QED
    BY <2>1 DEF DrainedInv
<1>3. CASE GpuCall
  <2> SUFFICES ASSUME pc = "save", call' = "idle" PROVE Gpu!NoExec(queue'[0]) /\ Gpu!NoExec(queue'[1])
    BY <1>3 DEF DrainedInv, Gpu!NoExec, GpuCall
  <2>1. Gpu!WaitForGpuReturns
    <3>1. ~Gpu!PaceDone
      BY DEF Gpu!PaceDone, CallInv, Gpu!InPace
    <3> QED
      BY <1>3, <3>1 DEF GpuCall, Gpu!CallStep, Gpu!PaceWait, Gpu!FlushSignal, Gpu!FlushWait,
         Gpu!FlushPassed, Gpu!FlushSkip, Gpu!FlushWoken
  <2>2. queue' = queue /\ call = "flush" /\ wait_queue = 2
    BY <2>1 DEF Gpu!WaitForGpuReturns, Gpu!CmdQueueNum
  <2>3. Gpu!NoExec(queue[0])
    BY <2>2 DEF ProgramInv, CallInv, Known!DrainInv, Known!NoExec, Gpu!NoExec, Known!Compute
  <2>4. \A job : job \notin Left(queue[0])
    BY <2>3, NoExecLeft
  <2>5. ASSUME NEW job \in Left(queue[1]) PROVE FALSE
    <3>1. job \in Undone /\ job.op = "estimate"
      BY UndoneJobs, <2>5
    <3>2. Rank(job) = 7
      BY <3>1 DEF Rank
    <3>3. PICK n \in Window : Of(job, n)
      BY <3>1 DEF JobInv
    <3>4. Pend(n, 7)
      BY <3>1, <3>2, <3>3 DEF Pend, Of
    <3>5. Issued(n, 8)
      <4>1. NextRank = 11
        BY DEF NextRank
      <4> HIDE DEF NextRank
      <4> QED
        BY <4>1 DEF Issued
    <3>6. Pend(n, 8)
      BY <3>3, <3>4, <3>5 DEF JobInv
    <3>7. PICK other \in Undone : Rank(other) = 8
      BY <3>6 DEF Pend
    <3>8. other.op # "estimate"
      BY <3>7 DEF Rank
    <3>9. other \in Left(queue[0])
      BY <3>7, <3>8, UndoneJobs
    <3> QED
      BY <2>4, <3>9
  <2>6. Gpu!NoExec(queue[1])
    BY <2>5, NoExecLeft DEF HalvesInv, Half
  <2> QED
    BY <2>2, <2>3, <2>6
<1>4. ASSUME NEW q \in {0, 1}, GpuRuns(q) PROVE DrainedInv'
  <2>1. Gpu!GpuStep(q) /\ pc' = pc
    BY <1>4 DEF GpuRuns
  <2>2. call' = call /\ queue[q] # <<>> /\ queue'[q] = Tail(queue[q]) /\ queue'[1 - q] = queue[1 - q]
    BY <2>1, GpuEffect
  <2>3. queue[q] \in Seq(Known!Entry)
    BY GpuTypes
  <2>4. Gpu!NoExec(queue[q]) => Gpu!NoExec(Tail(queue[q]))
    BY <2>2, <2>3 DEF Gpu!NoExec
  <2> HIDE DEF Gpu!NoExec
  <2> QED
    BY <2>1, <2>2, <2>4 DEF DrainedInv
<1> QED
  BY <1>1, <1>2, <1>3, <1>4, CallKinds

\* Lists in a queue without any are in whatever slot.
LEMMA NoExecLists == ASSUME NEW s, NEW x, Gpu!NoExec(s) PROVE ListsAt(s, x)
  BY DEF Gpu!NoExec, ListsAt

\* The lists that are left after the first frame has been saved are those of one slot.
LEMMA ListsStep ==
    ASSUME ControlInv, ProgramInv, CallInv, DrainedInv, ListsInv, [Next]_vars
    PROVE  ListsInv'
<1> SUFFICES ASSUME saved' # <<>>, Adding' \/ Gpu!InPace'
             PROVE  ListsAt(queue'[0], Gpu!NewestSlot') /\ ListsAt(queue'[1], Gpu!NewestSlot')
  BY DEF ListsInv, ListsAt
<1>1. CASE Aside
  <2>1. UNCHANGED <<queue, saved>> /\ (Gpu!InPace' <=> Gpu!InPace) /\ Gpu!NewestSlot' = Gpu!NewestSlot
        /\ (saved # <<>> /\ Adding' => Adding)
    BY <1>1 DEF Aside, Gpu!InPace, Gpu!NewestSlot, Gpu!PrevSlot
  <2> QED
    BY <2>1 DEF ListsInv
<1>2. ASSUME \E q \in {0, 1}, v \in Nat, job \in Jobs \cup {NoJob} : Gpu!Execute(q, v, job) \/ Gpu!ExecuteAndReset(q, v, job),
             call = "idle" => ListsAt(queue[0], Gpu!NewestSlot) /\ ListsAt(queue[1], Gpu!NewestSlot)
      PROVE  ListsAt(queue'[0], Gpu!NewestSlot') /\ ListsAt(queue'[1], Gpu!NewestSlot')
  <2>1. PICK q \in {0, 1}, v \in Nat, job \in Jobs \cup {NoJob} : Gpu!Execute(q, v, job) \/ Gpu!ExecuteAndReset(q, v, job)
    BY <1>2
  <2>2. Gpu!ExecuteOnly(q, v, job) /\ call' = "idle" /\ frame_index' = frame_index
    BY <2>1, SubmitNewest
  <2>3. call = "idle"
    BY <2>2, SubmitEffect
  <2>4. Gpu!NewestSlot = frame_index /\ Gpu!NewestSlot' = frame_index
    BY <2>2, <2>3 DEF Gpu!NewestSlot, Gpu!InPace
  <2>5. ListsAt(queue'[0], frame_index) /\ ListsAt(queue'[1], frame_index)
    BY <1>2, <2>1, <2>3, <2>4, FreshSubmit
  <2> QED
    BY <2>4, <2>5
<1>3. CASE SubmitsList
  <2>1. saved' = saved /\ (Adding' => Adding)
        /\ \E q \in {0, 1}, v \in Nat, job \in Jobs \cup {NoJob} : Gpu!Execute(q, v, job) \/ Gpu!ExecuteAndReset(q, v, job)
    BY <1>3 DEF SubmitsList
  <2>2. ~Gpu!InPace'
    <3>1. call' = "idle"
      BY <2>1, SubmitNewest
    <3> QED
      BY <3>1 DEF Gpu!InPace
  <2>3. ListsAt(queue[0], Gpu!NewestSlot) /\ ListsAt(queue[1], Gpu!NewestSlot)
    BY <2>1, <2>2 DEF ListsInv
  <2> QED
    BY <1>2, <2>1, <2>3
<1>4. CASE SaveTexture
  <2>1. Gpu!Execute(0, FenceBound + 1, NoJob) /\ FenceBound + 1 \in Nat /\ pc = "save"
    BY <1>4, ProgramAssumption DEF SaveTexture, Compute, Gpu!Compute, NoWait, Gpu!MaxFenceValue,
       Gpu!GpuAssumption
  <2>2. call = "idle"
    BY <2>1 DEF Gpu!Execute, Gpu!ExecuteOnly, Gpu!Ready
  <2>3. ListsAt(queue[0], Gpu!NewestSlot) /\ ListsAt(queue[1], Gpu!NewestSlot)
    BY <2>1, <2>2, NoExecLists DEF DrainedInv
  <2> QED
    BY <1>2, <2>1, <2>3
<1>5. CASE Move
  <2>1. /\ pc = "move" /\ saved' = saved /\ call = "idle" /\ call' = "pace"
        /\ frame_index' = Gpu!NextSlot(frame_index)
        /\ queue' = [q \in {0, 1} |-> Append(queue[q], Gpu!Signal(Gpu!CurrFenceVal))]
        /\ Gpu!MoveToNextFrame
    BY <1>5, Zenon DEF Move, Gpu!MoveToNextFrame, Gpu!Ready, main_vars, Gpu!CmdQueues, Gpu!Compute,
       Gpu!VideoEncode
  <2>2. Adding
    BY <2>1 DEF Adding, Body
  <2>3. ListsAt(queue[0], frame_index) /\ ListsAt(queue[1], frame_index)
    BY <2>1, <2>2 DEF ListsInv, Gpu!NewestSlot, Gpu!InPace
  <2>4. Gpu!PrevSlot(Gpu!NextSlot(frame_index)) = frame_index
    <3>1. Known!PrevSlot(Known!NextSlot(frame_index)) = frame_index
      <4>1. frame_index \in Known!Slots
        BY GpuTypes DEF Known!Slots
      <4> QED
        BY <4>1, SameAssumption, Known!SlotRing
    <3> QED
      BY <3>1 DEF Known!PrevSlot, Known!NextSlot, Gpu!PrevSlot, Gpu!NextSlot
  <2>5. Gpu!NewestSlot' = frame_index
    <3>1. Gpu!NewestSlot' = Gpu!PrevSlot(frame_index')
      BY <2>1, Zenon DEF Gpu!NewestSlot, Gpu!InPace, Gpu!PrevSlot
    <3> QED
      BY <2>1, <2>4, <3>1
  <2>6. Newest \in Nat /\ Newest = Gpu!CurrFenceVal
    BY <2>1, GpuTypes, CallNewest
  <2> DEFINE e == Gpu!Signal(Newest)
  <2>7. e \in Known!Entry /\ e.kind # "exec"
    BY <2>6, EntriesMade
  <2>8. queue'[0] = Put(queue[0], e) /\ queue'[1] = Put(queue[1], e)
    BY <2>1, <2>6 DEF Put
  <2> HIDE DEF e
  <2>9. ListsAt(Put(queue[0], e), frame_index) /\ ListsAt(Put(queue[1], e), frame_index)
    BY <2>3, <2>7, GpuTypes, PutFacts
  <2> QED
    BY <2>5, <2>8, <2>9
<1>6. CASE ReadbackWait \/ FinalWait
  <2>1. pc' \in {"save", "done"} /\ call' = "flush"
    BY <1>6 DEF ReadbackWait, FinalWait, Goto, Gpu!WaitForGpu
  <2> QED
    BY <2>1 DEF Adding, Body, Reading, Gpu!InPace
<1>7. CASE GpuCall
  <2>1. pc' = pc /\ saved' = saved /\ Gpu!CallStep
    BY <1>7 DEF GpuCall, main_vars
  <2>2. call # "idle"
    BY <2>1 DEF Gpu!CallStep, Gpu!PaceWait, Gpu!PaceDone, Gpu!FlushSignal, Gpu!FlushWait,
       Gpu!FlushPassed, Gpu!FlushSkip, Gpu!FlushWoken, Gpu!WaitForGpuReturns
  <2>3. pc \in {"after", "save", "done"}
    BY <2>2, GpuTypes DEF CallInv, Gpu!InPace
  <2>4. Gpu!InPace'
    BY <2>1, <2>3 DEF Adding, Body, Reading
  <2>5. Gpu!PaceWait
    BY <2>1, <2>4 DEF Gpu!CallStep, Gpu!InPace, Gpu!PaceDone, Gpu!StartSlot, Gpu!FlushSignal,
       Gpu!FlushWait, Gpu!FlushPassed, Gpu!FlushSkip, Gpu!FlushWoken, Gpu!WaitForGpuReturns
  <2>6. UNCHANGED <<queue, frame_index>> /\ Gpu!InPace
    BY <2>5 DEF Gpu!PaceWait, Gpu!InPace
  <2>7. Gpu!NewestSlot' = Gpu!NewestSlot
    BY <2>4, <2>6, Zenon DEF Gpu!NewestSlot, Gpu!PrevSlot
  <2> QED
    BY <2>1, <2>6, <2>7 DEF ListsInv
<1>8. ASSUME NEW q \in {0, 1}, GpuRuns(q)
      PROVE  ListsAt(queue'[0], Gpu!NewestSlot') /\ ListsAt(queue'[1], Gpu!NewestSlot')
  <2>1. Gpu!GpuStep(q) /\ pc' = pc /\ saved' = saved
    BY <1>8 DEF GpuRuns, main_vars
  <2>2. call' = call /\ frame_index' = frame_index /\ queue[q] # <<>> /\ queue'[q] = Rest(queue[q]) /\ queue'[1 - q] = queue[1 - q]
    BY <2>1, GpuEffect DEF Rest
  <2>3. queue[q] \in Seq(Known!Entry)
    BY GpuTypes
  <2>4. Gpu!NewestSlot' = Gpu!NewestSlot /\ (Gpu!InPace' <=> Gpu!InPace) /\ (Adding' <=> Adding)
    BY <2>1, <2>2, Zenon DEF Gpu!NewestSlot, Gpu!PrevSlot, Gpu!InPace, Adding
  <2> DEFINE x == Gpu!NewestSlot
  <2>5. ListsAt(queue[0], x) /\ ListsAt(queue[1], x)
    BY <2>1, <2>4 DEF ListsInv
  <2> HIDE DEF x
  <2>6. ListsAt(Rest(queue[q]), x)
    BY <2>2, <2>3, <2>5, RestFacts
  <2>7. ListsAt(queue'[0], x) /\ ListsAt(queue'[1], x)
    BY <2>2, <2>5, <2>6
  <2> QED
    BY <2>4, <2>7 DEF x
<1> QED
  BY <1>1, <1>3, <1>4, <1>5, <1>6, <1>7, <1>8, CallKinds

(****************************************************************************)
(* The passes that are done                                                  *)
(****************************************************************************)

\* What the invariant says of control, calls, queues and jobs.
BaseInv ==
    /\ ControlInv /\ ProgramInv /\ CallInv
    /\ HalvesInv /\ JobInv /\ FreshInv /\ NextInv /\ DrainedInv

\* A pass is submitted after the passes of lower ranks.
LEMMA IssuedBefore ==
    ASSUME ControlInv, NEW n \in Window, NEW a \in 1 .. 11, NEW b \in 1 .. 11, a < b, Issued(n, b)
    PROVE  Issued(n, a)
<1>1. NextRank \in 1 .. 11 /\ (pc \in {"readback_wait", "save"} => NextRank = 11)
  <2>1. pc \in Labels /\ plane \in 0 .. LastPlane
    BY DEF ControlInv, MainTypes
  <2>2. plane \in {0, 1}
    BY <2>1 DEF LastPlane
  <2> QED
    BY <2>2 DEF NextRank
<1>2. n \in Nat /\ curr_frame \in Nat
  BY WindowFacts, WindowSlots
<1> HIDE DEF NextRank
<1> QED
  BY <1>1, <1>2 DEF Issued

\* A step that submits a job.
LEMMA IssueStep ==
    ASSUME BaseInv, NEW q \in {0, 1}, NEW v \in Nat, NEW job \in Jobs, NEW frame \in Window, Issues(q, v, job, frame)
    PROVE  /\ HalvesInv' /\ JobInv' /\ Window' = Window
           /\ \A n \in Window : \A r : Pend(n, r)' <=> Pend(n, r) \/ (n = frame /\ r = Rank(job))
           /\ \A n \in Window, r \in 1 .. 11 : Made(n, r)' <=> Made(n, r)
           /\ \A r \in 1 .. 11 : Made(frame, r) => r < Rank(job)
<1>1. /\ Gpu!Execute(q, v, job) \/ Gpu!ExecuteAndReset(q, v, job)
      /\ pc \notin {"save", "done"}
      /\ job.op = "estimate" <=> q = 1
      /\ frame_index = job.slot \/ job.op = "readback"
      /\ WaitFits(q, v, job) /\ Steady /\ Turn(job, frame) /\ NewIssued(frame, Rank(job)) /\ StaysBusy
  BY DEF Issues
<1>2. Later(job) /\ Unneeded(job)
  BY <1>1, TurnComes DEF BaseInv
<1>3. HalvesInv' /\ Joins(job)
  BY <1>1, <1>2, SubmitJob DEF BaseInv
<1>4. /\ JobInv'
      /\ \A n \in Window : \A r : Pend(n, r)' <=> Pend(n, r) \/ (n = frame /\ r = Rank(job))
  BY <1>1, <1>3, IssuedJobs DEF BaseInv
<1>5. Window' = Window
  BY <1>1, SteadyWindow
<1>6. \A r \in 1 .. 11 : Issued(frame, r) => r < Rank(job)
  BY <1>1 DEF Turn
<1>7. Rank(job) \in 1 .. 11
  BY RankRange
<1>8. \A n \in Window, r \in 1 .. 11 : Made(n, r)' <=> Made(n, r)
  <2> TAKE n \in Window, r \in 1 .. 11
  <2>1. Has(n, r)' <=> Has(n, r)
    BY <1>1, SteadyHas
  <2>2. Has(n, r) => (Issued(n, r)' <=> Issued(n, r) \/ (n = frame /\ r = Rank(job)))
    BY <1>1 DEF NewIssued
  <2>3. Pend(n, r)' <=> Pend(n, r) \/ (n = frame /\ r = Rank(job))
    BY <1>4
  <2>4. n = frame /\ r = Rank(job) => ~Issued(n, r)
    <3> HIDE DEF Issued, Rank
    <3> QED
      BY <1>6, <1>7
  <2> QED
    BY <2>1, <2>2, <2>3, <2>4 DEF Made
<1> HIDE DEF Rank, Issued
<1> QED
  BY <1>3, <1>4, <1>5, <1>6, <1>8 DEF Made

\* What the textures of a frame hold when the GPU runs one of its jobs: what the passes of
\* lower ranks gave, and nothing of those of higher ranks.
LEMMA RunFacts ==
    ASSUME BaseInv, InOrder, NEW job, NEW frame, HeadOf(job, frame)
    PROVE  /\ \A r \in 1 .. 11 : Made(frame, r) <=> Has(frame, r) /\ r < Rank(job)
           /\ Pend(frame, Rank(job)) /\ Has(frame, Rank(job)) /\ Rank(job) \in 1 .. 11
           /\ job.op = "estimate" => frame - 1 \in Window /\ Made(frame - 1, 6)
<1>1. /\ frame \in Window /\ Of(job, frame) /\ job \in Undone /\ job \in Jobs /\ job.slot = SlotOf(frame)
      /\ Has(frame, Rank(job)) /\ Issued(frame, Rank(job)) /\ Rank(job) \in 1 .. 11
  BY RankRange DEF HeadOf, Of
<1>2. Pend(frame, Rank(job))
  BY <1>1 DEF Pend
<1>3. \A r \in 1 .. 11 : r < Rank(job) => Issued(frame, r)
  <2> HIDE DEF Issued, Rank
  <2> QED
    BY <1>1, IssuedBefore DEF BaseInv
<1>4. ASSUME NEW r \in 1 .. 11, r < Rank(job), Has(frame, r) PROVE ~Pend(frame, r)
  <2>1. CASE job.op = "estimate"
    <3>1. Rank(job) = 7
      BY <2>1 DEF Rank
    <3>2. ~Pend(frame, 6)
      BY <2>1 DEF HeadOf
    <3>3. Made(frame, 6)
      <4>1. Has(frame, 6)
        BY DEF Has
      <4>2. Issued(frame, 6)
        BY <1>3, <3>1
      <4> QED
        BY <3>2, <4>1, <4>2 DEF Made
    <3>4. r = 6 \/ r < 6
      <4> HIDE DEF Rank
      <4> QED
        BY <1>4, <3>1
    <3> HIDE DEF Made
    <3> QED
      BY <1>1, <3>2, <3>3, <3>4 DEF InOrder
  <2>2. CASE job.op # "estimate" /\ r # 7
    <3> HIDE DEF Rank
    <3> QED
      BY <1>4, <2>2 DEF HeadOf
  <2>3. CASE job.op # "estimate" /\ r = 7
    <3>1. CASE job.op = "propagate"
      BY <2>3, <3>1 DEF HeadOf
    <3>2. CASE Rank(job) = 8 /\ job.op # "propagate"
      <4>1. job.op = "copy_out"
        BY <1>1, <3>2 DEF Rank, Jobs
      <4>2. frame = 1
        BY <1>1, <4>1 DEF Of
      <4>3. ~Has(frame, r)
        BY <2>3, <4>2 DEF Has
      <4> QED
        BY <1>4, <4>3
    <3>3. CASE Rank(job) > 8
      <4> SUFFICES ASSUME Pend(frame, 7) PROVE FALSE
        BY <2>3
      <4>1. Issued(frame, 8)
        BY <1>3, <3>3
      <4>2. Pend(frame, 8)
        BY <1>1, <4>1 DEF BaseInv, JobInv
      <4>3. ~Pend(frame, 8)
        <5> HIDE DEF Rank
        <5> QED
          BY <2>3, <3>3 DEF HeadOf
      <4> QED
        BY <4>2, <4>3
    <3>4. job.op = "propagate" \/ Rank(job) = 8 \/ Rank(job) > 8
      <4> HIDE DEF Rank
      <4> QED
        BY <1>1, <1>4, <2>3
    <3> QED
      BY <3>1, <3>2, <3>3, <3>4
  <2> QED
    BY <2>1, <2>2, <2>3
<1>5. ASSUME NEW r \in 1 .. 11 PROVE Made(frame, r) <=> Has(frame, r) /\ r < Rank(job)
  <2>1. CASE r < Rank(job)
    BY <1>3, <1>4, <2>1 DEF Made
  <2>2. CASE r = Rank(job)
    <3> HIDE DEF Rank
    <3> QED
      BY <1>1, <1>2, <2>2 DEF Made
  <2>3. CASE Rank(job) < r
    <3>1. ~Made(frame, r)
      <4> HIDE DEF Made, Rank
      <4> QED
        BY <1>1, <1>2, <2>3 DEF InOrder
    <3> HIDE DEF Made, Rank, Has
    <3> QED
      BY <1>1, <2>3, <3>1
  <2> HIDE DEF Made, Rank, Has
  <2> QED
    BY <1>1, <2>1, <2>2, <2>3
<1>6. ASSUME job.op = "estimate" PROVE frame - 1 \in Window /\ Made(frame - 1, 6)
  <2>1. frame - 1 \in Window /\ ~Pend(frame - 1, 6)
    BY <1>1, <1>6 DEF HeadOf, Of
  <2>2. frame <= curr_frame /\ frame \in Nat /\ curr_frame \in Nat
    BY <1>1, WindowFacts, WindowSlots DEF BaseInv, Window
  <2>3. Issued(frame - 1, 6) /\ Has(frame - 1, 6)
    BY <2>2 DEF Issued, Has
  <2> QED
    BY <2>1, <2>3 DEF Made
<1> QED
  BY <1>1, <1>2, <1>5, <1>6

\* A step in which the GPU runs a job.
LEMMA RunStep ==
    ASSUME BaseInv, InOrder, NEW q \in {0, 1}, GpuRuns(q), IsReal(queue[q][1])
    PROVE  /\ HalvesInv' /\ JobInv' /\ Window' = Window
           /\ \E frame \in Window :
                /\ HeadOf(queue[q][1].job, frame)
                /\ \A n \in Window : \A r : Pend(n, r)' <=> Pend(n, r) /\ ~(n = frame /\ r = Rank(queue[q][1].job))
                /\ \A n \in Window, r \in 1 .. 11 :
                     Made(n, r)' <=> Made(n, r) \/ (n = frame /\ r = Rank(queue[q][1].job))
<1> DEFINE job == queue[q][1].job
<1>1. Gpu!GpuStep(q) /\ UNCHANGED <<input, curr_frame, saved, pc, plane, total_frames>>
  BY DEF GpuRuns, main_vars
<1>2. HalvesInv' /\ Leaves(job)
  BY <1>1, GpuHalves DEF BaseInv
<1>3. PICK frame \in Window : HeadOf(job, frame)
  BY <1>1, HeadReady DEF BaseInv
<1> HIDE DEF job
<1>4. /\ JobInv' /\ Window' = Window
      /\ \A n, r : Has(n, r)' <=> Has(n, r)
      /\ \A n, r : Issued(n, r)' <=> Issued(n, r)
      /\ \A n \in Window : \A r : Pend(n, r)' <=> Pend(n, r) /\ ~(n = frame /\ r = Rank(job))
  BY <1>1, <1>2, <1>3, DoneJobs DEF BaseInv
<1>5. /\ Pend(frame, Rank(job)) /\ Has(frame, Rank(job)) /\ Issued(frame, Rank(job))
  BY <1>3, RunFacts DEF HeadOf, Of
<1>6. \A n \in Window, r \in 1 .. 11 : Made(n, r)' <=> Made(n, r) \/ (n = frame /\ r = Rank(job))
  <2> HIDE DEF Rank, Has, Issued
  <2> QED
    BY <1>4, <1>5 DEF Made
<1>7. /\ HeadOf(job, frame)
      /\ \A n \in Window : \A r : Pend(n, r)' <=> Pend(n, r) /\ ~(n = frame /\ r = Rank(job))
      /\ \A n \in Window, r \in 1 .. 11 : Made(n, r)' <=> Made(n, r) \/ (n = frame /\ r = Rank(job))
  BY <1>3, <1>4, <1>6
<1> QED
  BY <1>2, <1>4, <1>7 DEF job

\* A quiet step.
LEMMA QuietRun ==
    ASSUME BaseInv, Quiet
    PROVE  /\ HalvesInv' /\ JobInv' /\ Window' = Window
           /\ \A n, r : Pend(n, r)' <=> Pend(n, r)
           /\ \A n \in Window, r \in 1 .. 11 : Made(n, r)' <=> Made(n, r)
<1>1. QuietStep /\ HalvesInv' /\ Steady /\ SameIssued
  BY DEF Quiet, QuietStep
<1>2. JobInv' /\ (\A n, r : Pend(n, r)' <=> Pend(n, r)) /\ Window' = Window
  BY <1>1, QuietJobs, SteadyWindow DEF BaseInv
<1>3. \A n \in Window, r \in 1 .. 11 : Made(n, r)' <=> Made(n, r)
  <2> TAKE n \in Window, r \in 1 .. 11
  <2>1. Has(n, r)' <=> Has(n, r)
    BY <1>1, SteadyHas
  <2>2. Has(n, r) => (Issued(n, r)' <=> Issued(n, r))
    BY <1>1 DEF SameIssued
  <2> QED
    BY <1>2, <2>1, <2>2 DEF Made
<1> QED
  BY <1>1, <1>2, <1>3

\* A frame is read.
LEMMA ReadRun ==
    ASSUME BaseInv, ReadFrame, curr_frame < input.frames
    PROVE  /\ HalvesInv' /\ JobInv'
           /\ \A n \in Window' :
                IF n = curr_frame + 1
                  THEN \A r \in 1 .. 11 : ~Made(n, r)' /\ ~Pend(n, r)'
                  ELSE /\ n \in Window /\ SlotOf(n) # SlotOf(curr_frame + 1)
                       /\ \A r \in 1 .. 11 : (Made(n, r)' <=> Made(n, r)) /\ (Pend(n, r)' <=> Pend(n, r))
<1>1. /\ JobInv' /\ HalvesInv' /\ SameUndone
      /\ \A job \in Undone : job.slot # SlotOf(curr_frame + 1)
      /\ \A n, r : Pend(n, r)' <=> Pend(n, r)
      /\ \A n, r : Has(n, r)' <=> Has(n, r)
      /\ \A n \in Window' : n # curr_frame + 1 => n \in Window
      /\ \A n \in Window, r \in 1 .. 11 : Issued(n, r)' <=> Issued(n, r)
      /\ \A n, r : n = curr_frame + 1 /\ r \in 1 .. 11 => ~Issued(n, r)'
  BY ReadJobs DEF BaseInv
<1>2. /\ Len(saved) \in Nat /\ curr_frame \in Nat /\ curr_frame + 1 <= Len(saved) + FrameCount
      /\ FrameCount \in Nat
  <2>1. pc = "loop" /\ total_frames = 0
    BY DEF ReadFrame
  <2> QED
    BY <2>1, WindowFacts, SlotNumbers DEF BaseInv
<1>3. ASSUME NEW n \in Window', n = curr_frame + 1, NEW r \in 1 .. 11 PROVE ~Made(n, r)' /\ ~Pend(n, r)'
  <2>1. ~Issued(n, r)'
    BY <1>1, <1>3
  <2>2. ~Pend(n, r)
    BY <1>1, <1>3 DEF Pend
  <2> QED
    BY <1>1, <2>1, <2>2 DEF Made
<1>4. ASSUME NEW n \in Window', n # curr_frame + 1
      PROVE  /\ n \in Window /\ SlotOf(n) # SlotOf(curr_frame + 1)
             /\ \A r \in 1 .. 11 : (Made(n, r)' <=> Made(n, r)) /\ (Pend(n, r)' <=> Pend(n, r))
  <2>1. n \in Window
    BY <1>1, <1>4
  <2>2. SlotOf(n) # SlotOf(curr_frame + 1)
    <3> DEFINE k == curr_frame + 1
    <3>1. n \in Nat \ {0} /\ k \in Nat \ {0} /\ n < k /\ k < n + FrameCount
      BY <1>2, <2>1 DEF Window
    <3> HIDE DEF k
    <3>2. SlotOf(n) # SlotOf(k)
      BY <3>1, SlotsApart
    <3> QED
      BY <3>2 DEF k
  <2>3. \A r \in 1 .. 11 : Made(n, r)' <=> Made(n, r)
    BY <1>1, <2>1 DEF Made
  <2> QED
    BY <1>1, <2>1, <2>2, <2>3
<1> QED
  BY <1>1, <1>3, <1>4

\* A frame is saved.
LEMMA SaveRun ==
    ASSUME BaseInv, SaveTexture
    PROVE  /\ HalvesInv' /\ JobInv'
           /\ \A n \in Window' :
                /\ n \in Window /\ ~Made(n, 11)'
                /\ \A r \in 1 .. 11 : ~Pend(n, r)'
                /\ \A r \in 1 .. 10 : Made(n, r)' <=> Made(n, r)
<1>1. JobInv' /\ HalvesInv' /\ \A job : job \notin Undone /\ job \notin Undone'
  BY SaveJobs DEF BaseInv
<1>2. /\ pc = "save" /\ pc' = "loop_end" /\ UNCHANGED <<input, curr_frame, plane>>
      /\ saved' = Append(saved, tex["memory"][SavingSlot])
  BY DEF SaveTexture, Goto
<1>3. Len(saved') = Len(saved) + 1 /\ Len(saved) \in Nat /\ curr_frame \in Nat
  BY <1>2, WindowFacts DEF BaseInv, ControlInv, MainTypes
<1>4. NextRank = 11 /\ NextRank' = 11
  BY <1>2 DEF NextRank
<1> HIDE DEF NextRank
<1>5. ASSUME NEW n \in Window'
      PROVE  /\ n \in Window /\ ~Made(n, 11)'
             /\ \A r \in 1 .. 11 : ~Pend(n, r)'
             /\ \A r \in 1 .. 10 : Made(n, r)' <=> Made(n, r)
  <2>1. n \in Window
    BY <1>2, <1>3 DEF Window
  <2>2. \A r : ~Pend(n, r) /\ ~Pend(n, r)'
    BY <1>1 DEF Pend
  <2>3. ~Issued(n, 11)'
    BY <1>2 DEF Issued
  <2>4. \A r \in 1 .. 10 : Issued(n, r) /\ Issued(n, r)'
    BY <1>4 DEF Issued
  <2>5. \A r : Has(n, r)' <=> Has(n, r)
    BY <1>2, SameInput DEF Has
  <2>6. \A r \in 1 .. 10 : Made(n, r)' <=> Made(n, r)
    BY <2>2, <2>4, <2>5 DEF Made
  <2> QED
    BY <2>1, <2>2, <2>3, <2>6 DEF Made
<1> QED
  BY <1>1, <1>5

\* Passes keep to their order, and jobs to theirs.
LEMMA OrderStep ==
    ASSUME BaseInv, InOrder, [Next]_vars
    PROVE  HalvesInv' /\ JobInv' /\ InOrder'
<1>1. CASE Quiet
  <2> HIDE DEF Made
  <2>1. /\ HalvesInv' /\ JobInv' /\ Window' = Window
        /\ \A n, r : Pend(n, r)' <=> Pend(n, r)
        /\ \A n \in Window, r \in 1 .. 11 : Made(n, r)' <=> Made(n, r)
    BY <1>1, QuietRun
  <2> QED
    BY <2>1 DEF InOrder
<1>2. CASE JobSubmitted
  <2>1. PICK q \in {0, 1}, v \in Nat, job \in Jobs, frame \in Window : Issues(q, v, job, frame)
    BY <1>2 DEF JobSubmitted
  <2>2. /\ HalvesInv' /\ JobInv' /\ Window' = Window
        /\ \A n \in Window : \A r : Pend(n, r)' <=> Pend(n, r) \/ (n = frame /\ r = Rank(job))
        /\ \A n \in Window, r \in 1 .. 11 : Made(n, r)' <=> Made(n, r)
        /\ \A r \in 1 .. 11 : Made(frame, r) => r < Rank(job)
    BY <2>1, IssueStep
  <2>3. Rank(job) \in 1 .. 11
    BY RankRange
  <2> HIDE DEF Rank, Made
  <2>4. ASSUME NEW n \in Window, NEW a \in 1 .. 11, NEW b \in 1 .. 11, a < b, Pend(n, a)' PROVE ~Made(n, b)'
    <3>1. CASE Pend(n, a)
      BY <2>2, <2>4, <3>1 DEF InOrder
    <3>2. CASE n = frame /\ a = Rank(job)
      BY <2>2, <2>3, <2>4, <3>2
    <3> QED
      BY <2>2, <2>4, <3>1, <3>2
  <2> QED
    BY <2>2, <2>4 DEF InOrder
<1>3. CASE ReadFrame /\ curr_frame < input.frames
  <2> HIDE DEF Made
  <2>1. /\ HalvesInv' /\ JobInv'
        /\ \A n \in Window' :
             IF n = curr_frame + 1
               THEN \A r \in 1 .. 11 : ~Made(n, r)' /\ ~Pend(n, r)'
               ELSE /\ n \in Window
                    /\ \A r \in 1 .. 11 : (Made(n, r)' <=> Made(n, r)) /\ (Pend(n, r)' <=> Pend(n, r))
    BY <1>3, ReadRun
  <2> QED
    BY <2>1 DEF InOrder
<1>4. CASE SaveTexture
  <2> HIDE DEF Made
  <2>1. HalvesInv' /\ JobInv' /\ \A n \in Window' : \A r \in 1 .. 11 : ~Pend(n, r)'
    BY <1>4, SaveRun
  <2> QED
    BY <2>1 DEF InOrder
<1>5. CASE JobRun
  <2>1. PICK q \in {0, 1} : GpuRuns(q) /\ IsReal(queue[q][1])
    BY <1>5 DEF JobRun
  <2> DEFINE job == queue[q][1].job
  <2>2. HalvesInv' /\ JobInv' /\ Window' = Window
    BY <2>1, RunStep
  <2>3. PICK frame \in Window :
                /\ HeadOf(job, frame)
                /\ \A n \in Window : \A r : Pend(n, r)' <=> Pend(n, r) /\ ~(n = frame /\ r = Rank(job))
                /\ \A n \in Window, r \in 1 .. 11 :
                     Made(n, r)' <=> Made(n, r) \/ (n = frame /\ r = Rank(job))
    BY <2>1, RunStep
  <2> HIDE DEF job
  <2>4. /\ \A r \in 1 .. 11 : Made(frame, r) <=> Has(frame, r) /\ r < Rank(job)
        /\ Pend(frame, Rank(job)) /\ Has(frame, Rank(job)) /\ Rank(job) \in 1 .. 11
    BY <2>3, RunFacts
  <2> HIDE DEF Rank
  <2>5. ASSUME NEW n \in Window, NEW a \in 1 .. 11, NEW b \in 1 .. 11, a < b, Pend(n, a)' PROVE ~Made(n, b)'
    <3>1. Pend(n, a) /\ ~(n = frame /\ a = Rank(job))
      BY <2>3, <2>5
    <3>2. ~Made(n, b)
      <4> HIDE DEF Made
      <4> QED
        BY <2>5, <3>1 DEF InOrder
    <3>3. ASSUME n = frame, b = Rank(job) PROVE FALSE
      <4>1. Of(job, frame)
        BY <2>3 DEF HeadOf
      <4>2. ~Made(frame, a)
        BY <3>1, <3>3 DEF Made
      <4>3. ~Has(frame, a)
        <5> HIDE DEF Made
        <5> QED
          BY <2>4, <2>5, <3>3, <4>2
      <4>4. PICK other \in Undone : other.slot = SlotOf(frame) /\ Rank(other) = a
        BY <3>1, <3>3 DEF Pend
      <4>5. Of(other, frame)
        BY <4>4, OwnerOf DEF BaseInv
      <4> QED
        BY <4>3, <4>4, <4>5 DEF Of
    <3> HIDE DEF Made
    <3> QED
      BY <2>3, <3>2, <3>3
  <2> HIDE DEF Made
  <2> QED
    BY <2>2, <2>5 DEF InOrder
<1> HIDE DEF Quiet
<1> QED
  BY <1>1, <1>2, <1>3, <1>4, <1>5, StepKinds DEF BaseInv

(****************************************************************************)
(* What the textures hold                                                    *)
(****************************************************************************)

\* The pictures a frame may become depend on the input alone. What the textures of a frame
\* hold stays true while they are left alone ...
LEMMA SpansKept ==
    ASSUME input' = input, NEW n
    PROVE  Spans(n)' = Spans(n) /\ Pictures(n)' = Pictures(n)
<1>1. \A m : Stream!Timespan(m)' = Stream!Timespan(m)
  BY DEF Stream!Timespan
<1>2. Spans(n)' = Spans(n)
  BY <1>1, Zenon DEF Spans
<1>3. Pictures(n)' = Pictures(n)
  BY <1>2, Zenon DEF Pictures, PictureOver
<1> QED
  BY <1>2, <1>3

\* ... if the passes that are done stay the same.
LEMMA ValueKept ==
    ASSUME NEW n, Value(n), input' = input,
           \A name \in TexNames : tex'[name][SlotOf(n)] = tex[name][SlotOf(n)],
           \A r \in 1 .. 10 : Made(n, r)' <=> Made(n, r),
           Made(n, 11)' => Made(n, 11),
           n > 1 /\ Pend(n, 8)' => cb' \in Spans(n)
    PROVE  Value(n)'
<1>1. Spans(n)' = Spans(n) /\ Pictures(n)' = Pictures(n) /\ LastPlane' = LastPlane /\ (Video' <=> Video) /\ RgbRank' = RgbRank
  BY SpansKept, SameInput DEF RgbRank
<1>2. /\ tex'["frame"][SlotOf(n)] = tex["frame"][SlotOf(n)] /\ tex'["nv12"][SlotOf(n)] = tex["nv12"][SlotOf(n)]
      /\ tex'["rgb"][SlotOf(n)] = tex["rgb"][SlotOf(n)] /\ tex'["scaled"][SlotOf(n)] = tex["scaled"][SlotOf(n)]
      /\ tex'["raw_mv"][SlotOf(n)] = tex["raw_mv"][SlotOf(n)] /\ tex'["mv"][SlotOf(n)] = tex["mv"][SlotOf(n)]
      /\ tex'["blurred"][SlotOf(n)] = tex["blurred"][SlotOf(n)] /\ tex'["memory"][SlotOf(n)] = tex["memory"][SlotOf(n)]
  BY DEF TexNames
<1>3. LastPlane \in {0, 1} /\ RgbRank \in 1 .. 10
  BY DEF LastPlane, RgbRank
<1>4. \A p \in 0 .. LastPlane : (Made(n, 1 + p)' <=> Made(n, 1 + p)) /\ (Made(n, 3 + p)' <=> Made(n, 3 + p))
  <2> TAKE p \in 0 .. LastPlane
  <2>1. 1 + p \in 1 .. 10 /\ 3 + p \in 1 .. 10
    BY <1>3
  <2> QED
    BY <2>1
<1>5. /\ Made(n, RgbRank)' <=> Made(n, RgbRank)
      /\ Made(n, 6)' <=> Made(n, 6)
      /\ Made(n, 7)' <=> Made(n, 7)
      /\ Made(n, 8)' <=> Made(n, 8)
      /\ Made(n, 9)' <=> Made(n, 9)
      /\ Made(n, 10)' <=> Made(n, 10)
  <2>1. \A r : r = RgbRank => (Made(n, r)' <=> Made(n, r))
    BY <1>3
  <2>2. Made(n, RgbRank)' <=> Made(n, RgbRank)
    BY <1>1, <2>1
  <2> QED
    BY <2>2
<1> HIDE DEF Made, Pend, SlotOf, Spans, Pictures, RgbRank, LastPlane
<1>6. FrameRead(n)'
  BY <1>1, <1>2, <1>4 DEF Value, FrameRead
<1>7. PlanesIn(n)'
  BY <1>1, <1>2, <1>4 DEF Value, PlanesIn
<1>8. RgbIn(n)' /\ ScaledIn(n)' /\ RawMotionIn(n)'
  BY <1>1, <1>2, <1>5 DEF Value, RgbIn, ScaledIn, RawMotionIn
<1>9. MotionIn(n)' /\ PictureIn(n)' /\ SpanIn(n)'
  BY SMTT(30), <1>1, <1>2, <1>5 DEF Value, MotionIn, PictureIn, SpanIn, Motion
<1>10. BlurredIn(n)'
  BY SMTT(30), <1>2, <1>5 DEF Value, BlurredIn
<1> QED
  BY <1>6, <1>7, <1>8, <1>9, <1>10 DEF Value

\* What each kind of job writes.
LEMMA JobWrites ==
    ASSUME NEW job
    PROVE  /\ job.op = "read" => Target(job) = "frame"
                 /\ Result(job) = [tex["frame"][job.slot] EXCEPT ![job.plane + 1] = job.frame]
           /\ job.op = "copy_in" => Target(job) = (IF Video THEN "nv12" ELSE "rgb")
                 /\ Result(job) = IF Video THEN [tex["nv12"][job.slot] EXCEPT ![job.plane + 1] =
                                                      tex["frame"][job.slot][job.plane + 1]]
                                  ELSE tex["frame"][job.slot]
           /\ job.op = "to_rgb" => Target(job) = "rgb" /\ Result(job) = Merge(tex["nv12"][job.slot])
           /\ job.op = "to_nv12" => Target(job) = "scaled" /\ Result(job) = tex["rgb"][job.slot]
           /\ job.op = "estimate" => Target(job) = "raw_mv"
                 /\ Result(job) = tex["scaled"][Gpu!PrevSlot(job.slot)] \o tex["scaled"][job.slot]
           /\ job.op = "copy_out" => Target(job) = "blurred" /\ Result(job) = tex["rgb"][job.slot]
           /\ job.op = "propagate" => Target(job) = "mv" /\ Result(job) = tex["raw_mv"][job.slot] \o <<cb>>
           /\ job.op = "gather" => Target(job) = "blurred" /\ Result(job) = tex["rgb"][job.slot] \o tex["mv"][job.slot]
           /\ job.op = "overlay" => Target(job) = "blurred" /\ Result(job) = tex["blurred"][job.slot] \o tex["mv"][job.slot]
           /\ job.op = "readback" => Target(job) = "memory" /\ Result(job) = tex["blurred"][job.slot]
<1>1. job.op = "read" => Target(job) = "frame"
                 /\ Result(job) = [tex["frame"][job.slot] EXCEPT ![job.plane + 1] = job.frame]
  BY Zenon DEF Target, Result
<1>2. job.op = "copy_in" => Target(job) = (IF Video THEN "nv12" ELSE "rgb")
                 /\ Result(job) = IF Video THEN [tex["nv12"][job.slot] EXCEPT ![job.plane + 1] =
                                                      tex["frame"][job.slot][job.plane + 1]]
                                  ELSE tex["frame"][job.slot]
  BY Zenon DEF Target, Result
<1>3. job.op = "to_rgb" => Target(job) = "rgb" /\ Result(job) = Merge(tex["nv12"][job.slot])
  BY Zenon DEF Target, Result
<1>4. job.op = "to_nv12" => Target(job) = "scaled" /\ Result(job) = tex["rgb"][job.slot]
  BY Zenon DEF Target, Result
<1>5. job.op = "estimate" => Target(job) = "raw_mv"
                 /\ Result(job) = tex["scaled"][Gpu!PrevSlot(job.slot)] \o tex["scaled"][job.slot]
  BY Zenon DEF Target, Result
<1>6. job.op = "copy_out" => Target(job) = "blurred" /\ Result(job) = tex["rgb"][job.slot]
  BY Zenon DEF Target, Result
<1>7. job.op = "propagate" => Target(job) = "mv" /\ Result(job) = tex["raw_mv"][job.slot] \o <<cb>>
  BY Zenon DEF Target, Result
<1>8. job.op = "gather" => Target(job) = "blurred" /\ Result(job) = tex["rgb"][job.slot] \o tex["mv"][job.slot]
  BY Zenon DEF Target, Result
<1>9. job.op = "overlay" => Target(job) = "blurred" /\ Result(job) = tex["blurred"][job.slot] \o tex["mv"][job.slot]
  BY Zenon DEF Target, Result
<1>10. job.op = "readback" => Target(job) = "memory" /\ Result(job) = tex["blurred"][job.slot]
  BY Zenon DEF Target, Result
<1> QED
  BY <1>1, <1>2, <1>3, <1>4, <1>5, <1>6, <1>7, <1>8, <1>9, <1>10

(****************************************************************************)
(* What the GPU writes                                                       *)
(****************************************************************************)

\* The passes of frame n before and after the one of rank k is run.
Before(n, k) == \A r \in 1 .. 11 : Made(n, r) <=> Has(n, r) /\ r < k
After(n, k) == \A r \in 1 .. 11 : Made(n, r)' <=> Has(n, r) /\ (r < k \/ r = k)

\* Of the textures of frame n only the one of that name may change.
OnlyWrites(name, n) ==
    \A other \in TexNames : other # name => tex'[other][SlotOf(n)] = tex[other][SlotOf(n)]

\* One texture is written.
Writes(name, s, c) == tex' = [tex EXCEPT ![name][s] = c]

\* A texture is written, and no other.
LEMMA TexWrite ==
    ASSUME TexTypes, NEW name \in TexNames, NEW s \in 0 .. FrameCount - 1, NEW c,
           Writes(name, s, c)
    PROVE  /\ tex'[name][s] = c
           /\ \A other \in TexNames : other # name => tex'[other] = tex[other]
           /\ \A t \in 0 .. FrameCount - 1 : t # s => tex'[name][t] = tex[name][t]
           /\ tex' = [other \in TexNames |-> [t \in 0 .. FrameCount - 1 |-> tex'[other][t]]]
<1>1. DOMAIN tex = TexNames /\ \A other \in TexNames : tex[other] = [t \in 0 .. FrameCount - 1 |-> tex[other][t]]
  BY Zenon DEF TexTypes
<1>0. tex' = [tex EXCEPT ![name][s] = c]
  BY DEF Writes
<1>2. tex'[name] = [tex[name] EXCEPT ![s] = c]
  BY <1>0, <1>1
<1>3. tex'[name] = [t \in 0 .. FrameCount - 1 |-> IF t = s THEN c ELSE tex[name][t]]
  BY <1>1, <1>2
<1>4. \A other \in TexNames : other # name => tex'[other] = tex[other]
  BY <1>0, <1>1
<1>5. tex' = [other \in TexNames |-> [t \in 0 .. FrameCount - 1 |-> tex'[other][t]]]
  <2>1. DOMAIN tex' = TexNames /\ tex' = [other \in TexNames |-> tex'[other]]
    BY <1>0, <1>1
  <2>2. \A other \in TexNames : tex'[other] = [t \in 0 .. FrameCount - 1 |-> tex'[other][t]]
    <3> TAKE other \in TexNames
    <3>1. CASE other = name
      BY <1>3, <3>1
    <3>2. CASE other # name
      BY <1>1, <1>4, <3>2
    <3> QED
      BY <3>1, <3>2
  <2> QED
    BY <2>1, <2>2
<1> QED
  BY <1>3, <1>4, <1>5

\* What one pass of a frame leaves of what its other textures hold.
LEMMA RestOfValue ==
    ASSUME NEW n, NEW k \in 1 .. 11, NEW name, Value(n), Before(n, k), After(n, k), OnlyWrites(name, n),
           input' = input, cb' = cb, Pend(n, 8)' => Pend(n, 8)
    PROVE  /\ k > 2 /\ name # "frame" => FrameRead(n)'
           /\ k < 3 \/ (k > 4 /\ name # "nv12") => PlanesIn(n)'
           /\ k < RgbRank \/ (k > RgbRank /\ name # "rgb") => RgbIn(n)'
           /\ k < 6 \/ (k > 6 /\ name # "scaled") => ScaledIn(n)'
           /\ k < 7 \/ (k > 7 /\ name # "raw_mv") => RawMotionIn(n)'
           /\ k < 8 \/ (k > 8 /\ name # "mv") => MotionIn(n)'
           /\ k < 8 \/ (k = 11 /\ name # "mv" /\ name # "blurred") \/ (k = 8 /\ n # 1) => BlurredIn(n)'
           /\ k < 11 => PictureIn(n)'
           /\ SpanIn(n)'
<1>1. Spans(n)' = Spans(n) /\ Pictures(n)' = Pictures(n) /\ LastPlane' = LastPlane /\ (Video' <=> Video) /\ RgbRank' = RgbRank
  BY SpansKept, SameInput DEF RgbRank
<1>2. /\ name # "frame" => tex'["frame"][SlotOf(n)] = tex["frame"][SlotOf(n)]
      /\ name # "nv12" => tex'["nv12"][SlotOf(n)] = tex["nv12"][SlotOf(n)]
      /\ name # "rgb" => tex'["rgb"][SlotOf(n)] = tex["rgb"][SlotOf(n)]
      /\ name # "scaled" => tex'["scaled"][SlotOf(n)] = tex["scaled"][SlotOf(n)]
      /\ name # "raw_mv" => tex'["raw_mv"][SlotOf(n)] = tex["raw_mv"][SlotOf(n)]
      /\ name # "mv" => tex'["mv"][SlotOf(n)] = tex["mv"][SlotOf(n)]
      /\ name # "blurred" => tex'["blurred"][SlotOf(n)] = tex["blurred"][SlotOf(n)]
  BY DEF OnlyWrites, TexNames
<1>3. LastPlane \in {0, 1} /\ RgbRank \in {3, 5}
  BY DEF LastPlane, RgbRank
<1>4. \A r \in 1 .. 11 : /\ Made(n, r)' => r < k \/ r = k
                         /\ r # k => (Made(n, r)' <=> Made(n, r))
  <2> HIDE DEF Made, Has
  <2> QED
    BY DEF Before, After
<1>5. \A r : r = RgbRank => /\ Made(n, r)' => r < k \/ r = k
                            /\ r # k => (Made(n, r)' <=> Made(n, r))
  BY <1>3, <1>4
<1>6. /\ Made(n, RgbRank)' => RgbRank < k \/ RgbRank = k
      /\ RgbRank # k => (Made(n, RgbRank)' <=> Made(n, RgbRank))
  BY <1>1, <1>5
<1> HIDE DEF Made, Pend, SlotOf, Spans, Pictures, RgbRank, LastPlane
<1>7. k > 2 /\ name # "frame" => FrameRead(n)'
  <2> SUFFICES ASSUME k > 2, name # "frame", NEW p \in 0 .. LastPlane, Made(n, 1 + p)'
               PROVE  tex'["frame"][SlotOf(n)][p + 1] = n
    BY <1>1 DEF FrameRead
  <2>1. 1 + p \in 1 .. 11 /\ 1 + p # k
    BY <1>3
  <2> QED
    BY <1>2, <1>4, <2>1 DEF Value, FrameRead
<1>8. k < 3 \/ (k > 4 /\ name # "nv12") => PlanesIn(n)'
  <2> SUFFICES ASSUME k < 3 \/ (k > 4 /\ name # "nv12"), Video, NEW p \in 0 .. LastPlane, Made(n, 3 + p)'
               PROVE  tex'["nv12"][SlotOf(n)][p + 1] = n
    BY <1>1 DEF PlanesIn
  <2>1. 3 + p \in 1 .. 11 /\ 3 + p # k /\ ~(k < 3)
    BY <1>3, <1>4
  <2> QED
    BY <1>2, <1>4, <2>1 DEF Value, PlanesIn
<1>9. k < RgbRank \/ (k > RgbRank /\ name # "rgb") => RgbIn(n)'
  BY <1>1, <1>2, <1>3, <1>6 DEF Value, RgbIn
<1>10. /\ k < 6 \/ (k > 6 /\ name # "scaled") => ScaledIn(n)'
       /\ k < 7 \/ (k > 7 /\ name # "raw_mv") => RawMotionIn(n)'
  BY <1>2, <1>4 DEF Value, ScaledIn, RawMotionIn
<1>11. k < 8 \/ (k > 8 /\ name # "mv") => MotionIn(n)'
  <2>1. k < 8 => ~Made(n, 8)'
    BY <1>4
  <2>2. k > 8 => (Made(n, 8)' <=> Made(n, 8))
    BY <1>4
  <2> QED
    BY <1>1, <1>2, <2>1, <2>2 DEF Value, MotionIn, Motion
<1>12. k < 8 \/ (k = 11 /\ name # "mv" /\ name # "blurred") \/ (k = 8 /\ n # 1) => BlurredIn(n)'
  <2>1. k < 8 => ~Made(n, 8)'
    BY <1>4
  <2>2. k < 8 \/ k = 8 => ~Made(n, 9)' /\ ~Made(n, 10)'
    BY <1>4
  <2>3. k = 11 => /\ Made(n, 8)' <=> Made(n, 8)
                  /\ Made(n, 9)' <=> Made(n, 9)
                  /\ Made(n, 10)' <=> Made(n, 10)
    BY <1>4
  <2> QED
    BY <1>2, <2>1, <2>2, <2>3 DEF Value, BlurredIn
<1>13. k < 11 => PictureIn(n)'
  <2>1. k < 11 => ~Made(n, 11)'
    BY <1>4
  <2> QED
    BY <2>1 DEF PictureIn
<1>14. SpanIn(n)'
  BY <1>1 DEF Value, SpanIn
<1> QED
  BY <1>7, <1>8, <1>9, <1>10, <1>11, <1>12, <1>13, <1>14

(****************************************************************************)
(* The GPU does a job of a frame, one kind at a time                         *)
(****************************************************************************)

\* The GPU runs a job of frame n.
Doing(job, n) ==
    /\ job \in Jobs /\ job.slot = SlotOf(n) /\ n \in Nat \ {0}
    /\ Value(n) /\ Before(n, Rank(job)) /\ After(n, Rank(job)) /\ Has(n, Rank(job))
    /\ Pend(n, 8)' => Pend(n, 8)
    /\ job.op = "read" => job.frame = n
    /\ job.op = "copy_out" => n = 1
    /\ job.op = "propagate" => n > 1 /\ cb \in Spans(n)
    /\ job.op = "estimate" => tex["scaled"][Gpu!PrevSlot(job.slot)] = <<n - 1>>
    /\ input' = input /\ cb' = cb
    /\ OnlyWrites(Target(job), n)
    /\ tex'[Target(job)][SlotOf(n)] = Result(job)

\* What is planes of a texture, and of one plane.
PlanesOf(f) == f \in [1 .. LastPlane + 1 -> Nat]

\* A plane is read.
LEMMA DoneRead ==
    ASSUME NEW job, NEW n, Doing(job, n), job.op = "read", PlanesOf(tex["frame"][SlotOf(n)])
    PROVE  Value(n)'
<1>1. job.plane \in {0, 1} /\ Rank(job) = 1 + job.plane /\ Rank(job) \in 1 .. 11 /\ Rank(job) < 3
  BY SMTT(30) DEF Doing, Jobs, Rank
<1>2. tex'["frame"][SlotOf(n)] = [tex["frame"][SlotOf(n)] EXCEPT ![job.plane + 1] = n]
  BY JobWrites DEF Doing
<1>3. LastPlane' = LastPlane /\ LastPlane \in {0, 1} /\ RgbRank \in {3, 5}
  BY SameInput DEF LastPlane, Doing, RgbRank
<1>4. FrameRead(n)'
  <2> SUFFICES ASSUME NEW p \in 0 .. LastPlane, Made(n, 1 + p)' PROVE tex'["frame"][SlotOf(n)][p + 1] = n
    BY <1>3 DEF FrameRead
  <2>1. 1 + p \in 1 .. 11 /\ p + 1 \in 1 .. LastPlane + 1
    BY <1>3
  <2> HIDE DEF Made, Has, Rank, SlotOf, LastPlane
  <2>2. Has(n, 1 + p) /\ (1 + p < 1 + job.plane \/ p = job.plane)
    BY <1>1, <1>3, <2>1 DEF Doing, After
  <2>3. CASE p = job.plane
    BY <1>2, <2>1, <2>3 DEF PlanesOf
  <2>4. CASE 1 + p < 1 + job.plane
    <3>1. Made(n, 1 + p)
      BY <1>1, <2>1, <2>2, <2>4 DEF Doing, Before
    <3>2. tex["frame"][SlotOf(n)][p + 1] = n
      BY <3>1 DEF Doing, Value, FrameRead
    <3> QED
      BY <1>1, <1>2, <1>3, <2>1, <2>4, <3>2 DEF PlanesOf
  <2> QED
    BY <2>2, <2>3, <2>4
<1> HIDE DEF Made, Has, Rank, SlotOf, LastPlane, RgbRank
<1>5. PlanesIn(n)' /\ RgbIn(n)' /\ ScaledIn(n)' /\ RawMotionIn(n)' /\ MotionIn(n)' /\ BlurredIn(n)' /\ PictureIn(n)' /\ SpanIn(n)'
  BY <1>1, <1>3, RestOfValue DEF Doing
<1> QED
  BY <1>4, <1>5 DEF Value

\* A plane is copied into the generator.
LEMMA DoneCopyIn ==
    ASSUME NEW job, NEW n, Doing(job, n), job.op = "copy_in",
           PlanesOf(tex["frame"][SlotOf(n)]), PlanesOf(tex["nv12"][SlotOf(n)])
    PROVE  Value(n)'
<1>1. job.plane \in {0, 1} /\ Rank(job) = 3 + job.plane /\ Rank(job) \in 1 .. 11 /\ Rank(job) > 2 /\ Rank(job) < 5
  BY SMTT(30) DEF Doing, Jobs, Rank
<1>2. /\ Target(job) = (IF Video THEN "nv12" ELSE "rgb")
      /\ Result(job) = IF Video THEN [tex["nv12"][SlotOf(n)] EXCEPT ![job.plane + 1] = tex["frame"][SlotOf(n)][job.plane + 1]]
                                ELSE tex["frame"][SlotOf(n)]
  BY JobWrites DEF Doing
<1>3. LastPlane' = LastPlane /\ LastPlane = (IF Video THEN 1 ELSE 0) /\ RgbRank = (IF Video THEN 5 ELSE 3) /\ (Video' <=> Video)
  BY SameInput DEF LastPlane, Doing, RgbRank
<1>4. \A r \in 1 .. 2 : Has(n, r) => Made(n, r)
  <2> HIDE DEF Made, Has, Rank
  <2> QED
    BY <1>1 DEF Doing, Before
<1>5. Has(n, 1) /\ (Video => Has(n, 2)) /\ (~Video => job.plane = 0)
  <2>1. Has(n, 1) /\ (Video => Has(n, 2))
    BY DEF Has
  <2>2. ~Video => Rank(job) # 4
    BY DEF Doing, Has
  <2> HIDE DEF Has, Rank
  <2> QED
    BY <1>1, <2>1, <2>2
<1>6. tex["frame"][SlotOf(n)][1] = n /\ (Video => tex["frame"][SlotOf(n)][2] = n)
  <2>1. \A p \in 0 .. LastPlane : Made(n, 1 + p) => tex["frame"][SlotOf(n)][p + 1] = n
    BY DEF Doing, Value, FrameRead
  <2>2. Made(n, 1 + 0) /\ (Video => Made(n, 1 + 1))
    <3> HIDE DEF Made, Has
    <3> QED
      BY <1>4, <1>5
  <2>3. tex["frame"][SlotOf(n)][0 + 1] = n
    <3> HIDE DEF Made
    <3> QED
      BY <1>3, <2>1, <2>2
  <2>4. Video => tex["frame"][SlotOf(n)][1 + 1] = n
    <3> HIDE DEF Made
    <3> QED
      BY <1>3, <2>1, <2>2
  <2> QED
    BY <2>3, <2>4
<1> HIDE DEF Made, Has, Rank, SlotOf, LastPlane, RgbRank, Video
<1>7. PlanesIn(n)'
  <2> SUFFICES ASSUME Video, NEW p \in 0 .. LastPlane, Made(n, 3 + p)' PROVE tex'["nv12"][SlotOf(n)][p + 1] = n
    BY <1>3 DEF PlanesIn
  <2>0. tex'["nv12"][SlotOf(n)] = [tex["nv12"][SlotOf(n)] EXCEPT ![job.plane + 1] = n]
    <3>1. tex["frame"][SlotOf(n)][job.plane + 1] = n
      <4>1. CASE job.plane = 0
        BY <1>6, <4>1
      <4>2. CASE job.plane = 1
        BY <1>6, <4>2
      <4> QED
        BY <1>1, <4>1, <4>2
    <3>2. tex'["nv12"][SlotOf(n)] = Result(job)
      BY <1>2 DEF Doing
    <3> QED
      BY <1>2, <3>1, <3>2
  <2>1. 3 + p \in 1 .. 11 /\ p + 1 \in 1 .. LastPlane + 1
    BY <1>3
  <2>2. Has(n, 3 + p) /\ (3 + p < 3 + job.plane \/ p = job.plane)
    BY <1>1, <1>3, <2>1 DEF Doing, After
  <2>3. CASE p = job.plane
    BY <2>0, <2>1, <2>3 DEF PlanesOf
  <2>4. CASE 3 + p < 3 + job.plane
    <3>1. Made(n, 3 + p)
      BY <1>1, <2>1, <2>2, <2>4 DEF Doing, Before
    <3>2. tex["nv12"][SlotOf(n)][p + 1] = n
      BY <3>1 DEF Doing, Value, PlanesIn
    <3> QED
      BY <1>1, <1>3, <2>0, <2>1, <2>4, <3>2 DEF PlanesOf
  <2> QED
    BY <2>2, <2>3, <2>4
<1>8. RgbIn(n)'
  <2>1. CASE Video
    BY <1>1, <1>3, <2>1, RestOfValue DEF Doing
  <2>2. CASE ~Video
    <3>1. tex'["rgb"][SlotOf(n)] = tex["frame"][SlotOf(n)]
      BY <1>2, <2>2 DEF Doing
    <3>2. tex["frame"][SlotOf(n)] = <<n>>
      BY <1>3, <1>6, <2>2 DEF PlanesOf
    <3> QED
      BY <3>1, <3>2 DEF RgbIn
  <2> QED
    BY <2>1, <2>2
<1>9. FrameRead(n)' /\ ScaledIn(n)' /\ RawMotionIn(n)' /\ MotionIn(n)' /\ BlurredIn(n)' /\ PictureIn(n)' /\ SpanIn(n)'
  BY <1>1, <1>2, RestOfValue DEF Doing
<1> QED
  BY <1>7, <1>8, <1>9 DEF Value

\* A picture is made of its two planes.
LEMMA DoneToRgb ==
    ASSUME NEW job, NEW n, Doing(job, n), job.op = "to_rgb", PlanesOf(tex["nv12"][SlotOf(n)])
    PROVE  Value(n)'
<1>1. Rank(job) = 5 /\ Target(job) = "rgb" /\ tex'["rgb"][SlotOf(n)] = Merge(tex["nv12"][SlotOf(n)])
  BY JobWrites DEF Doing, Rank
<1>2. Video
  BY <1>1 DEF Doing, Has
<1>3. LastPlane = 1 /\ RgbRank = 5
  BY <1>2 DEF LastPlane, RgbRank
<1>4. Has(n, 3) /\ Has(n, 4)
  BY <1>2 DEF Has
<1> HIDE DEF Made, Has, Rank, SlotOf, LastPlane, RgbRank, Video
<1>5. Made(n, 3) /\ Made(n, 4)
  BY <1>1, <1>4 DEF Doing, Before
<1>6. tex["nv12"][SlotOf(n)][1] = n /\ tex["nv12"][SlotOf(n)][2] = n
  <2>1. \A p \in 0 .. LastPlane : Made(n, 3 + p) => tex["nv12"][SlotOf(n)][p + 1] = n
    BY <1>2 DEF Doing, Value, PlanesIn
  <2>2. Made(n, 3 + 0) /\ Made(n, 3 + 1)
    BY <1>5
  <2>3. tex["nv12"][SlotOf(n)][0 + 1] = n
    BY <1>3, <2>1, <2>2
  <2>4. tex["nv12"][SlotOf(n)][1 + 1] = n
    BY <1>3, <2>1, <2>2
  <2> QED
    BY <2>3, <2>4
<1>7. Merge(tex["nv12"][SlotOf(n)]) = <<n>>
  <2>1. DOMAIN tex["nv12"][SlotOf(n)] = 1 .. 2
    BY <1>3 DEF PlanesOf
  <2>2. \A p \in DOMAIN tex["nv12"][SlotOf(n)] : tex["nv12"][SlotOf(n)][p] = tex["nv12"][SlotOf(n)][1]
    BY <1>6, <2>1
  <2> QED
    BY <1>6, <2>2 DEF Merge
<1>8. RgbIn(n)'
  BY <1>1, <1>7 DEF RgbIn
<1>9. FrameRead(n)' /\ PlanesIn(n)' /\ ScaledIn(n)' /\ RawMotionIn(n)' /\ MotionIn(n)' /\ BlurredIn(n)' /\ PictureIn(n)' /\ SpanIn(n)'
  BY <1>1, RestOfValue DEF Doing
<1> QED
  BY Zenon, <1>8, <1>9 DEF Value

\* Two sequences of one element, joined.
LEMMA JoinOne == ASSUME NEW S, NEW a \in S, NEW b \in S
    PROVE  <<a>> \o <<b>> = <<a, b>>
<1> DEFINE x == <<a>> \o <<b>>
           y == <<a, b>>
<1>1. <<a>> \in Seq(S) /\ <<b>> \in Seq(S) /\ y \in Seq(S) /\ Len(<<a>>) = 1 /\ Len(<<b>>) = 1 /\ Len(y) = 2
  OBVIOUS
<1>2. Len(x) = 2 /\ x \in Seq(S)
  BY <1>1, ConcatProperties
<1>3. x[1] = y[1] /\ x[2] = y[2]
  BY <1>1, ConcatProperties
<1> HIDE DEF x, y
<1>4. x = y
  <2>1. \A n \in 1 .. Len(x) : x[n] = y[n]
    BY <1>2, <1>3
  <2> QED
   BY <1>1, <1>2, <2>1, SeqEqual
<1> QED BY <1>4 DEF x, y

\* The same with one more.
LEMMA JoinTwo == ASSUME NEW S, NEW a \in S, NEW b \in S, NEW c \in S
    PROVE  <<a, b>> \o <<c>> = <<a, b, c>>
<1> DEFINE x == <<a, b>> \o <<c>>
           y == <<a, b, c>>
<1>1. <<a, b>> \in Seq(S) /\ <<c>> \in Seq(S) /\ y \in Seq(S) /\ Len(<<a, b>>) = 2 /\ Len(<<c>>) = 1 /\ Len(y) = 3
  OBVIOUS
<1>2. Len(x) = 3 /\ x \in Seq(S)
  BY <1>1, ConcatProperties
<1>3. x[1] = y[1] /\ x[2] = y[2] /\ x[3] = y[3]
  BY <1>1, ConcatProperties
<1> HIDE DEF x, y
<1>4. x = y
  <2>1. \A n \in 1 .. Len(x) : x[n] = y[n]
    BY <1>2, <1>3
  <2> QED
   BY <1>1, <1>2, <2>1, SeqEqual
<1> QED BY <1>4 DEF x, y

\* A timespan is a number.
LEMMA SpanTypes == ASSUME NEW n \in Nat, NEW t \in Spans(n) PROVE t \in Nat
  BY DEF Spans, Stream!Timespan

\* What the later passes of a frame find of the first ones.
LEMMA ScaleRanks ==
    ASSUME NEW n, NEW k \in 6 .. 11, Before(n, k), Value(n)
    PROVE  /\ tex["rgb"][SlotOf(n)] = <<n>>
           /\ k > 6 => tex["scaled"][SlotOf(n)] = <<n>>
<1>1. RgbRank \in 1 .. 11 /\ RgbRank < k /\ Has(n, RgbRank) /\ Has(n, 6)
  BY DEF RgbRank, Has
<1> HIDE DEF RgbRank, Has, Made, SlotOf
<1>2. Made(n, RgbRank)
  BY <1>1 DEF Before
<1>3. k > 6 => Made(n, 6)
  BY <1>1 DEF Before
<1> QED
  BY <1>2, <1>3 DEF Value, RgbIn, ScaledIn

\* A picture is scaled.
LEMMA DoneToNv12 ==
    ASSUME NEW job, NEW n, Doing(job, n), job.op = "to_nv12"
    PROVE  Value(n)'
<1>1. Rank(job) = 6 /\ Target(job) = "scaled" /\ tex'["scaled"][SlotOf(n)] = tex["rgb"][SlotOf(n)]
  BY JobWrites DEF Doing, Rank
<1> HIDE DEF Made, Has, Rank, SlotOf, RgbRank
<1>2. ScaledIn(n)'
  BY <1>1, ScaleRanks DEF Doing, ScaledIn
<1>3. FrameRead(n)' /\ PlanesIn(n)' /\ RgbIn(n)' /\ RawMotionIn(n)' /\ MotionIn(n)' /\ BlurredIn(n)' /\ PictureIn(n)' /\ SpanIn(n)'
  <2>1. RgbRank < 6 /\ RgbRank \in {3, 5}
    BY DEF RgbRank
  <2> QED
    BY <1>1, <2>1, RestOfValue DEF Doing
<1> QED
  BY Zenon, <1>2, <1>3 DEF Value

\* The motion is estimated, from the scaled pictures of the frame and of the one before.
LEMMA DoneEstimate ==
    ASSUME NEW job, NEW n, Doing(job, n), job.op = "estimate"
    PROVE  Value(n)'
<1>1. Rank(job) = 7 /\ Target(job) = "raw_mv" /\ RgbRank \in {3, 5}
      /\ tex'["raw_mv"][SlotOf(n)] = tex["scaled"][Gpu!PrevSlot(SlotOf(n))] \o tex["scaled"][SlotOf(n)]
  BY JobWrites DEF Doing, Rank, RgbRank
<1> HIDE DEF Made, Has, Rank, SlotOf, RgbRank
<1>2. tex'["raw_mv"][SlotOf(n)] = <<n - 1>> \o <<n>>
  <2>1. tex["scaled"][SlotOf(n)] = <<n>>
    BY <1>1, ScaleRanks DEF Doing
  <2>2. tex["scaled"][Gpu!PrevSlot(SlotOf(n))] = <<n - 1>>
    BY DEF Doing
  <2> QED
    BY <1>1, <2>1, <2>2
<1>3. RawMotionIn(n)'
  <2> DEFINE p == n - 1
  <2>1. p \in Int /\ n \in Int
    BY DEF Doing
  <2> HIDE DEF p
  <2>2. <<p>> \o <<n>> = <<p, n>>
    BY <2>1, JoinOne
  <2> QED
    BY <1>2, <2>2 DEF RawMotionIn, p
<1>4. FrameRead(n)' /\ PlanesIn(n)' /\ RgbIn(n)' /\ ScaledIn(n)' /\ MotionIn(n)' /\ BlurredIn(n)' /\ PictureIn(n)' /\ SpanIn(n)'
  BY <1>1, RestOfValue DEF Doing
<1> QED
  BY ZenonT(40), <1>3, <1>4 DEF Value

\* The first frame is copied as it is.
LEMMA DoneCopyOut ==
    ASSUME NEW job, NEW n, Doing(job, n), job.op = "copy_out"
    PROVE  Value(n)'
<1>1. Rank(job) = 8 /\ Target(job) = "blurred" /\ RgbRank \in {3, 5} /\ n = 1
      /\ tex'["blurred"][SlotOf(n)] = tex["rgb"][SlotOf(n)]
  BY JobWrites DEF Doing, Rank, RgbRank
<1> HIDE DEF Made, Has, Rank, SlotOf, RgbRank
<1>2. tex'["blurred"][SlotOf(n)] = <<n>>
  BY <1>1, ScaleRanks DEF Doing
<1>3. BlurredIn(n)'
  <2>1. ~Made(n, 9)' /\ ~Made(n, 10)'
    BY <1>1 DEF Doing, After
  <2> QED
    BY <1>2, <2>1 DEF BlurredIn
<1>4. MotionIn(n)'
  BY <1>1 DEF MotionIn
<1>5. FrameRead(n)' /\ PlanesIn(n)' /\ RgbIn(n)' /\ ScaledIn(n)' /\ RawMotionIn(n)' /\ PictureIn(n)' /\ SpanIn(n)'
  BY <1>1, RestOfValue DEF Doing
<1> QED
  BY Zenon, <1>3, <1>4, <1>5 DEF Value

\* The motion is propagated, over the timespan that the GPU finds.
LEMMA DonePropagate ==
    ASSUME NEW job, NEW n, Doing(job, n), job.op = "propagate"
    PROVE  Value(n)'
<1>1. Rank(job) = 8 /\ Target(job) = "mv" /\ RgbRank \in {3, 5} /\ n > 1 /\ cb \in Spans(n)
      /\ tex'["mv"][SlotOf(n)] = tex["raw_mv"][SlotOf(n)] \o <<cb>>
  BY JobWrites DEF Doing, Rank, RgbRank
<1>2. Spans(n)' = Spans(n)
  BY SpansKept DEF Doing
<1>3. Has(n, 7)
  BY <1>1 DEF Has
<1> HIDE DEF Made, Has, Rank, SlotOf, RgbRank, Spans
<1>4. tex["raw_mv"][SlotOf(n)] = <<n - 1, n>>
  <2>1. Made(n, 7)
    BY <1>1, <1>3 DEF Doing, Before
  <2> QED
    BY <2>1 DEF Doing, Value, RawMotionIn
<1>5. tex'["mv"][SlotOf(n)] = Motion(n, cb)
  <2> DEFINE p == n - 1
  <2>1. p \in Int /\ n \in Int /\ cb \in Int
    BY SpanTypes DEF Doing
  <2> HIDE DEF p
  <2>2. <<p, n>> \o <<cb>> = <<p, n, cb>>
    BY <2>1, JoinTwo
  <2> QED
    BY <1>1, <1>4, <2>2 DEF Motion, p
<1>6. MotionIn(n)'
  BY <1>1, <1>2, <1>5 DEF MotionIn, Motion
<1>7. FrameRead(n)' /\ PlanesIn(n)' /\ RgbIn(n)' /\ ScaledIn(n)' /\ RawMotionIn(n)' /\ BlurredIn(n)' /\ PictureIn(n)' /\ SpanIn(n)'
  BY <1>1, RestOfValue DEF Doing
<1> QED
  BY Zenon, <1>6, <1>7 DEF Value

\* The picture is blurred, or the motion drawn over it.
LEMMA DoneBlur ==
    ASSUME NEW job, NEW n, Doing(job, n), job.op \in {"gather", "overlay"}
    PROVE  Value(n)'
<1>1. Rank(job) = (IF job.op = "gather" THEN 9 ELSE 10) /\ Target(job) = "blurred" /\ RgbRank \in {3, 5}
      /\ tex'["blurred"][SlotOf(n)] = IF job.op = "gather" THEN tex["rgb"][SlotOf(n)] \o tex["mv"][SlotOf(n)]
                                      ELSE tex["blurred"][SlotOf(n)] \o tex["mv"][SlotOf(n)]
  BY JobWrites DEF Doing, Rank, RgbRank
<1>2. n > 1
  BY <1>1 DEF Doing, Has
<1>3. Has(n, 9)
  BY <1>2 DEF Has
<1> HIDE DEF Made, Has, Rank, SlotOf, RgbRank
<1>4. tex'["mv"][SlotOf(n)] = tex["mv"][SlotOf(n)]
  BY <1>1 DEF Doing, OnlyWrites, TexNames
<1>5. BlurredIn(n)'
  <2>1. CASE job.op = "gather"
    <3>1. ~Made(n, 10)'
      BY <1>1, <2>1 DEF Doing, After
    <3>2. tex["rgb"][SlotOf(n)] = <<n>>
      BY <1>1, <2>1, ScaleRanks DEF Doing
    <3> QED
      BY <1>1, <1>2, <1>4, <2>1, <3>1, <3>2 DEF BlurredIn
  <2>2. CASE job.op = "overlay"
    <3>1. Made(n, 9) /\ ~Made(n, 10)
      BY <1>1, <1>3, <2>2 DEF Doing, Before
    <3>2. tex["blurred"][SlotOf(n)] = <<n>> \o tex["mv"][SlotOf(n)]
      BY <3>1 DEF Doing, Value, BlurredIn
    <3>3. Made(n, 10)'
      BY <1>1, <2>2 DEF Doing, After
    <3> QED
      BY <1>1, <1>2, <1>4, <2>2, <3>2, <3>3 DEF BlurredIn
  <2> QED
    BY <2>1, <2>2
<1>6. FrameRead(n)' /\ PlanesIn(n)' /\ RgbIn(n)' /\ ScaledIn(n)' /\ RawMotionIn(n)' /\ MotionIn(n)' /\ PictureIn(n)' /\ SpanIn(n)'
  BY <1>1, RestOfValue DEF Doing
<1> QED
  BY ZenonT(40), <1>5, <1>6 DEF Value

\* The picture is read back.
LEMMA DoneReadback ==
    ASSUME NEW job, NEW n, Doing(job, n), job.op = "readback"
    PROVE  Value(n)'
<1>1. Rank(job) = 11 /\ Target(job) = "memory" /\ RgbRank \in {3, 5}
      /\ tex'["memory"][SlotOf(n)] = tex["blurred"][SlotOf(n)]
  BY JobWrites DEF Doing, Rank, RgbRank
<1>2. /\ n = 1 => Has(n, 8)
      /\ n > 1 => Has(n, 8) /\ Has(n, 9) /\ (Has(n, 10) <=> input.overlay)
      /\ n = 1 \/ n > 1
      /\ Pictures(n)' = Pictures(n)
  BY SpansKept DEF Has, Doing
<1> HIDE DEF Made, Has, Rank, SlotOf, RgbRank, Spans
<1>3. tex["blurred"][SlotOf(n)] \in Pictures(n)
  <2>1. CASE n = 1
    <3>1. Made(n, 8)
      BY <1>1, <1>2, <2>1 DEF Doing, Before
    <3>2. tex["blurred"][SlotOf(n)] = <<n>>
      BY <2>1, <3>1 DEF Doing, Value, BlurredIn
    <3>3. Stream!Timespan(n) \in Spans(n)
      BY DEF Spans
    <3> QED
      BY <2>1, <3>2, <3>3 DEF Pictures, PictureOver
  <2>2. CASE n > 1
    <3>1. Made(n, 8) /\ Made(n, 9) /\ (Made(n, 10) <=> input.overlay)
      BY <1>1, <1>2, <2>2 DEF Doing, Before
    <3>2. PICK t \in Spans(n) : tex["mv"][SlotOf(n)] = Motion(n, t)
      BY <2>2, <3>1 DEF Doing, Value, MotionIn
    <3>3. PictureOver(n, t) = <<n>> \o Motion(n, t) \o (IF input.overlay THEN Motion(n, t) ELSE <<>>)
      <4>1. n # 1
        BY <2>2
      <4> QED
        BY <4>1, Zenon DEF PictureOver
    <3>4. CASE input.overlay
      BY <3>1, <3>2, <3>3, <3>4 DEF Doing, Value, BlurredIn, Pictures
    <3>5. CASE ~input.overlay
      <4>1. tex["blurred"][SlotOf(n)] = <<n>> \o Motion(n, t)
        BY <3>1, <3>2, <3>5 DEF Doing, Value, BlurredIn
      <4>2. <<n>> \o Motion(n, t) \o <<>> = <<n>> \o Motion(n, t)
        <5>1. Motion(n, t) \in Seq(Int) /\ <<n>> \in Seq(Int)
          BY SpanTypes DEF Motion, Doing
        <5>2. <<n>> \o Motion(n, t) \in Seq(Int)
          BY <5>1, ConcatProperties
        <5> QED
          BY <5>2, ConcatEmptySeq
      <4> QED
        BY <3>3, <3>5, <4>1, <4>2 DEF Pictures
    <3> QED
      BY <3>4, <3>5
  <2> QED
    BY <1>2, <2>1, <2>2
<1>4. PictureIn(n)'
  BY <1>1, <1>2, <1>3 DEF PictureIn
<1>5. FrameRead(n)' /\ PlanesIn(n)' /\ RgbIn(n)' /\ ScaledIn(n)' /\ RawMotionIn(n)' /\ MotionIn(n)' /\ BlurredIn(n)' /\ SpanIn(n)'
  BY <1>1, RestOfValue DEF Doing
<1> QED
  BY Zenon, <1>4, <1>5 DEF Value

(****************************************************************************)
(* The textures keep their kinds                                             *)
(****************************************************************************)

\* What is joined of content is content, and planes are.
LEMMA ContentFacts ==
    /\ \A a \in Content, b \in Content : a \o b \in Content
    /\ \A t \in Nat : <<t>> \in Content
    /\ \A f : PlanesOf(f) => f \in Content /\ Merge(f) \in Content
<1>1. \A a \in Content, b \in Content : a \o b \in Content
  BY ConcatProperties DEF Content
<1>2. \A t \in Nat : <<t>> \in Content
  BY DEF Content
<1>3. ASSUME NEW f, PlanesOf(f) PROVE f \in Content /\ Merge(f) \in Content
  <2>1. LastPlane + 1 \in Nat /\ 1 \in 1 .. LastPlane + 1
    BY DEF LastPlane
  <2>2. f \in Content
    BY <1>3, <2>1 DEF Content, PlanesOf
  <2>3. f[1] \in Nat
    BY <1>3, <2>1 DEF PlanesOf
  <2>4. <<f[1]>> \in Content
    BY <1>2, <2>3
  <2>5. Merge(f) = <<f[1]>> \/ Merge(f) = f
    BY Zenon DEF Merge
  <2> QED
    BY <2>2, <2>4, <2>5
<1> QED
  BY <1>1, <1>2, <1>3

\* What a job writes is of the kind of texture that it writes.
LEMMA ResultTypes ==
    ASSUME TexInv, NEW job \in Jobs
    PROVE  /\ Target(job) \in TexNames /\ Result(job) \in Content
           /\ Target(job) \in {"frame", "nv12"} => PlanesOf(Result(job))
<1>1. job.slot \in 0 .. FrameCount - 1 /\ Gpu!PrevSlot(job.slot) \in 0 .. FrameCount - 1
  BY SlotNumbers DEF Jobs, Gpu!PrevSlot
<1>2. \A name \in TexNames : tex[name][job.slot] \in Content /\ tex[name][Gpu!PrevSlot(job.slot)] \in Content
  BY Zenon, <1>1 DEF TexInv, TexTypes
<1>3. PlanesOf(tex["frame"][job.slot]) /\ PlanesOf(tex["nv12"][job.slot])
  BY Zenon, <1>1 DEF TexInv, TexTypes, PlanesOf
<1>4. job.op = "read" => PlanesOf([tex["frame"][job.slot] EXCEPT ![job.plane + 1] = job.frame])
  <2>1. job.op = "read" => job.frame \in Nat
    BY DEF Jobs
  <2> QED
    BY <1>3, <2>1 DEF PlanesOf
<1>5. job.op = "copy_in" /\ Video =>
        PlanesOf([tex["nv12"][job.slot] EXCEPT ![job.plane + 1] = tex["frame"][job.slot][job.plane + 1]])
  <2>1. job.op = "copy_in" /\ Video => job.plane + 1 \in 1 .. LastPlane + 1
    BY DEF Jobs, LastPlane
  <2> QED
    BY <1>3, <2>1 DEF PlanesOf
<1>6. \/ job.op = "read" \/ job.op = "copy_in" \/ job.op = "to_rgb" \/ job.op = "to_nv12" \/ job.op = "estimate"
      \/ job.op = "copy_out" \/ job.op = "propagate" \/ job.op = "gather" \/ job.op = "overlay" \/ job.op = "readback"
  BY DEF Jobs
<1>7. cb \in Nat
  BY Zenon DEF TexInv
<1> HIDE DEF Content, PlanesOf
<1>8. CASE job.op = "read"
  BY <1>4, <1>8, JobWrites, ContentFacts DEF TexNames
<1>9. CASE job.op = "copy_in"
  <2>1. CASE Video
    BY <1>5, <1>9, <2>1, JobWrites, ContentFacts DEF TexNames
  <2>2. CASE ~Video
    BY <1>2, <1>9, <2>2, JobWrites DEF TexNames
  <2> QED
    BY <2>1, <2>2
<1>10. CASE job.op \in {"to_rgb", "to_nv12", "copy_out", "readback"}
  BY <1>2, <1>3, <1>10, JobWrites, ContentFacts DEF TexNames
<1>11. CASE job.op \in {"estimate", "gather", "overlay"}
  BY <1>2, <1>11, JobWrites, ContentFacts DEF TexNames
<1>12. CASE job.op = "propagate"
  BY <1>2, <1>7, <1>12, JobWrites, ContentFacts DEF TexNames
<1> QED
  BY <1>6, <1>8, <1>9, <1>10, <1>11, <1>12

\* Writing content of the right kind keeps textures what they are.
LEMMA WriteTypes ==
    ASSUME TexTypes, input' = input, NEW name \in TexNames, NEW s \in 0 .. FrameCount - 1, NEW c \in Content,
           name \in {"frame", "nv12"} => PlanesOf(c), Writes(name, s, c)
    PROVE  TexTypes'
<1>1. LastPlane' = LastPlane
  BY SameInput
<1>2. /\ tex'[name][s] = c
      /\ \A other \in TexNames : other # name => tex'[other] = tex[other]
      /\ \A t \in 0 .. FrameCount - 1 : t # s => tex'[name][t] = tex[name][t]
      /\ tex' = [other \in TexNames |-> [t \in 0 .. FrameCount - 1 |-> tex'[other][t]]]
  BY TexWrite
<1>3. \A other \in TexNames, t \in 0 .. FrameCount - 1 :
         \/ tex'[other][t] = tex[other][t]
         \/ other = name /\ tex'[other][t] = c
  BY <1>2
<1>4. \A other \in TexNames, t \in 0 .. FrameCount - 1 : tex'[other][t] \in Content
  BY <1>3 DEF TexTypes
<1>5. \A other \in {"frame", "nv12"}, t \in 0 .. FrameCount - 1 : tex'[other][t] \in [1 .. LastPlane + 1 -> Nat]
  <2>1. {"frame", "nv12"} \subseteq TexNames
    BY DEF TexNames
  <2> QED
    BY <1>3, <2>1 DEF TexTypes, PlanesOf
<1> QED
  BY <1>1, <1>2, <1>4, <1>5 DEF TexTypes

\* The texture that changes when the GPU runs a job.
LEMMA RunWrites ==
    ASSUME ProgramInv, CallInv, NEW q \in {0, 1}, GpuRuns(q), IsReal(queue[q][1])
    PROVE  Writes(Target(queue[q][1].job), queue[q][1].job.slot, Result(queue[q][1].job))
<1>1. Gpu!GpuStep(q)
  BY DEF GpuRuns
<1>2. queue[q] # <<>> /\ queue[q] \in Seq(Known!Entry)
  BY <1>1, GpuEffect, GpuTypes
<1>3. Head(queue[q]) = queue[q][1]
  BY <1>2
<1> QED
  BY <1>3, Zenon DEF GpuRuns, IsReal, Writes

\* Every step keeps the textures what they are.
LEMMA TexStep ==
    ASSUME ControlInv, ProgramInv, CallInv, HalvesInv, NextInv, TexInv, [Next]_vars
    PROVE  TexInv'
<1>1. CASE Quiet
  <2>1. tex' = tex /\ input' = input
    BY <1>1 DEF Quiet, QuietStep, Steady
  <2>2. cb' \in Nat
    <3>1. SetTimespan => cb' \in Nat
      BY FrameNumbers DEF SetTimespan, Stream!Timespan, ControlInv
    <3> QED
      BY <1>1, <3>1 DEF Quiet, TexInv
  <2> QED
    BY <2>1, <2>2, SameInput DEF TexInv, TexTypes
<1>2. CASE JobSubmitted
  BY <1>2, SameInput DEF TexInv, TexTypes, JobSubmitted, Issues, Steady
<1>3. CASE ReadFrame /\ curr_frame < input.frames
  <2>1. input' = input /\ cb' = cb /\ (tex' = tex \/ Writes("frame", Slot, Blank))
    BY <1>3 DEF ReadFrame, Writes
  <2>2. Slot \in 0 .. FrameCount - 1
    BY GpuTypes DEF Slot
  <2>3. PlanesOf(Blank) /\ Blank \in Content
    <3>1. PlanesOf(Blank)
      BY DEF PlanesOf, Blank
    <3> QED
      BY <3>1, ContentFacts
  <2>4. CASE tex' = tex
    BY <2>1, <2>4, SameInput DEF TexInv, TexTypes
  <2>5. CASE Writes("frame", Slot, Blank)
    <3>1. "frame" \in TexNames
      BY DEF TexNames
    <3> HIDE DEF Blank, Slot
    <3>2. TexTypes'
      BY <2>1, <2>2, <2>3, <2>5, <3>1, WriteTypes DEF TexInv
    <3> QED
      BY <2>1, <3>2 DEF TexInv
  <2> QED
    BY <2>1, <2>4, <2>5
<1>4. CASE SaveTexture
  BY <1>4, SameInput DEF TexInv, TexTypes, SaveTexture
<1>5. CASE JobRun
  <2>1. PICK q \in {0, 1} : GpuRuns(q) /\ IsReal(queue[q][1])
    BY <1>5 DEF JobRun
  <2> DEFINE job == queue[q][1].job
  <2>2. job \in Jobs
    <3>1. job \in Undone
      BY <2>1, GpuHalves DEF GpuRuns
    <3> QED
      BY <3>1, UndoneJobs
  <2>3. Writes(Target(job), job.slot, Result(job))
    BY <2>1, RunWrites
  <2>4. input' = input /\ cb' = cb
    BY <2>1 DEF GpuRuns, main_vars
  <2> HIDE DEF job
  <2>5. job.slot \in 0 .. FrameCount - 1
    BY <2>2 DEF Jobs
  <2>6. TexTypes'
    <3> DEFINE name == Target(job)
               c == Result(job)
    <3>1. /\ name \in TexNames /\ c \in Content
          /\ name \in {"frame", "nv12"} => PlanesOf(c)
      BY <2>2, ResultTypes
    <3> HIDE DEF name, c
    <3> QED
      BY <2>3, <2>4, <2>5, <3>1, WriteTypes DEF TexInv, name, c
  <2> QED
    BY <2>4, <2>6 DEF TexInv
<1> HIDE DEF Quiet
<1> QED
  BY <1>1, <1>2, <1>3, <1>4, <1>5, StepKinds

(****************************************************************************)
(* Every step keeps what the textures hold                                   *)
(****************************************************************************)

\* A job that the GPU comes to finds what the passes before it gave.
LEMMA RunDoes ==
    ASSUME BaseInv, InOrder, ValueInv, TexInv, NEW job, NEW frame, HeadOf(job, frame),
           \A r : Pend(frame, r)' => Pend(frame, r),
           \A r \in 1 .. 11 : Made(frame, r)' <=> Made(frame, r) \/ r = Rank(job),
           input' = input, cb' = cb, Writes(Target(job), job.slot, Result(job))
    PROVE  Doing(job, frame)
<1>1. /\ \A r \in 1 .. 11 : Made(frame, r) <=> Has(frame, r) /\ r < Rank(job)
      /\ Pend(frame, Rank(job)) /\ Has(frame, Rank(job)) /\ Rank(job) \in 1 .. 11
      /\ job.op = "estimate" => frame - 1 \in Window /\ Made(frame - 1, 6)
  BY RunFacts
<1>2. /\ job \in Jobs /\ job.slot = SlotOf(frame) /\ frame \in Window
      /\ job.op = "read" => job.frame = frame
      /\ job.op = "copy_out" => frame = 1
      /\ job.op = "propagate" => frame > 1
  BY DEF HeadOf, Of
<1>3. frame \in Nat \ {0} /\ SlotOf(frame) \in 0 .. FrameCount - 1 /\ Value(frame)
  BY <1>2, WindowSlots DEF BaseInv, ValueInv
<1>4. job.op = "propagate" => cb \in Spans(frame)
  <2>1. job.op = "propagate" => Rank(job) = 8
    BY DEF Rank
  <2> HIDE DEF Rank, Pend
  <2> QED
    BY <1>1, <1>2, <1>3, <2>1 DEF Value, SpanIn
<1>5. job.op = "estimate" => tex["scaled"][Gpu!PrevSlot(job.slot)] = <<frame - 1>>
  <2> SUFFICES ASSUME job.op = "estimate" PROVE tex["scaled"][Gpu!PrevSlot(job.slot)] = <<frame - 1>>
    OBVIOUS
  <2> DEFINE p == frame - 1
  <2>1. p \in Window /\ Made(p, 6)
    BY <1>1
  <2>2. p \in Nat \ {0} /\ frame = p + 1
    <3>1. p \in Nat \ {0}
      BY <2>1, WindowSlots DEF BaseInv
    <3> QED
      BY <1>3, <3>1
  <2> HIDE DEF p
  <2>3. SlotOf(p) = Gpu!PrevSlot(SlotOf(p + 1))
    BY <2>2, SlotOfFrame
  <2>4. tex["scaled"][SlotOf(p)] = <<p>>
    <3> HIDE DEF Made
    <3> QED
      BY <2>1 DEF ValueInv, Value, ScaledIn
  <2>5. tex["scaled"][Gpu!PrevSlot(job.slot)] = <<p>>
    BY <1>2, <2>2, <2>3, <2>4
  <2> QED
    BY <2>5 DEF p
<1>6. Before(frame, Rank(job)) /\ After(frame, Rank(job))
  <2> HIDE DEF Made, Has, Rank
  <2> QED
    BY <1>1 DEF Before, After
<1>7. tex'[Target(job)][SlotOf(frame)] = Result(job) /\ OnlyWrites(Target(job), frame)
  <2> DEFINE name == Target(job)
             c == Result(job)
             s == SlotOf(frame)
  <2>1. name \in TexNames /\ Writes(name, s, c) /\ s \in 0 .. FrameCount - 1 /\ TexTypes
    BY <1>2, <1>3, ResultTypes DEF TexInv
  <2> HIDE DEF name, c, s
  <2>2. /\ tex'[name][s] = c
        /\ \A other \in TexNames : other # name => tex'[other] = tex[other]
    BY <2>1, TexWrite
  <2> QED
    BY <2>2 DEF name, c, s, OnlyWrites
<1> HIDE DEF Rank, Pend, Made, Has
<1> QED
  BY <1>1, <1>2, <1>3, <1>4, <1>5, <1>6, <1>7 DEF Doing

\* Whatever the job, the textures then hold what its pass gives.
LEMMA DoingDone ==
    ASSUME TexInv, NEW job, NEW n, Doing(job, n), SlotOf(n) \in 0 .. FrameCount - 1
    PROVE  Value(n)'
<1>1. PlanesOf(tex["frame"][SlotOf(n)]) /\ PlanesOf(tex["nv12"][SlotOf(n)])
  BY Zenon DEF TexInv, TexTypes, PlanesOf
<1>2. \/ job.op = "read" \/ job.op = "copy_in" \/ job.op = "to_rgb" \/ job.op = "to_nv12" \/ job.op = "estimate"
      \/ job.op = "copy_out" \/ job.op = "propagate" \/ job.op \in {"gather", "overlay"} \/ job.op = "readback"
  BY DEF Doing, Jobs
<1> QED
  BY <1>1, <1>2, DoneRead, DoneCopyIn, DoneToRgb, DoneToNv12, DoneEstimate, DoneCopyOut, DonePropagate,
     DoneBlur, DoneReadback

\* The CPU comes to the propagation from the timespan alone.
LEMMA PropagateFrom ==
    ASSUME [Next]_vars, pc' = "propagate"
    PROVE  SetTimespan \/ (pc = "propagate" /\ UNCHANGED <<cb, curr_frame, input>>)
<1>1. CASE UNCHANGED vars
  BY <1>1 DEF vars, main_vars
<1>2. CASE pc = "propagate" /\ UNCHANGED main_vars
  BY <1>2 DEF main_vars
<1>3. CASE SetTimespan
  BY <1>3
<1>4. CASE \/ \E q \in Gpu!CmdQueues : CreateCommandList(q)
           \/ GpuCall
           \/ \E q \in Gpu!CmdQueues : GpuRuns(q)
           \/ \E k \in DOMAIN writer : WriteFile(k)
  BY <1>4 DEF CreateCommandList, GpuCall, GpuRuns, WriteFile, main_vars
<1>5. CASE \/ ReadFrame \/ SkipRead \/ Upload \/ VideoRead
           \/ AddFrame \/ CopyIn \/ ConvertToRgb \/ ConvertToNv12 \/ CopyOut
           \/ EstimateMotionVectors \/ PropagateMotionBlur \/ GatherMotionBlur
           \/ OverlayMotionVector
           \/ Move
           \/ PollThreads \/ Readback \/ ReadbackWait \/ SaveTexture \/ LoopEnd
           \/ JoinThreads \/ FinalWait \/ UploadRandomTex
  BY <1>5 DEF UploadRandomTex, ReadFrame, SkipRead, Upload, VideoRead, CopyPlane, ExecuteEmpty, AddFrame,
     CopyIn, ConvertToRgb,
              ConvertToNv12, CopyOut, EstimateMotionVectors, PropagateMotionBlur, GatherMotionBlur,
              OverlayMotionVector, Pass, Move, PollThreads, Readback, ReadbackWait, SaveTexture, LoopEnd,
              LoopEndsAt, JoinThreads, FinalWait, Goto
<1> QED
  BY <1>1, <1>3, <1>4, <1>5 DEF Next, Main

\* The timespan that the CPU writes is one of each frame whose propagation is pending: its
\* own, or that of a later frame while no frame has been saved.
LEMMA SpanSet ==
    ASSUME BaseInv, ValueInv, SetTimespan, NEW n \in Window, n > 1, Pend(n, 8)
    PROVE  cb' \in Spans(n)
<1>1. cb' = Stream!Timespan(curr_frame) /\ pc = "timespan"
  BY DEF SetTimespan
<1>2. /\ n \in Nat \ {0} /\ n <= curr_frame /\ curr_frame \in Nat /\ FrameCount \in Nat
      /\ saved = <<>> => curr_frame <= FrameCount
  <2>1. pc \in Body
    BY <1>1 DEF Body
  <2> QED
    BY <2>1, WindowFacts, WindowSlots, SlotNumbers DEF BaseInv, Window
<1>3. PICK job \in Undone : job.slot = SlotOf(n) /\ Rank(job) = 8
  BY DEF Pend
<1>4. Of(job, n) /\ job.op # "readback"
  <2>1. job.op # "readback"
    BY <1>3 DEF Rank
  <2> QED
    BY <1>3, <2>1, OwnerOf DEF BaseInv
<1>5. n = curr_frame \/ saved = <<>>
  BY <1>4 DEF Of
<1> QED
  BY <1>1, <1>2, <1>5 DEF Spans

\* Every step keeps what the textures hold.
LEMMA ValueStep ==
    ASSUME BaseInv, InOrder, ValueInv, TexInv, [Next]_vars
    PROVE  ValueInv'
<1>1. pc' = "propagate" => cb' = Stream!Timespan(curr_frame)'
  <2>1. pc' = "propagate" => \/ cb' = Stream!Timespan(curr_frame) /\ UNCHANGED <<input, curr_frame>>
                             \/ pc = "propagate" /\ UNCHANGED <<cb, curr_frame, input>>
    BY PropagateFrom DEF SetTimespan
  <2> QED
    BY <2>1 DEF ValueInv, Stream!Timespan
<1> SUFFICES ASSUME NEW n \in Window' PROVE Value(n)'
  BY <1>1 DEF ValueInv
<1>2. CASE Quiet
  <2> HIDE DEF Made, Pend
  <2>1. /\ Window' = Window
        /\ \A m, r : Pend(m, r)' <=> Pend(m, r)
        /\ \A m \in Window, r \in 1 .. 11 : Made(m, r)' <=> Made(m, r)
    BY <1>2, QuietRun
  <2>2. tex' = tex /\ input' = input /\ (cb' = cb \/ SetTimespan)
    BY <1>2 DEF Quiet, QuietStep, Steady
  <2>3. n \in Window /\ Value(n)
    BY <2>1 DEF ValueInv
  <2>4. n > 1 /\ Pend(n, 8)' => cb' \in Spans(n)
    BY <2>1, <2>2, <2>3, SpanSet DEF Value, SpanIn
  <2>5. \A r \in 1 .. 10 : Made(n, r)' <=> Made(n, r)
    BY <2>1, <2>3
  <2>6. Made(n, 11)' => Made(n, 11)
    BY <2>1, <2>3
  <2> QED
    BY <2>2, <2>3, <2>4, <2>5, <2>6, ValueKept
<1>3. CASE JobSubmitted
  <2>1. PICK q \in {0, 1}, v \in Nat, job \in Jobs, frame \in Window : Issues(q, v, job, frame)
    BY <1>3 DEF JobSubmitted
  <2>2. /\ Window' = Window
        /\ \A m \in Window : \A r : Pend(m, r)' <=> Pend(m, r) \/ (m = frame /\ r = Rank(job))
        /\ \A m \in Window, r \in 1 .. 11 : Made(m, r)' <=> Made(m, r)
    BY <2>1, IssueStep
  <2>3. tex' = tex /\ input' = input /\ cb' = cb /\ Turn(job, frame) /\ (job.op = "propagate" => pc = "propagate")
    BY <2>1 DEF Issues, Steady
  <2>4. n \in Window /\ Value(n)
    BY <2>2 DEF ValueInv
  <2>5. n > 1 /\ Pend(n, 8)' => cb' \in Spans(n)
    <3>1. CASE Pend(n, 8)
      <4> HIDE DEF Pend
      <4> QED
        BY <2>3, <2>4, <3>1 DEF Value, SpanIn
    <3>2. ASSUME n > 1, n = frame, Rank(job) = 8 PROVE cb \in Spans(n)
      <4>1. job.op = "propagate"
        <5>1. job.op # "copy_out"
          BY <2>3, <3>2 DEF Turn
        <5> QED
          BY <3>2, <5>1 DEF Rank, Jobs
      <4>2. n = curr_frame
        BY <2>3, <3>2, <4>1 DEF Turn
      <4>3. cb = Stream!Timespan(curr_frame)
        BY <2>3, <4>1 DEF ValueInv
      <4> QED
        BY <4>2, <4>3 DEF Spans
    <3> HIDE DEF Pend, Rank
    <3> QED
      BY <2>2, <2>3, <2>4, <3>1, <3>2
  <2>6. \A r \in 1 .. 10 : Made(n, r)' <=> Made(n, r)
    <3> HIDE DEF Made
    <3> QED
      BY <2>2, <2>4
  <2>7. Made(n, 11)' => Made(n, 11)
    <3> HIDE DEF Made
    <3> QED
      BY <2>2, <2>4
  <2> HIDE DEF Made, Pend
  <2> QED
    BY <2>3, <2>4, <2>5, <2>6, <2>7, ValueKept
<1>4. CASE ReadFrame /\ curr_frame < input.frames
  <2> HIDE DEF Made, Pend
  <2>1. IF n = curr_frame + 1
          THEN \A r \in 1 .. 11 : ~Made(n, r)' /\ ~Pend(n, r)'
          ELSE /\ n \in Window /\ SlotOf(n) # SlotOf(curr_frame + 1)
               /\ \A r \in 1 .. 11 : (Made(n, r)' <=> Made(n, r)) /\ (Pend(n, r)' <=> Pend(n, r))
    BY <1>4, ReadRun
  <2>2. /\ input' = input /\ cb' = cb /\ (tex' = tex \/ Writes("frame", Slot, Blank)) /\ pc = "loop"
    BY <1>4 DEF ReadFrame, Writes
  <2>3. CASE n = curr_frame + 1
    <3>1. \A r \in 1 .. 11 : ~Made(n, r)'
      BY <2>1, <2>3
    <3>2. ~Pend(n, 8)'
      BY <2>1, <2>3
    <3>3. LastPlane' = LastPlane /\ LastPlane \in {0, 1} /\ RgbRank' \in 1 .. 11
      BY <2>2, SameInput DEF LastPlane, RgbRank
    <3>4. \A p \in 0 .. LastPlane : ~Made(n, 1 + p)' /\ ~Made(n, 3 + p)'
      <4> TAKE p \in 0 .. LastPlane
      <4>1. 1 + p \in 1 .. 11 /\ 3 + p \in 1 .. 11
        BY <3>3
      <4> QED
        BY <3>1, <4>1
    <3>5. ~Made(n, RgbRank)'
      <4>1. \A r : r = RgbRank' => ~Made(n, r)'
        BY <3>1, <3>3
      <4>2. RgbRank' = RgbRank
        BY <2>2, SameInput DEF RgbRank
      <4>3. ~Made(n, RgbRank)'
        BY <4>1, <4>2
      <4> QED
        BY <4>3
    <3>6. ~Made(n, 6)' /\ ~Made(n, 7)' /\ ~Made(n, 8)' /\ ~Made(n, 9)' /\ ~Made(n, 10)' /\ ~Made(n, 11)'
      BY <3>1
    <3> HIDE DEF LastPlane, RgbRank, Spans, Pictures, Video, SlotOf
    <3>7. FrameRead(n)' /\ PlanesIn(n)'
      BY <3>3, <3>4 DEF FrameRead, PlanesIn
    <3>8. RgbIn(n)' /\ ScaledIn(n)' /\ RawMotionIn(n)' /\ MotionIn(n)' /\ BlurredIn(n)' /\ PictureIn(n)' /\ SpanIn(n)'
      BY <3>2, <3>5, <3>6 DEF RgbIn, ScaledIn, RawMotionIn, MotionIn, BlurredIn, PictureIn, SpanIn
    <3> QED
      BY <3>7, <3>8 DEF Value
  <2>4. CASE n # curr_frame + 1
    <3>1. n \in Window /\ SlotOf(n) # SlotOf(curr_frame + 1) /\ SlotOf(n) \in 0 .. FrameCount - 1 /\ Value(n)
      BY <2>1, <2>4, WindowSlots DEF BaseInv, ValueInv
    <3>2. Slot = SlotOf(curr_frame + 1)
      BY <2>2 DEF BaseInv, ControlInv, Branches, Slot, Body, Reading
    <3>3. \A name \in TexNames : tex'[name][SlotOf(n)] = tex[name][SlotOf(n)]
      <4>1. CASE tex' = tex
        BY <4>1
      <4>2. CASE Writes("frame", Slot, Blank)
        <5> DEFINE s == Slot
                   c == Blank
                   t == SlotOf(n)
        <5>1. s \in 0 .. FrameCount - 1 /\ "frame" \in TexNames /\ TexTypes /\ Writes("frame", s, c) /\ t # s /\ t \in 0 .. FrameCount - 1
          BY <3>1, <3>2, <4>2, GpuTypes DEF BaseInv, Slot, TexNames, TexInv
        <5> HIDE DEF s, c, t
        <5>2. tex'["frame"][t] = tex["frame"][t] /\ \A other \in TexNames : other # "frame" => tex'[other] = tex[other]
          BY <5>1, TexWrite
        <5> QED
          BY <5>2 DEF t
      <4> QED
        BY <2>2, <4>1, <4>2
    <3>4. \A r \in 1 .. 10 : Made(n, r)' <=> Made(n, r)
      BY <2>1, <2>4
    <3>5. (Made(n, 11)' => Made(n, 11)) /\ (Pend(n, 8)' => Pend(n, 8))
      BY <2>1, <2>4
    <3>6. n > 1 /\ Pend(n, 8)' => cb' \in Spans(n)
      BY <2>2, <3>1, <3>5 DEF Value, SpanIn
    <3> QED
      BY <2>2, <3>1, <3>3, <3>4, <3>5, <3>6, ValueKept
  <2> QED
    BY <2>3, <2>4
<1>5. CASE SaveTexture
  <2> HIDE DEF Made, Pend
  <2>1. /\ n \in Window /\ ~Made(n, 11)'
        /\ \A r \in 1 .. 11 : ~Pend(n, r)'
        /\ \A r \in 1 .. 10 : Made(n, r)' <=> Made(n, r)
    BY <1>5, SaveRun
  <2>2. tex' = tex /\ input' = input
    BY <1>5 DEF SaveTexture
  <2>3. ~Pend(n, 8)'
    BY <2>1
  <2> QED
    BY <2>1, <2>2, <2>3, ValueKept DEF ValueInv
<1>6. CASE JobRun
  <2>1. PICK q \in {0, 1} : GpuRuns(q) /\ IsReal(queue[q][1])
    BY <1>6 DEF JobRun
  <2> DEFINE job == queue[q][1].job
  <2>2. Window' = Window
    BY <2>1, RunStep
  <2>3. PICK frame \in Window :
                /\ HeadOf(job, frame)
                /\ \A m \in Window : \A r : Pend(m, r)' <=> Pend(m, r) /\ ~(m = frame /\ r = Rank(job))
                /\ \A m \in Window, r \in 1 .. 11 :
                     Made(m, r)' <=> Made(m, r) \/ (m = frame /\ r = Rank(job))
    BY ZenonT(40), <2>1, RunStep
  <2>4. Writes(Target(job), job.slot, Result(job)) /\ input' = input /\ cb' = cb
    BY <2>1, RunWrites DEF BaseInv, GpuRuns, main_vars
  <2> HIDE DEF job
  <2>5. job \in Jobs /\ job.slot = SlotOf(frame) /\ Rank(job) \in 1 .. 11 /\ SlotOf(frame) \in 0 .. FrameCount - 1
    BY <2>3, RunFacts, WindowSlots DEF HeadOf, Of, BaseInv
  <2> HIDE DEF Made, Pend, Rank
  <2>6. CASE n = frame
    <3>1. \A r : Pend(frame, r)' => Pend(frame, r)
      BY <2>3
    <3>2. \A r \in 1 .. 11 : Made(frame, r)' <=> Made(frame, r) \/ r = Rank(job)
      BY <2>3
    <3>3. Doing(job, frame)
      BY <2>3, <2>4, <3>1, <3>2, RunDoes
    <3>4. Value(frame)'
      BY <2>5, <3>3, DoingDone
    <3> QED
      BY <2>6, <3>4
  <2>7. CASE n # frame
    <3>1. n \in Window /\ Value(n)
      BY <2>2 DEF ValueInv
    <3>2. SlotOf(n) # SlotOf(frame) /\ SlotOf(n) \in 0 .. FrameCount - 1
      BY <2>7, <3>1, WindowSlots DEF BaseInv
    <3>3. \A name \in TexNames : tex'[name][SlotOf(n)] = tex[name][SlotOf(n)]
      <4> DEFINE name == Target(job)
                 c == Result(job)
                 s == SlotOf(frame)
                 t == SlotOf(n)
      <4>1. /\ name \in TexNames /\ Writes(name, s, c) /\ TexTypes
            /\ s \in 0 .. FrameCount - 1 /\ t \in 0 .. FrameCount - 1 /\ t # s
        BY <2>4, <2>5, <3>2, ResultTypes DEF TexInv
      <4> HIDE DEF name, c, s, t
      <4>2. tex'[name][t] = tex[name][t] /\ \A other \in TexNames : other # name => tex'[other] = tex[other]
        BY <4>1, TexWrite
      <4> QED
        BY <4>2 DEF t
    <3>4. \A r \in 1 .. 10 : Made(n, r)' <=> Made(n, r)
      BY <2>3, <2>7, <3>1
    <3>5. (Made(n, 11)' => Made(n, 11)) /\ (Pend(n, 8)' => Pend(n, 8))
      BY <2>3, <2>7, <3>1
    <3>6. n > 1 /\ Pend(n, 8)' => cb' \in Spans(n)
      BY <2>4, <3>1, <3>5 DEF Value, SpanIn
    <3> QED
      BY <2>4, <3>1, <3>3, <3>4, <3>5, <3>6, ValueKept
  <2> QED
    BY <2>6, <2>7
<1> HIDE DEF Quiet
<1> QED
  BY <1>2, <1>3, <1>4, <1>5, <1>6, StepKinds DEF BaseInv

(****************************************************************************)
(* The files                                                                 *)
(****************************************************************************)

\* A function on the first numbers is a sequence.
LEMMA FunctionIsSeq ==
    ASSUME NEW n \in Nat, NEW S, NEW s \in [1 .. n -> S]
    PROVE  s \in Seq(S) /\ Len(s) = n
  OBVIOUS

\* Steps that neither save nor write.
NoWriting ==
    /\ UNCHANGED <<input, saved, writer, file>>
    /\ pc' \in {"final_wait", "done"} => pc \in {"final_wait", "done"}

\* The steps that save or write.
LEMMA SavingKinds ==
    ASSUME [Next]_vars
    PROVE  NoWriting \/ SaveTexture \/ PollThreads \/ JoinThreads \/ \E k \in DOMAIN writer : WriteFile(k)
<1>1. CASE \/ \E q \in Gpu!CmdQueues : CreateCommandList(q)
           \/ GpuCall
           \/ \E q \in Gpu!CmdQueues : GpuRuns(q)
           \/ UNCHANGED vars
  BY <1>1 DEF CreateCommandList, GpuCall, GpuRuns, main_vars, vars, NoWriting
<1>2. CASE \/ ReadFrame \/ SkipRead \/ Upload \/ VideoRead
           \/ AddFrame \/ CopyIn \/ ConvertToRgb \/ ConvertToNv12 \/ CopyOut
           \/ EstimateMotionVectors \/ SetTimespan \/ UploadRandomTex
  BY <1>2 DEF UploadRandomTex, ReadFrame, SkipRead, Upload, VideoRead, CopyPlane, ExecuteEmpty, AddFrame,
     CopyIn, ConvertToRgb,
              ConvertToNv12, CopyOut, EstimateMotionVectors, SetTimespan, Pass, Goto, main_vars, NoWriting
<1>3. CASE \/ PropagateMotionBlur \/ GatherMotionBlur \/ OverlayMotionVector
           \/ Move \/ Readback \/ ReadbackWait \/ LoopEnd \/ FinalWait
  BY <1>3 DEF PropagateMotionBlur, GatherMotionBlur, OverlayMotionVector, Pass, Move, Readback,
     ReadbackWait,
              LoopEnd, LoopEndsAt, FinalWait, Goto, main_vars, NoWriting
<1> QED
  BY <1>1, <1>2, <1>3 DEF Next, Main

\* The number of saved pictures.
LEMMA SavedNumber ==
    ASSUME ControlInv
    PROVE  /\ Len(saved) \in Nat /\ input.frames \in Nat /\ Len(saved) <= input.frames
           /\ pc = "save" => Len(saved) + 1 <= input.frames
           /\ pc = "done" => Len(saved) = input.frames
<1>1. /\ input.frames \in Nat /\ curr_frame \in Nat /\ curr_frame <= input.frames /\ i \in Nat
      /\ total_frames \in Nat /\ FrameCount \in Nat \ {0, 1} /\ Len(saved) \in Nat
  BY FrameNumbers, SlotNumbers, WindowFacts DEF ControlInv, MainTypes
<1>2. CASE input.frames = 0
  BY <1>1, <1>2 DEF ControlInv, EmptyInput
<1>3. CASE input.frames > 0
  <2>1. /\ total_frames = 0 =>
             /\ pc \in Body \cup Ending => curr_frame = i + 1
             /\ pc \in {"random_tex", "loop"} => curr_frame = i
             /\ pc \notin Final
        /\ total_frames # 0 =>
             /\ i <= input.frames + FrameCount - 2
             /\ pc = "loop" => i > input.frames
             /\ pc \in Final => i = input.frames + FrameCount - 2
        /\ pc \in {"readback", "readback_wait", "save"} => i >= FrameCount - 1
        /\ Len(saved) = SavedBy(IF pc \in {"loop_end"} \cup Final THEN i + 1 ELSE i)
    BY <1>3 DEF ControlInv, Counting
  <2>2. pc \in Body \cup Ending \cup Final \cup {"random_tex", "loop"}
    BY <1>3 DEF ControlInv, Counting, MainTypes, Labels, Body, Reading, Ending, Final
  <2>3. i <= input.frames + FrameCount - 2
    BY <1>1, <1>3, <2>1, <2>2
  <2>4. Len(saved) <= input.frames
    BY <1>1, <1>3, <2>1, <2>3 DEF SavedBy
  <2>5. pc = "save" => Len(saved) + 1 <= input.frames
    <3> SUFFICES ASSUME pc = "save" PROVE Len(saved) + 1 <= input.frames
      OBVIOUS
    <3>1. Len(saved) = i - (FrameCount - 1)
      BY <1>1, <2>1 DEF SavedBy, Final
    <3> QED
      BY <1>1, <2>3, <3>1
  <2>6. pc = "done" => Len(saved) = input.frames
    <3> SUFFICES ASSUME pc = "done" PROVE Len(saved) = input.frames
      OBVIOUS
    <3>1. i = input.frames + FrameCount - 2 /\ Len(saved) = SavedBy(i + 1)
      BY <2>1 DEF Final
    <3> QED
      BY <1>1, <1>3, <3>1 DEF SavedBy
  <2> QED
    BY <1>1, <2>4, <2>5, <2>6
<1> QED
  BY <1>1, <1>2, <1>3

\* What main saves is a picture of the frame whose turn it is.
LEMMA SavedPicture ==
    ASSUME BaseInv, ValueInv, TexInv, SaveTexture
    PROVE  /\ tex["memory"][SavingSlot] \in Pictures(Len(saved) + 1)
           /\ tex["memory"][SavingSlot] \in Content
<1> DEFINE n == Len(saved) + 1
<1>1. n \in Window /\ SavingSlot = SlotOf(n) /\ pc = "save"
  BY WindowFacts DEF BaseInv, SaveTexture
<1>2. \A job : job \notin Undone
  BY SaveJobs DEF BaseInv
<1>3. ~Pend(n, 11)
  BY <1>2 DEF Pend
<1>4. Has(n, 11) /\ Issued(n, 11)
  BY <1>1 DEF Has, Issued
<1>5. Made(n, 11)
  BY <1>3, <1>4 DEF Made
<1>6. SavingSlot \in 0 .. FrameCount - 1
  BY <1>1, WindowSlots DEF BaseInv
<1>7. tex["memory"][SavingSlot] \in Content
  BY <1>6 DEF TexInv, TexTypes, TexNames
<1> HIDE DEF n, Made
<1>8. tex["memory"][SavingSlot] \in Pictures(n)
  BY <1>1, <1>5 DEF ValueInv, Value, PictureIn
<1> QED
  BY <1>7, <1>8 DEF n

\* Every step keeps what is saved and what is written.
LEMMA FilesStep ==
    ASSUME BaseInv, ValueInv, TexInv, FilesInv, [Next]_vars
    PROVE  FilesInv'
<1> DEFINE Statuses == {"running", "ready", "erased"}
<1>0. /\ writer \in Seq(Statuses) /\ Len(writer) = Len(saved) /\ saved \in Seq(Content)
      /\ Len(saved) \in Nat /\ input.frames \in Nat /\ Len(saved) <= input.frames
      /\ pc = "save" => Len(saved) + 1 <= input.frames
      /\ file \in [1 .. input.frames -> Content]
  BY SavedNumber DEF FilesInv, BaseInv, ControlInv, MainTypes
<1>1. CASE NoWriting
  <2>1. \A k : Pictures(k)' = Pictures(k)
    BY <1>1, SpansKept DEF NoWriting
  <2> HIDE DEF Pictures
  <2> QED
    BY <1>1, <2>1 DEF FilesInv, NoWriting
<1>2. CASE SaveTexture
  <2> DEFINE c == tex["memory"][SavingSlot]
             n == Len(saved) + 1
  <2>1. /\ saved' = Append(saved, c) /\ writer' = Append(writer, "running") /\ pc' = "loop_end" /\ pc = "save"
        /\ UNCHANGED <<input, file>>
    BY <1>2 DEF SaveTexture, Goto
  <2>2. c \in Pictures(n) /\ c \in Content
    BY <1>2, SavedPicture
  <2>3. \A k : Pictures(k)' = Pictures(k)
    BY <2>1, SpansKept
  <2> HIDE DEF c, Pictures, Content
  <2>4. /\ Len(saved') = n /\ saved'[n] = c /\ \A k \in 1 .. Len(saved) : saved'[k] = saved[k]
        /\ writer' \in Seq(Statuses) /\ Len(writer') = n /\ writer'[n] = "running"
        /\ \A k \in 1 .. Len(saved) : writer'[k] = writer[k]
    BY <1>0, <2>1, <2>2
  <2>5. \A k \in 1 .. Len(saved') : saved'[k] \in Pictures(k)
    <3> TAKE k \in 1 .. Len(saved')
    <3>1. k = n \/ k \in 1 .. Len(saved)
      BY <1>0, <2>4
    <3> QED
      BY <2>2, <2>4, <3>1 DEF FilesInv
  <2>6. \A k \in 1 .. input.frames :
          file[k] = IF k <= Len(saved') /\ writer'[k] # "running" THEN saved'[k] ELSE Nothing
    <3> TAKE k \in 1 .. input.frames
    <3>0. file[k] = IF k <= Len(saved) /\ writer[k] # "running" THEN saved[k] ELSE Nothing
      BY DEF FilesInv
    <3>1. CASE k = n
      BY <1>0, <2>4, <3>0, <3>1
    <3>2. CASE k <= Len(saved)
      <4>1. k \in 1 .. Len(saved) /\ k <= n
        BY <1>0, <3>2
      <4> QED
        BY <2>4, <3>0, <3>2, <4>1
    <3>3. CASE k > n
      BY <1>0, <2>4, <3>0, <3>3
    <3> QED
      BY <1>0, <3>1, <3>2, <3>3
  <2> QED
    BY <1>0, <2>1, <2>3, <2>4, <2>5, <2>6 DEF FilesInv
<1>3. CASE PollThreads
  <2>1. /\ UNCHANGED <<input, saved, file>> /\ pc' \in {"readback", "aborted", "loop_end"}
        /\ \/ writer' = writer
           \/ writer' = [k \in DOMAIN writer |-> IF writer[k] = "ready" THEN "erased" ELSE writer[k]]
    BY <1>3 DEF PollThreads, Goto
  <2>2. writer' \in Seq(Statuses) /\ Len(writer') = Len(saved)
        /\ \A k \in 1 .. Len(saved) : writer'[k] = "running" <=> writer[k] = "running"
    <3>1. CASE writer' = writer
      BY <1>0, <3>1
    <3>2. CASE writer' = [k \in DOMAIN writer |-> IF writer[k] = "ready" THEN "erased" ELSE writer[k]]
      <4>1. DOMAIN writer = 1 .. Len(saved) /\ \A k \in 1 .. Len(saved) : writer[k] \in Statuses
        BY <1>0
      <4>2. writer' \in [1 .. Len(saved) -> Statuses]
        BY <3>2, <4>1
      <4>3. \A k \in 1 .. Len(saved) : writer'[k] = "running" <=> writer[k] = "running"
        BY <3>2, <4>1
      <4>4. writer' \in Seq(Statuses) /\ Len(writer') = Len(saved)
        BY <1>0, <4>2, FunctionIsSeq
      <4> QED
        BY <4>3, <4>4
    <3> QED
      BY <2>1, <3>1, <3>2
  <2>3. \A k : Pictures(k)' = Pictures(k)
    BY <2>1, SpansKept
  <2>4. \A k \in 1 .. input.frames :
          file[k] = IF k <= Len(saved) /\ writer'[k] # "running" THEN saved[k] ELSE Nothing
    <3> TAKE k \in 1 .. input.frames
    <3>1. file[k] = IF k <= Len(saved) /\ writer[k] # "running" THEN saved[k] ELSE Nothing
      BY DEF FilesInv
    <3>2. k <= Len(saved) => (writer'[k] = "running" <=> writer[k] = "running")
      BY <1>0, <2>2
    <3> QED
      BY <3>1, <3>2
  <2> HIDE DEF Pictures, Content
  <2> QED
    BY <1>0, <2>1, <2>2, <2>3, <2>4 DEF FilesInv
<1>4. CASE JoinThreads
  <2>1. /\ UNCHANGED <<input, saved, file, writer>> /\ \A k \in DOMAIN writer : writer[k] # "running"
    BY <1>4 DEF JoinThreads, main_vars
  <2>2. DOMAIN writer = 1 .. Len(saved)
    BY <1>0
  <2>3. \A k : Pictures(k)' = Pictures(k)
    BY <2>1, SpansKept
  <2> HIDE DEF Pictures
  <2> QED
    BY <2>1, <2>2, <2>3 DEF FilesInv
<1>5. ASSUME NEW n \in DOMAIN writer, WriteFile(n) PROVE FilesInv'
  <2>1. /\ UNCHANGED <<input, saved, pc>> /\ writer[n] = "running"
        /\ file' = [file EXCEPT ![n] = saved[n]] /\ writer' = [writer EXCEPT ![n] = "ready"]
    BY <1>5 DEF WriteFile
  <2>2. n \in 1 .. Len(saved) /\ n \in 1 .. input.frames /\ saved[n] \in Content
    BY <1>0
  <2>3. /\ writer' \in Seq(Statuses) /\ Len(writer') = Len(saved) /\ writer'[n] = "ready"
        /\ \A k \in 1 .. Len(saved) : k # n => writer'[k] = writer[k]
        /\ file' \in [1 .. input.frames -> Content] /\ file'[n] = saved[n]
        /\ \A k \in 1 .. input.frames : k # n => file'[k] = file[k]
    BY <1>0, <2>1, <2>2
  <2>4. \A k : Pictures(k)' = Pictures(k)
    BY <2>1, SpansKept
  <2>5. \A k \in 1 .. input.frames :
          file'[k] = IF k <= Len(saved) /\ writer'[k] # "running" THEN saved[k] ELSE Nothing
    <3> TAKE k \in 1 .. input.frames
    <3>1. file[k] = IF k <= Len(saved) /\ writer[k] # "running" THEN saved[k] ELSE Nothing
      BY DEF FilesInv
    <3>2. CASE k = n
      BY <1>0, <2>2, <2>3, <3>2
    <3>3. CASE k # n
      <4>1. k <= Len(saved) => k \in 1 .. Len(saved)
        BY <1>0
      <4> QED
        BY <2>3, <3>1, <3>3, <4>1
    <3> QED
      BY <3>2, <3>3
  <2>6. pc \notin {"final_wait", "done"}
    BY <2>1, <2>2 DEF FilesInv
  <2> HIDE DEF Pictures, Content
  <2> QED
    BY <2>1, <2>3, <2>4, <2>5, <2>6 DEF FilesInv
<1> QED
  BY <1>1, <1>2, <1>3, <1>4, <1>5, SavingKinds

(****************************************************************************)
(* The invariant of the program                                              *)
(****************************************************************************)

\* All that is true of the program in every state.
FullInv ==
    /\ BaseInv /\ InOrder /\ ListsInv
    /\ ValueInv /\ TexInv /\ FilesInv
    /\ fence_value \in 0 .. FenceBound

\* The program begins that way ...
LEMMA FullInit == Faultless /\ Init => FullInv
<1> SUFFICES ASSUME Faultless, Init PROVE FullInv
  OBVIOUS
<1>1. ControlInv /\ ProgramInv /\ CallInv
  BY ControlInit, ProgramAtStart, CallInvInit
<1>2. /\ queue[0] = <<>> /\ queue[1] = <<>> /\ fence = 0 /\ Gpu!CurrFenceVal = 1 /\ call = "idle"
      /\ FrameCount \in Nat \ {0, 1}
  <2>1. FrameCount \in Nat \ {0, 1} /\ 0 \in 0 .. FrameCount - 1 /\ Gpu!Slots = 0 .. FrameCount - 1
    BY SlotNumbers
  <2> QED
    BY <2>1 DEF Init, Gpu!Init, Gpu!CurrFenceVal, Gpu!CmdQueues, Gpu!Compute, Gpu!VideoEncode
<1>3. /\ pc = "random_tex" /\ curr_frame = 0 /\ saved = <<>> /\ cb = 0 /\ writer = <<>> /\ fence_value = 0
      /\ file = [k \in 1 .. input.frames |-> Nothing]
      /\ tex = [name \in TexNames |-> [s \in Gpu!Slots |->
                  IF name \in {"frame", "nv12"} THEN Blank ELSE Nothing]]
  BY DEF Init
<1>4. HalvesInv
  BY <1>2 DEF HalvesInv, Half, Ticketed, RanksGrow, Homes, WaitsOpen, Covered
<1>5. Window = {} /\ \A job : job \notin Undone
  BY <1>2, <1>3 DEF Window, Undone, Left
<1>6. JobInv /\ InOrder
  BY <1>5 DEF JobInv, InOrder
<1>7. FreshInv
  BY <1>2 DEF FreshInv, SignalsBelow
<1>8. NextInv /\ DrainedInv /\ ListsInv
  BY <1>3 DEF NextInv, DrainedInv, ListsInv
<1>9. ValueInv
  BY <1>3, <1>5 DEF ValueInv
<1>10. TexInv
  <2>1. Gpu!Slots = 0 .. FrameCount - 1
    BY SlotNumbers
  <2>2. PlanesOf(Blank) /\ Blank \in Content /\ Nothing \in Content
    <3>1. PlanesOf(Blank)
      BY DEF PlanesOf, Blank
    <3>2. Nothing \in Content
      BY DEF Nothing, Content
    <3> QED
      BY <3>1, <3>2, ContentFacts
  <2>3. \A name \in {"frame", "nv12"} : name \in TexNames
    BY DEF TexNames
  <2> HIDE DEF Blank, Nothing, Content, TexNames
  <2>4. \A name \in TexNames : tex[name] = [s \in 0 .. FrameCount - 1 |-> IF name \in {"frame", "nv12"} THEN Blank ELSE Nothing]
    BY <1>3, <2>1
  <2>5. tex = [name \in TexNames |-> [s \in 0 .. FrameCount - 1 |-> tex[name][s]]]
    BY <1>3, <2>1
  <2>6. \A name \in TexNames, s \in 0 .. FrameCount - 1 : tex[name][s] \in Content
    BY <2>2, <2>4
  <2>7. \A name \in {"frame", "nv12"}, s \in 0 .. FrameCount - 1 : tex[name][s] \in [1 .. LastPlane + 1 -> Nat]
    <3>1. Blank \in [1 .. LastPlane + 1 -> Nat]
      BY <2>2 DEF PlanesOf
    <3> HIDE DEF LastPlane
    <3> SUFFICES ASSUME NEW name \in {"frame", "nv12"}, NEW s \in 0 .. FrameCount - 1
                 PROVE  tex[name][s] = Blank
      BY <3>1
    <3>2. name \in TexNames
      BY <2>3
    <3>3. tex[name] = [t \in 0 .. FrameCount - 1 |-> IF name \in {"frame", "nv12"} THEN Blank ELSE Nothing]
      BY <2>4, <3>2
    <3> QED
      BY <3>3
  <2> QED
    BY <1>3, <2>5, <2>6, <2>7 DEF TexInv, TexTypes
<1>11. FilesInv
  <2>1. writer \in Seq({"running", "ready", "erased"}) /\ Len(writer) = Len(saved) /\ Len(saved) = 0
    BY <1>3
  <2>2. input.frames \in Nat
    BY <1>1, FrameNumbers DEF ControlInv
  <2>3. file \in [1 .. input.frames -> Content] /\ \A k \in 1 .. input.frames : file[k] = Nothing /\ ~(k <= Len(saved))
    <3>1. Nothing \in Content
      BY DEF Nothing, Content
    <3> HIDE DEF Nothing, Content
    <3> QED
      BY <1>3, <2>1, <2>2, <3>1
  <2> QED
    BY <1>3, <2>1, <2>3 DEF FilesInv
<1>12. fence_value \in 0 .. FenceBound
  BY <1>3, ProgramAssumption DEF Gpu!GpuAssumption
<1> QED
  BY <1>1, <1>4, <1>6, <1>7, <1>8, <1>9, <1>10, <1>11, <1>12 DEF FullInv, BaseInv

\* AddFrame keeps the values that Execute returns.
LEMMA FenceValueStep ==
    ASSUME ProgramInv, fence_value \in 0 .. FenceBound, [Next]_vars
    PROVE  fence_value' \in 0 .. FenceBound
<1>1. CASE \/ \E q \in Gpu!CmdQueues : CreateCommandList(q)
           \/ GpuCall
           \/ \E q \in Gpu!CmdQueues : GpuRuns(q)
           \/ \E k \in DOMAIN writer : WriteFile(k)
           \/ UNCHANGED vars
  BY <1>1 DEF CreateCommandList, GpuCall, GpuRuns, WriteFile, main_vars, vars
<1>2. CASE \/ ReadFrame \/ SkipRead \/ Upload \/ VideoRead \/ AddFrame \/ CopyIn \/ CopyOut \/ SetTimespan
           \/ Move \/ PollThreads \/ Readback \/ ReadbackWait \/ SaveTexture \/ LoopEnd \/ JoinThreads \/ FinalWait
           \/ UploadRandomTex
  BY <1>2 DEF UploadRandomTex, ReadFrame, SkipRead, Upload, VideoRead, CopyPlane, ExecuteEmpty, AddFrame, CopyIn, CopyOut,
              SetTimespan, Move, PollThreads, Readback, ReadbackWait, SaveTexture, LoopEnd, LoopEndsAt,
              JoinThreads, FinalWait, main_vars
<1>3. ASSUME NEW label, NEW q, NEW v, NEW next, Pass(label, q, v, next) PROVE fence_value' \in 0 .. FenceBound
  <2>1. Gpu!ExecuteOnly(q, v, Job(label)) /\ fence_value' = Gpu!CurrFenceVal
    BY <1>3 DEF Pass, Gpu!Execute
  <2>2. fence_value' \in 1 .. FenceBound
    BY <2>1, SignalledValue
  <2> QED
    BY <2>2
<1>4. CASE \/ ConvertToRgb \/ ConvertToNv12 \/ EstimateMotionVectors \/ PropagateMotionBlur
           \/ GatherMotionBlur \/ OverlayMotionVector
  BY <1>3, <1>4 DEF ConvertToRgb, ConvertToNv12, EstimateMotionVectors, PropagateMotionBlur,
     GatherMotionBlur,
     OverlayMotionVector
<1> QED
  BY SMTT(30), <1>1, <1>2, <1>4 DEF Next, Main

\* ... and every step keeps it.
LEMMA FullStep == FullInv /\ [Next]_vars => FullInv'
<1> SUFFICES ASSUME FullInv, [Next]_vars PROVE FullInv'
  OBVIOUS
<1>1. /\ BaseInv /\ InOrder /\ ListsInv /\ ValueInv /\ TexInv /\ FilesInv /\ fence_value \in 0 .. FenceBound
      /\ ControlInv /\ ProgramInv /\ CallInv /\ HalvesInv /\ JobInv /\ FreshInv /\ NextInv /\ DrainedInv
  BY DEF FullInv, BaseInv
<1>2. tex["memory"][SavingSlot] \in Content
  <2>1. SavingSlot \in 0 .. FrameCount - 1 /\ "memory" \in TexNames
    <3>1. SavingIndex \in Int
      BY <1>1, SlotNumbers DEF SavingIndex, ControlInv, MainTypes
    <3> HIDE DEF SavingIndex
    <3> QED
      BY <3>1, SlotNumbers, Division DEF SavingSlot, TexNames
  <2> QED
    BY <1>1, <2>1 DEF TexInv, TexTypes
<1>3. ControlInv'
  BY <1>1, <1>2, ControlStep
<1>4. ProgramInv'
  BY <1>1, ProgramKept
<1>5. CallInv'
  BY <1>1, CallInvStep
<1>6. HalvesInv' /\ JobInv' /\ InOrder'
  BY <1>1, OrderStep
<1>7. FreshInv'
  BY <1>1, FreshStep
<1>8. NextInv'
  BY <1>1, NextStep
<1>9. DrainedInv'
  BY <1>1, DrainedStep
<1>10. ListsInv'
  BY <1>1, ListsStep
<1>11. ValueInv'
  BY <1>1, ValueStep
<1>12. TexInv'
  BY <1>1, TexStep
<1>13. FilesInv'
  BY <1>1, FilesStep
<1>14. fence_value' \in 0 .. FenceBound
  BY <1>1, FenceValueStep
<1> QED
  BY <1>3, <1>4, <1>5, <1>6, <1>7, <1>8, <1>9, <1>10, <1>11, <1>12, <1>13, <1>14 DEF FullInv, BaseInv

(****************************************************************************)
(* What follows from the invariant                                           *)
(****************************************************************************)

\* The frames that are counted change only when the loop reads one.
LEMMA FrameTaken ==
    ASSUME BaseInv, [Next]_vars
    PROVE  \/ curr_frame' = curr_frame
           \/ ReadFrame /\ curr_frame < input.frames /\ curr_frame' = curr_frame + 1
<1>1. CASE Quiet \/ JobSubmitted
  <2>1. Steady
    BY <1>1 DEF Quiet, QuietStep, JobSubmitted, Issues
  <2> QED
    BY <2>1 DEF Steady
<1>2. CASE ReadFrame /\ curr_frame < input.frames
  BY <1>2 DEF ReadFrame
<1>3. CASE SaveTexture \/ JobRun
  BY <1>3 DEF SaveTexture, JobRun, GpuRuns, main_vars
<1> QED
  BY <1>1, <1>2, <1>3, StepKinds DEF BaseInv

\* The invariant holds in every state.
LEMMA Invariant == Faultless => (Spec => []FullInv)
<1> SUFFICES ASSUME Faultless PROVE Spec => []FullInv
  OBVIOUS
<1>1. Init => FullInv
  BY FullInit
<1> QED
  BY <1>1, FullStep, PTL DEF Spec

\* The program and the instances it uses are of the types that the model gives them.
THEOREM ProgramTypes == Faultless => (Spec => []TypeOK)
<1> SUFFICES ASSUME Faultless PROVE Spec => []TypeOK
  OBVIOUS
<1>1. ASSUME FullInv PROVE TypeOK
  <2>1. Known!TypeOK <=> Gpu!TypeOK
    BY Zenon DEF Known!TypeOK, Gpu!TypeOK, Known!Slots, Gpu!Slots, Known!CmdQueues, Gpu!CmdQueues,
       Known!Compute, Gpu!Compute, Known!VideoEncode, Gpu!VideoEncode, Known!Entry, Gpu!Entry,
       Known!NoSlot, Gpu!NoSlot, Known!Calls, Gpu!Calls, Known!CmdQueueNum, Gpu!CmdQueueNum
  <2>2. Gpu!TypeOK
    BY <1>1, <2>1 DEF FullInv, BaseInv, ProgramInv
  <2>3. tex \in [TexNames -> [Gpu!Slots -> Content]]
    <3>1. Gpu!Slots = 0 .. FrameCount - 1
      BY SlotNumbers
    <3> DEFINE Row == [0 .. FrameCount - 1 -> Content]
    <3>2. \A name \in TexNames : [s \in 0 .. FrameCount - 1 |-> tex[name][s]] \in Row
      BY Zenon, <1>1 DEF FullInv, TexInv, TexTypes
    <3>3. tex = [name \in TexNames |-> [s \in 0 .. FrameCount - 1 |-> tex[name][s]]]
      BY Zenon, <1>1 DEF FullInv, TexInv, TexTypes
    <3> HIDE DEF Row
    <3>4. tex \in [TexNames -> Row]
      BY Zenon, <3>2, <3>3
    <3> QED
      BY <3>1, <3>4 DEF Row
  <2>4. input \in Stream!Inputs
    BY <1>1 DEF Faultless, Stream!Inputs, FullInv, BaseInv, ControlInv, MainTypes
  <2> HIDE DEF Content, TexNames, Labels
  <2> QED
    BY <1>1, <2>2, <2>3, <2>4 DEF TypeOK, FullInv, BaseInv, ControlInv, MainTypes, FilesInv, TexInv
<1> QED
  BY <1>1, Invariant, PTL

\* A picture over the timespan of its own frame is the one that the stream promises.
LEMMA OwnPicture ==
    ASSUME MainTypes, NEW k \in Nat \ {0}
    PROVE  PictureOver(k, Stream!Timespan(k)) = Stream!Picture(k)
<1>1. CASE k = 1
  BY <1>1 DEF PictureOver, Stream!Picture
<1>2. CASE k # 1
  <2>1. k - 1 \in Nat \ {0}
    BY <1>2
  <2>2. Stream!Shown(k) = k /\ Stream!Shown(k - 1) = k - 1
    BY <2>1, ShowsItself
  <2> QED
    BY <1>2, <2>2, Zenon DEF PictureOver, Motion, Stream!Picture
<1> QED
  BY <1>1, <1>2

\* With one timespan for all frames that is the only picture of a frame.
LEMMA OnlyPicture ==
    ASSUME MainTypes, ~VariableRate, NEW k \in Nat \ {0}
    PROVE  Pictures(k) = {Stream!Picture(k)}
<1>1. \A n : Stream!Timespan(n) = 1
  BY DEF Stream!Timespan
<1>2. Spans(k) = {1}
  BY <1>1 DEF Spans
<1>3. PictureOver(k, 1) = Stream!Picture(k)
  BY <1>1, OwnPicture
<1> HIDE DEF Spans, PictureOver
<1> QED
  BY <1>2, <1>3 DEF Pictures

\* At the end each file holds a picture of its frame.
LEMMA FilesAtEnd ==
    ASSUME FullInv, pc = "done", NEW k \in 1 .. input.frames
    PROVE  file[k] \in Pictures(k)
<1>1. Len(saved) = input.frames /\ Len(saved) \in Nat
  BY SavedNumber DEF FullInv, BaseInv
<1>2. writer[k] # "running" /\ saved[k] \in Pictures(k)
  BY <1>1 DEF FullInv, FilesInv
<1>3. file[k] = saved[k]
  BY <1>1, <1>2 DEF FullInv, FilesInv
<1> QED
  BY <1>2, <1>3

\* When the program is done every frame of the input has its own picture in its own file:
\* main, AddFrame, the readers and the saving threads of any run, for any number of frames
\* and of slots, for both orders in which the two queues may set the fence.
THEOREM FilesComplete == Faultless /\ ~VariableRate => (Spec => []OutputComplete)
<1> SUFFICES ASSUME Faultless, ~VariableRate PROVE Spec => []OutputComplete
  OBVIOUS
<1>1. FullInv => OutputComplete
  <2> SUFFICES ASSUME FullInv, pc = "done", NEW k \in 1 .. input.frames
               PROVE  file[k] = Stream!Picture(k)
    BY DEF OutputComplete
  <2>0. MainTypes /\ k \in Nat \ {0}
    BY FrameNumbers DEF FullInv, BaseInv, ControlInv
  <2>1. Pictures(k) = {Stream!Picture(k)}
    BY <2>0, OnlyPicture
  <2> HIDE DEF Pictures
  <2> QED
    BY <2>1, FilesAtEnd
<1> QED
  BY <1>1, Invariant, PTL

\* ReadFrame puts a frame into a slot in which neither queue has work left, so the textures
\* that it overwrites or frees, and the descriptors that are used again, are no longer in
\* use (ReadFrame waits for nothing itself).
THEOREM ReadsIntoQuietSlot == Faultless => (Spec => SlotQuiescent)
<1> SUFFICES ASSUME Faultless PROVE Spec => SlotQuiescent
  OBVIOUS
<1> DEFINE SlotIdle == \A q \in Gpu!CmdQueues : \A n \in ListsOf(q, Slot) : queue[q][n].job = NoJob
<1>1. ASSUME FullInv, [Next]_vars PROVE curr_frame' # curr_frame => SlotIdle
  <2> SUFFICES ASSUME curr_frame' # curr_frame, NEW q \in {0, 1}, NEW n \in ListsOf(q, Slot),
                      queue[q][n].job # NoJob
               PROVE  FALSE
    BY DEF Gpu!CmdQueues, Gpu!Compute, Gpu!VideoEncode
  <2>0. ControlInv /\ ProgramInv /\ CallInv /\ HalvesInv /\ JobInv
    BY <1>1 DEF FullInv, BaseInv
  <2>1. ReadFrame /\ curr_frame < input.frames /\ pc = "loop"
    BY <1>1, FrameTaken DEF FullInv, ReadFrame
  <2>2. frame_index = SlotOf(curr_frame + 1)
    BY <2>0, <2>1 DEF ControlInv, Branches, Body, Reading
  <2> DEFINE job == queue[q][n].job
  <2>3. n \in 1 .. Len(queue[q]) /\ IsReal(queue[q][n]) /\ queue[q][n].val = frame_index
    BY DEF ListsOf, IsReal, Slot
  <2>4. job \in Undone
    BY <2>3 DEF Undone, Left
  <2>5. job.slot # SlotOf(curr_frame + 1)
    BY <2>0, <2>1, <2>4, ReadJobs
  <2>6. queue[q][n].val = job.slot \/ job.op = "readback"
    BY <2>0, <2>3 DEF HalvesInv, Half, Homes
  <2>7. PICK m \in Window : Of(job, m)
    BY ZenonT(40), <2>0, <2>4 DEF JobInv
  <2>8. job.op # "readback"
    BY <2>1, <2>7 DEF Of, Issued, Rank
  <2> QED
    BY <2>2, <2>3, <2>5, <2>6, <2>8
<1>2. FullInv /\ [Next]_vars => [curr_frame' # curr_frame => SlotIdle]_vars
  BY <1>1
<1> QED
  BY <1>2, Invariant, PTL DEF Spec, SlotQuiescent

\* Only ReadFrame counts all frames, and no step changes the input.
LEMMA TotalKept ==
    ASSUME [Next]_vars
    PROVE  /\ input' = input
           /\ total_frames' = total_frames \/ (ReadFrame /\ total_frames = 0 /\ pc = "loop")
<1>1. CASE \/ \E q \in Gpu!CmdQueues : CreateCommandList(q)
           \/ GpuCall
           \/ \E q \in Gpu!CmdQueues : GpuRuns(q)
           \/ UNCHANGED vars
  BY <1>1 DEF CreateCommandList, GpuCall, GpuRuns, main_vars, vars
<1>2. CASE \/ ReadFrame \/ SkipRead \/ Upload \/ VideoRead
           \/ AddFrame \/ CopyIn \/ ConvertToRgb \/ ConvertToNv12 \/ CopyOut
           \/ EstimateMotionVectors \/ SetTimespan \/ UploadRandomTex
  BY <1>2 DEF UploadRandomTex, ReadFrame, SkipRead, Upload, VideoRead, CopyPlane, ExecuteEmpty, AddFrame,
     CopyIn, ConvertToRgb, ConvertToNv12, CopyOut, EstimateMotionVectors, SetTimespan, Pass, main_vars
<1>3. CASE \/ PropagateMotionBlur \/ GatherMotionBlur \/ OverlayMotionVector
           \/ Move \/ Readback \/ ReadbackWait \/ LoopEnd \/ FinalWait
           \/ SaveTexture \/ PollThreads \/ JoinThreads \/ \E k \in DOMAIN writer : WriteFile(k)
  BY <1>3 DEF PropagateMotionBlur, GatherMotionBlur, OverlayMotionVector, Pass, Move, Readback,
     ReadbackWait, LoopEnd, LoopEndsAt, FinalWait, SaveTexture, PollThreads, JoinThreads, WriteFile,
     main_vars
<1> QED
  BY <1>1, <1>2, <1>3 DEF Next, Main

\* The lists of a queue were recorded in the slots up to x.
ListsUpTo(s, x) == \A m \in 1 .. Len(s) : s[m].kind = "exec" => s[m].val <= x

\* The slot of the last frame, as long as the slots have not come round.
EarlySlot == IF curr_frame = 0 THEN 0 ELSE curr_frame - 1

\* MoveToNextFrame is called for a frame. Until the first frame is saved no list of the
\* compute queue was recorded in a slot that is still to come.
EarlyInv ==
    /\ Gpu!InPace => total_frames = 0 /\ input.frames > 0
    /\ saved = <<>> /\ total_frames = 0 => ListsUpTo(queue[0], EarlySlot)

\* What of a queue outlives another entry, and the run of its head.
LEMMA UpToPut ==
    ASSUME NEW s \in Seq(Known!Entry), NEW e \in Known!Entry, NEW x, ListsUpTo(s, x),
           e.kind = "exec" => e.val <= x
    PROVE  Put(s, e) \in Seq(Known!Entry) /\ ListsUpTo(Put(s, e), x)
<1> DEFINE t == Append(s, e)
<1>1. /\ t \in Seq(Known!Entry) /\ Len(t) = Len(s) + 1 /\ t[Len(t)] = e /\ Len(s) \in Nat
      /\ \A n \in 1 .. Len(s) : t[n] = s[n]
  BY Known!Appended
<1>2. t = Put(s, e)
  BY DEF Put
<1> HIDE DEF t
<1>3. ListsUpTo(t, x)
  BY <1>1 DEF ListsUpTo
<1> QED
  BY <1>1, <1>2, <1>3

LEMMA UpToRest ==
    ASSUME NEW s \in Seq(Known!Entry), s # <<>>, NEW x, ListsUpTo(s, x)
    PROVE  ListsUpTo(Tail(s), x)
<1>1. \A n \in 1 .. Len(Tail(s)) : n + 1 \in 1 .. Len(s) /\ Tail(s)[n] = s[n + 1]
  OBVIOUS
<1> QED
  BY <1>1 DEF ListsUpTo

\* A submission adds a list of the current slot.
LEMMA UpToEntered ==
    ASSUME ProgramInv, NEW v \in Nat, NEW job \in Jobs \cup {NoJob}, NEW x, frame_index <= x,
           ListsUpTo(queue[0], x)
    PROVE  ListsUpTo(Entered(0, v, job), x)
<1> DEFINE s == queue[0]
           w == Gpu!Wait(v)
           e == Gpu!Exec(frame_index, job)
           g == Gpu!Signal(Newest)
           u == IF v # FenceBound + 1 THEN Put(s, w) ELSE s
           t == Put(u, e)
           z == Put(t, g)
<1>1. /\ frame_index \in Nat /\ Newest \in Nat /\ s \in Seq(Known!Entry) /\ ListsUpTo(s, x)
  BY GpuTypes
<1>2. w \in Known!Entry /\ w.kind # "exec"
  BY EntriesMade
<1>3. e \in Known!Entry /\ e.val <= x
  BY <1>1, EntriesMade
<1>4. g \in Known!Entry /\ g.kind # "exec"
  BY <1>1, EntriesMade
<1>5. Entered(0, v, job) = z
  BY DEF Entered
<1> HIDE DEF s, w, e, g
<1>6. u \in Seq(Known!Entry) /\ ListsUpTo(u, x)
  BY <1>1, <1>2, UpToPut
<1> HIDE DEF u
<1>7. t \in Seq(Known!Entry) /\ ListsUpTo(t, x)
  BY <1>3, <1>6, UpToPut
<1> HIDE DEF t
<1>8. ListsUpTo(z, x)
  BY <1>4, <1>7, UpToPut
<1> QED
  BY <1>5, <1>8

\* While nothing is saved a list is recorded in the slot of the last frame.
LEMMA EarlyRecorded ==
    ASSUME ControlInv, saved = <<>>, total_frames = 0, pc \in Body \cup {"random_tex", "readback"}
    PROVE  frame_index <= EarlySlot
<1>1. curr_frame \in Nat /\ FrameCount \in Nat \ {0, 1} /\ input.frames \in Nat
  BY FrameNumbers, SlotNumbers DEF ControlInv
<1>2. CASE pc \in Body
  <2>1. curr_frame >= 1 /\ curr_frame <= FrameCount /\ frame_index = SlotOf(curr_frame)
    BY <1>2, WindowFacts
  <2>2. frame_index = curr_frame - 1
    BY <1>1, <2>1, SlotOfFrame
  <2> QED
    BY <1>1, <2>1, <2>2 DEF EarlySlot
<1>3. CASE pc = "random_tex"
  <2>1. curr_frame = 0
    BY <1>1, <1>3 DEF ControlInv, Counting, EmptyInput
  <2>2. frame_index = SlotOf(0 + 1)
    BY <1>3, <2>1 DEF ControlInv, Branches, Body, Reading
  <2>3. frame_index = 0
    BY <1>1, <2>2, SlotOfFrame
  <2> QED
    BY <2>1, <2>3 DEF EarlySlot
<1>4. CASE pc = "readback"
  <2>1. curr_frame = FrameCount
    BY <1>1, <1>4, WindowFacts
  <2>2. frame_index = SlotOf(FrameCount + 1)
    BY <1>4, <2>1 DEF ControlInv, Branches, Body, Reading
  <2>3. SlotOf(FrameCount + 1) \in 0 .. FrameCount - 1
    BY <1>1, SlotOfFrame
  <2> QED
    BY <1>1, <2>1, <2>2, <2>3 DEF EarlySlot
<1> QED
  BY <1>2, <1>3, <1>4

\* No step adds another.
LEMMA EarlyQueue ==
    ASSUME BaseInv, [Next]_vars, saved = <<>>, saved' = <<>>, total_frames = 0,
           ListsUpTo(queue[0], EarlySlot)
    PROVE  ListsUpTo(queue'[0], EarlySlot)
<1>0. ControlInv /\ ProgramInv /\ CallInv
  BY DEF BaseInv
<1>1. CASE Aside
  BY <1>1 DEF Aside
<1>2. CASE SubmitsList
  <2>1. pc \in Body \cup {"random_tex", "readback"}
    BY <1>2 DEF SubmitsList
  <2>2. frame_index <= EarlySlot
    BY <1>0, <2>1, EarlyRecorded
  <2>3. PICK q \in {0, 1}, v \in Nat, job \in Jobs \cup {NoJob} :
          Gpu!Execute(q, v, job) \/ Gpu!ExecuteAndReset(q, v, job)
    BY <1>2 DEF SubmitsList
  <2>4. Gpu!ExecuteOnly(q, v, job)
    BY <1>0, <2>3, SubmitNewest
  <2>5. queue'[q] = Entered(q, v, job) /\ queue'[1 - q] = queue[1 - q]
    BY <1>0, <2>4, SubmitEffect
  <2>6. CASE q = 0
    <3>1. ListsUpTo(Entered(0, v, job), EarlySlot)
      BY <1>0, <2>2, UpToEntered
    <3> QED
      BY <2>5, <2>6, <3>1
  <2>7. CASE q = 1
    BY <2>5, <2>7
  <2> QED
    BY <2>6, <2>7
<1>3. CASE SaveTexture
  BY <1>3 DEF SaveTexture
<1>4. ASSUME NEW n \in Nat, queue'[0] = Append(queue[0], Gpu!Signal(n))
      PROVE  ListsUpTo(queue'[0], EarlySlot)
  <2>1. Gpu!Signal(n) \in Known!Entry /\ Gpu!Signal(n).kind # "exec" /\ queue[0] \in Seq(Known!Entry)
    BY <1>0, <1>4, EntriesMade, GpuTypes
  <2> QED
    BY <1>4, <2>1, UpToPut DEF Put
<1>5. CASE Move
  <2>1. queue' = [q \in {0, 1} |-> Append(queue[q], Gpu!Signal(Gpu!CurrFenceVal))]
        /\ call = "idle" /\ Gpu!MoveToNextFrame
    BY <1>5, Zenon DEF Move, Gpu!MoveToNextFrame, Gpu!Ready, Gpu!CmdQueues, Gpu!Compute,
       Gpu!VideoEncode
  <2>2. Gpu!CurrFenceVal \in Nat
    BY <1>0, <2>1, GpuTypes, CallNewest
  <2>3. queue'[0] = Append(queue[0], Gpu!Signal(Gpu!CurrFenceVal))
    BY <2>1
  <2> QED
    BY <1>4, <2>2, <2>3
<1>6. CASE ReadbackWait \/ FinalWait
  BY <1>6 DEF ReadbackWait, FinalWait, Gpu!WaitForGpu
<1>7. CASE GpuCall
  <2>1. CASE Gpu!FlushSignal
    <3>1. /\ wait_queue \in {0, 1}
          /\ queue' = [queue EXCEPT ![wait_queue] = Append(@, Gpu!Signal(Gpu!CurrFenceVal))]
      BY <1>0, <2>1, GpuTypes DEF Gpu!FlushSignal, Gpu!CmdQueueNum, ProgramInv, Known!TypeOK,
         Known!CmdQueueNum
    <3>2. Gpu!CurrFenceVal \in Nat
      BY <1>0, <2>1, GpuTypes, CallNewest
    <3>3. \/ queue'[0] = Append(queue[0], Gpu!Signal(Gpu!CurrFenceVal))
          \/ queue'[0] = queue[0]
      BY <1>0, <3>1, GpuTypes
    <3> QED
      BY <1>4, <3>2, <3>3
  <2>2. CASE ~Gpu!FlushSignal
    <3>1. UNCHANGED queue
      BY <1>7, <2>2 DEF GpuCall, Gpu!CallStep, Gpu!PaceWait, Gpu!PaceDone, Gpu!StartSlot, Gpu!FlushWait,
         Gpu!FlushPassed, Gpu!FlushSkip, Gpu!FlushWoken, Gpu!WaitForGpuReturns
    <3> QED
      BY <3>1
  <2> QED
    BY <2>1, <2>2
<1>8. ASSUME NEW q \in {0, 1}, GpuRuns(q) PROVE ListsUpTo(queue'[0], EarlySlot)
  <2>1. queue[q] # <<>> /\ queue'[q] = Tail(queue[q]) /\ queue'[1 - q] = queue[1 - q]
    BY <1>0, <1>8, GpuEffect DEF GpuRuns
  <2>2. queue[0] \in Seq(Known!Entry)
    BY <1>0, GpuTypes
  <2>3. CASE q = 0
    BY <2>1, <2>2, <2>3, UpToRest
  <2>4. CASE q = 1
    BY <2>1, <2>4
  <2> QED
    BY <2>3, <2>4
<1> QED
  BY <1>0, <1>1, <1>2, <1>3, <1>5, <1>6, <1>7, <1>8, CallKinds

\* The calls of MoveToNextFrame.
LEMMA PaceKinds ==
    ASSUME BaseInv, [Next]_vars, Gpu!InPace'
    PROVE  Gpu!InPace \/ Move
<1>0. ControlInv /\ ProgramInv /\ CallInv
  BY DEF BaseInv
<1>1. CASE Aside
  BY <1>1 DEF Aside, Gpu!InPace
<1>2. CASE SubmitsList
  <2>1. PICK q \in {0, 1}, v \in Nat, job \in Jobs \cup {NoJob} :
          Gpu!Execute(q, v, job) \/ Gpu!ExecuteAndReset(q, v, job)
    BY <1>2 DEF SubmitsList
  <2>2. call' = "idle"
    BY <1>0, <2>1, SubmitNewest
  <2> QED
    BY <2>2 DEF Gpu!InPace
<1>3. CASE SaveTexture
  <2>1. call' = "idle"
    BY <1>0, <1>3, SubmitNewest DEF SaveTexture, Compute, Gpu!Compute
  <2> QED
    BY <2>1 DEF Gpu!InPace
<1>4. CASE ReadbackWait \/ FinalWait
  BY <1>4 DEF ReadbackWait, FinalWait, Gpu!WaitForGpu, Gpu!InPace
<1>5. CASE GpuCall
  BY <1>5 DEF GpuCall, Gpu!CallStep, Gpu!InPace, Gpu!PaceWait, Gpu!PaceDone, Gpu!StartSlot, Gpu!FlushSignal,
     Gpu!FlushWait, Gpu!FlushPassed, Gpu!FlushSkip, Gpu!FlushWoken, Gpu!WaitForGpuReturns
<1>6. ASSUME NEW q \in {0, 1}, GpuRuns(q) PROVE Gpu!InPace
  <2>1. call' = call
    BY <1>0, <1>6, GpuEffect DEF GpuRuns
  <2> QED
    BY <2>1 DEF Gpu!InPace
<1> QED
  BY <1>0, <1>1, <1>2, <1>3, <1>4, <1>5, <1>6, CallKinds

\* So the slots that are still to come stay free of lists.
LEMMA EarlyStep == FullInv /\ EarlyInv /\ [Next]_vars => EarlyInv'
<1> SUFFICES ASSUME FullInv, EarlyInv, [Next]_vars PROVE EarlyInv'
  OBVIOUS
<1>1. BaseInv /\ ControlInv /\ ProgramInv /\ CallInv
  BY DEF FullInv, BaseInv
<1>2. ASSUME Gpu!InPace' PROVE total_frames' = 0 /\ input'.frames > 0
  <2>1. total_frames = 0 /\ input.frames > 0 /\ pc # "loop"
    <3>1. CASE Gpu!InPace
      BY <1>1, <3>1 DEF EarlyInv, CallInv
    <3>2. CASE Move
      <4>1. pc = "move"
        BY <3>2 DEF Move
      <4> QED
        BY <1>1, <4>1, WindowFacts DEF Body
    <3> QED
      BY <1>1, <1>2, <3>1, <3>2, PaceKinds
  <2> QED
    BY <2>1, TotalKept
<1>3. ASSUME saved' = <<>>, total_frames' = 0 PROVE ListsUpTo(queue'[0], EarlySlot')
  <2>1. total_frames = 0
    BY <1>3, TotalKept
  <2>2. saved = <<>>
    <3>1. CASE SaveTexture
      BY <1>3, <3>1 DEF SaveTexture
    <3>2. CASE ~SaveTexture
      <4>1. saved' = saved
        BY <3>2, SavingKinds DEF NoWriting, PollThreads, JoinThreads, WriteFile, main_vars
      <4> QED
        BY <1>3, <4>1
    <3> QED
      BY <3>1, <3>2
  <2>3. ListsUpTo(queue[0], EarlySlot)
    BY <2>1, <2>2 DEF EarlyInv
  <2>4. CASE curr_frame' = curr_frame
    <3>1. EarlySlot' = EarlySlot
      BY <2>4 DEF EarlySlot
    <3> QED
      BY <1>1, <1>3, <2>1, <2>2, <2>3, <3>1, EarlyQueue
  <2>5. CASE ReadFrame /\ curr_frame' = curr_frame + 1
    <3>1. queue' = queue
      BY <2>5 DEF ReadFrame, gpu_vars
    <3>2. EarlySlot \in Nat /\ EarlySlot' \in Nat /\ EarlySlot <= EarlySlot'
      <4>1. curr_frame \in Nat
        BY <1>1, WindowFacts
      <4> QED
        BY <2>5, <4>1 DEF EarlySlot
    <3>3. queue[0] \in Seq(Known!Entry)
      BY <1>1, GpuTypes
    <3>4. \A m \in 1 .. Len(queue[0]) : queue[0][m].val \in Nat
      BY <3>3, EntryFacts
    <3> DEFINE x == EarlySlot
               y == EarlySlot'
               s == queue[0]
    <3>5. x \in Nat /\ y \in Nat /\ x <= y /\ ListsUpTo(s, x) /\ \A m \in 1 .. Len(s) : s[m].val \in Nat
      BY <2>3, <3>2, <3>4
    <3> HIDE DEF x, y, s
    <3>6. ListsUpTo(s, y)
      BY <3>5 DEF ListsUpTo
    <3> QED
      BY <3>1, <3>6 DEF s, y
  <2> QED
    BY <1>1, <2>4, <2>5, FrameTaken
<1>4. EarlyInv' <=> /\ Gpu!InPace' => total_frames' = 0 /\ input'.frames > 0
                    /\ saved' = <<>> /\ total_frames' = 0 => ListsUpTo(queue'[0], EarlySlot')
  BY DEF EarlyInv, ListsUpTo
<1> QED
  BY <1>2, <1>3, <1>4

\* What that comes to when MoveToNextFrame resets the allocators before a frame is saved.
LEMMA EarlyReset ==
    ASSUME FullInv, EarlyInv, Gpu!PaceDone, saved = <<>>
    PROVE  /\ ListsOf(1, Slot) = {}
           /\ ListsOf(0, Slot) = {} \/ curr_frame = FrameCount
<1>1. ControlInv /\ ProgramInv /\ CallInv /\ HalvesInv /\ JobInv
  BY DEF FullInv, BaseInv
<1>2. Gpu!InPace
  BY DEF Gpu!PaceDone, Gpu!InPace
<1>3. pc = "after" /\ total_frames = 0 /\ input.frames > 0 /\ i \in Nat /\ FrameCount \in Nat \ {0, 1}
  BY <1>1, <1>2, SlotNumbers DEF EarlyInv, CallInv, ControlInv, MainTypes
<1>4. curr_frame = i + 1 /\ i <= FrameCount - 1
  <2>1. curr_frame = i + 1 /\ Len(saved) = SavedBy(i)
    BY <1>1, <1>3 DEF ControlInv, Counting, Ending, Final
  <2> QED
    BY <1>3, <2>1 DEF SavedBy
<1>5. frame_index = SlotOf(curr_frame + 1)
  BY <1>1, <1>3 DEF ControlInv, Branches, Body, Reading
<1>6. /\ curr_frame < FrameCount => frame_index = curr_frame
      /\ curr_frame = FrameCount => frame_index = 0
  <2>1. CASE curr_frame < FrameCount
    <3>1. curr_frame + 1 \in Nat \ {0} /\ curr_frame + 1 <= FrameCount
      BY <1>3, <1>4, <2>1
    <3> DEFINE n == curr_frame + 1
    <3>2. n \in Nat \ {0} /\ n <= FrameCount /\ frame_index = SlotOf(n)
      BY <1>5, <3>1
    <3> HIDE DEF n
    <3>3. frame_index = n - 1
      BY <3>2, SlotOfFrame
    <3> QED
      BY <1>3, <1>4, <2>1, <3>3 DEF n
  <2>2. CASE curr_frame = FrameCount
    <3>1. SlotOf(FrameCount + 1) = Gpu!NextSlot(SlotOf(FrameCount)) /\ SlotOf(FrameCount) = FrameCount - 1
      BY <1>3, SlotOfFrame
    <3>2. frame_index = (FrameCount - 1 + 1) % FrameCount
      BY <1>5, <2>2, <3>1 DEF Gpu!NextSlot
    <3>3. FrameCount - 1 + 1 = FrameCount /\ FrameCount % FrameCount = 0
      BY <1>3
    <3> QED
      BY <2>2, <3>2, <3>3, <1>3
  <2> QED
    BY <2>1, <2>2
<1>7. ASSUME curr_frame < FrameCount, NEW m \in ListsOf(0, Slot) PROVE FALSE
  <2>1. m \in 1 .. Len(queue[0]) /\ queue[0][m].kind = "exec" /\ queue[0][m].val = frame_index
    BY <1>7 DEF ListsOf, Slot
  <2>2. queue[0][m].val <= EarlySlot
    BY <1>3, <2>1 DEF EarlyInv, ListsUpTo
  <2> QED
    BY <1>3, <1>4, <1>6, <1>7, <2>1, <2>2 DEF EarlySlot
<1>8. ASSUME NEW m \in ListsOf(1, Slot) PROVE FALSE
  <2>1. m \in 1 .. Len(queue[1]) /\ queue[1][m].kind = "exec" /\ queue[1][m].val = frame_index
    BY <1>8 DEF ListsOf, Slot
  <2> DEFINE job == queue[1][m].job
  <2>2. job # NoJob /\ IsReal(queue[1][m])
    BY <1>1, <2>1 DEF HalvesInv, Half, Homes, IsReal
  <2>3. job.op = "estimate" /\ frame_index = job.slot
    BY <1>1, <2>1, <2>2 DEF HalvesInv, Half, Homes
  <2>4. job \in Undone
    BY <2>1, <2>2 DEF Undone, Left
  <2>5. PICK n \in Window : Of(job, n)
    BY ZenonT(40), <1>1, <2>4 DEF JobInv
  <2>6. n - 1 \in Window /\ job.slot = SlotOf(n)
    BY <2>3, <2>5 DEF Of
  <2>7. n \in Nat /\ n >= 2 /\ n <= curr_frame
    BY <1>3, <1>4, <2>6 DEF Window
  <2>8. SlotOf(n) = n - 1
    BY <1>3, <1>4, <2>7, SlotOfFrame
  <2> QED
    BY <1>3, <1>4, <1>6, <2>3, <2>6, <2>7, <2>8
<1> QED
  BY <1>3, <1>4, <1>7, <1>8

\* MoveToNextFrame resets the command allocators of a slot under no list that has not run,
\* in neither queue, with one exception, the same for every input and every number of
\* slots: in frame FrameCount, when the slots come round and no frame has been saved, lists
\* of the compute queue may be left. All other frames, the earlier ones included, are safe.
THEOREM IdleAllocatorsReset == Faultless => (Spec => ResetsIdleAllocators)
<1> SUFFICES ASSUME Faultless PROVE Spec => ResetsIdleAllocators
  OBVIOUS
<1>1. ASSUME FullInv, Gpu!PaceDone, saved # <<>>, NEW q \in {0, 1}
      PROVE  ListsOf(q, Slot) = {}
  <2>1. Gpu!InPace
    BY <1>1 DEF Gpu!PaceDone, Gpu!InPace
  <2>2. ListsAt(queue[q], Gpu!NewestSlot)
    BY <1>1, <2>1 DEF FullInv, ListsInv
  <2>3. frame_index \in Known!Slots
    BY <1>1, SameConstants, SlotNumbers, GpuTypes DEF FullInv, BaseInv
  <2>4. Known!PrevSlot(frame_index) # frame_index
    BY <2>3, SameAssumption, Known!SlotRing
  <2>5. Gpu!NewestSlot # frame_index
    BY <2>1, <2>4 DEF Gpu!NewestSlot, Gpu!PrevSlot, Known!PrevSlot
  <2> QED
    BY <2>2, <2>5 DEF ListsAt, ListsOf, Slot
<1> DEFINE Resets == /\ ListsOf(VideoEncode, Slot) = {}
                     /\ ListsOf(Compute, Slot) = {} \/ (curr_frame = FrameCount /\ saved = <<>>)
<1>2. FullInv /\ EarlyInv /\ [Next]_vars => [Gpu!PaceDone => Resets]_vars
  <2> SUFFICES ASSUME FullInv, EarlyInv, Gpu!PaceDone PROVE Resets
    OBVIOUS
  <2>1. CASE saved # <<>>
    BY <1>1, <2>1 DEF Compute, VideoEncode, Gpu!Compute, Gpu!VideoEncode
  <2>2. CASE saved = <<>>
    BY <2>2, EarlyReset DEF Compute, VideoEncode, Gpu!Compute, Gpu!VideoEncode
  <2> QED
    BY <2>1, <2>2
<1>3. Init => EarlyInv
  BY DEF Init, Gpu!Init, EarlyInv, Gpu!InPace, ListsUpTo, Gpu!CmdQueues, Gpu!Compute, Gpu!VideoEncode
<1>4. FullInv /\ EarlyInv /\ [Next]_vars => EarlyInv'
  BY EarlyStep
<1> QED
  BY <1>2, <1>3, <1>4, Invariant, PTL DEF Spec, ResetsIdleAllocators

\* The assertion of SaveTexture holds whenever the input has a frame.
THEOREM SavesExistingTexture == Faultless /\ 0 \notin FrameNums => (Spec => []TextureExists)
<1> SUFFICES ASSUME Faultless, 0 \notin FrameNums PROVE Spec => []TextureExists
  OBVIOUS
<1>1. ASSUME FullInv PROVE TextureExists
  <2>1. input.frames \in FrameNums /\ input.frames \in Nat
    BY <1>1, FrameNumbers DEF FullInv, BaseInv, ControlInv, MainTypes
  <2> QED
    BY <1>1, <2>1 DEF FullInv, BaseInv, ControlInv, Counting, TextureExists
<1> QED
  BY <1>1, Invariant, PTL

\* Two sequences joined are the third that has their elements.
LEMMA Joined ==
    ASSUME NEW S, NEW a \in Seq(S), NEW b \in Seq(S), NEW c \in Seq(S), Len(c) = Len(a) + Len(b),
           \A j \in 1 .. Len(a) : c[j] = a[j],
           \A j \in 1 .. Len(b) : c[Len(a) + j] = b[j]
    PROVE  a \o b = c
<1> DEFINE d == a \o b
<1>1. d \in Seq(S) /\ Len(d) = Len(a) + Len(b)
  BY ConcatProperties
<1>2. \A j \in 1 .. Len(a) + Len(b) : d[j] = IF j <= Len(a) THEN a[j] ELSE b[j - Len(a)]
  BY ConcatProperties
<1> HIDE DEF d
<1>3. Len(a) \in Nat /\ Len(b) \in Nat
  OBVIOUS
<1>4. \A j \in 1 .. Len(d) : d[j] = c[j]
  <2> SUFFICES ASSUME NEW j \in 1 .. Len(d) PROVE d[j] = c[j]
    OBVIOUS
  <2>1. CASE j <= Len(a)
    BY <1>1, <1>2, <1>3, <2>1
  <2>2. CASE ~(j <= Len(a))
    <3>1. j - Len(a) \in 1 .. Len(b) /\ Len(a) + (j - Len(a)) = j
      BY <1>1, <1>3, <2>2
    <3>2. d[j] = b[j - Len(a)]
      BY <1>1, <1>2, <2>2
    <3> QED
      BY <3>1, <3>2
  <2> QED
    BY <2>1, <2>2
<1>5. d = c
  BY <1>1, <1>4, SeqEqual
<1> QED
  BY <1>5 DEF d

\* The elements of a picture.
LEMMA PictureParts ==
    ASSUME NEW k \in Nat, k > 1, NEW t \in Nat
    PROVE  PictureOver(k, t) =
             IF input.overlay THEN <<k, k - 1, k, t, k - 1, k, t>> ELSE <<k, k - 1, k, t>>
<1> DEFINE one == <<k>>
           m == <<k - 1, k, t>>
           four == <<k, k - 1, k, t>>
           seven == <<k, k - 1, k, t, k - 1, k, t>>
<1>1. one \o m = four
  <2>1. one \in Seq(Nat) /\ m \in Seq(Nat) /\ four \in Seq(Nat)
    OBVIOUS
  <2>2. Len(four) = Len(one) + Len(m)
    OBVIOUS
  <2>3. \A j \in 1 .. Len(one) : four[j] = one[j]
    OBVIOUS
  <2>4. \A j \in 1 .. Len(m) : four[Len(one) + j] = m[j]
    OBVIOUS
  <2> HIDE DEF one, m, four
  <2> QED
    BY <2>1, <2>2, <2>3, <2>4, Joined
<1>2. four \o m = seven
  <2>1. four \in Seq(Nat) /\ m \in Seq(Nat) /\ seven \in Seq(Nat)
    OBVIOUS
  <2>2. Len(seven) = Len(four) + Len(m)
    OBVIOUS
  <2>3. \A j \in 1 .. Len(four) : seven[j] = four[j]
    OBVIOUS
  <2>4. \A j \in 1 .. Len(m) : seven[Len(four) + j] = m[j]
    OBVIOUS
  <2> HIDE DEF m, four, seven
  <2> QED
    BY <2>1, <2>2, <2>3, <2>4, Joined
<1>3. four \o <<>> = four
  <2>1. four \in Seq(Nat)
    OBVIOUS
  <2> HIDE DEF four
  <2> QED
    BY <2>1, ConcatEmptySeq
<1>4. PictureOver(k, t) = one \o m \o (IF input.overlay THEN m ELSE <<>>)
  <2>1. k # 1
    OBVIOUS
  <2> QED
    BY <2>1, Zenon DEF PictureOver, Motion
<1> HIDE DEF one, m
<1>5. PictureOver(k, t) = four \o (IF input.overlay THEN m ELSE <<>>)
  BY <1>1, <1>4
<1> QED
  BY <1>2, <1>3, <1>5

\* Where the frames of a video differ in timespan the one constant buffer of the
\* propagation costs at most frame 2 its timespan, and that is then the one of frame 3:
\* from there on a frame is saved, and the queues drained, before the next is read.
THEOREM TimespanLateOnce == Faultless /\ FrameCount <= 3 => (Spec => []OneTimespanLate)
<1> SUFFICES ASSUME Faultless, FrameCount <= 3 PROVE Spec => []OneTimespanLate
  OBVIOUS
<1>1. ASSUME FullInv, pc = "done", NEW k \in 1 .. input.frames, file[k] # Stream!Picture(k)
      PROVE  /\ k = 2
             /\ file[k] = [n \in DOMAIN Stream!Picture(k) |->
                             IF n \in {4, 7} THEN Stream!Timespan(3) ELSE Stream!Picture(k)[n]]
  <2>1. input.frames \in Nat /\ FrameCount \in {2, 3}
    BY <1>1, FrameNumbers, SlotNumbers DEF FullInv, BaseInv, ControlInv
  <2>0. MainTypes /\ k \in Nat \ {0}
    BY <1>1, <2>1 DEF FullInv, BaseInv, ControlInv
  <2>2. file[k] \in Pictures(k)
    BY <1>1, FilesAtEnd
  <2>3. PICK t \in Spans(k) : file[k] = PictureOver(k, t)
    BY <2>2 DEF Pictures
  <2>4. t # Stream!Timespan(k)
    BY <1>1, <2>0, <2>3, OwnPicture
  <2>5. k # 1
    BY <1>1, <2>0, <2>3, OwnPicture DEF PictureOver
  <2>6. PICK m \in k + 1 .. FrameCount : t = Stream!Timespan(m)
    BY <2>3, <2>4 DEF Spans
  <2>7. k = 2 /\ t = Stream!Timespan(3) /\ t \in Nat /\ Stream!Timespan(k) \in Nat
    BY <2>1, <2>5, <2>6 DEF Stream!Timespan
  <2>8. Stream!Picture(k) = PictureOver(k, Stream!Timespan(k))
    BY <2>0, OwnPicture
  <2> DEFINE u == Stream!Timespan(k)
  <2>9. /\ Stream!Picture(k) = IF input.overlay THEN <<2, 1, 2, u, 1, 2, u>> ELSE <<2, 1, 2, u>>
        /\ file[k] = IF input.overlay THEN <<2, 1, 2, t, 1, 2, t>> ELSE <<2, 1, 2, t>>
    BY <2>3, <2>7, <2>8, PictureParts
  <2> HIDE DEF u
  <2>10. file[k] = [n \in DOMAIN Stream!Picture(k) |-> IF n \in {4, 7} THEN t ELSE Stream!Picture(k)[n]]
    BY <2>9
  <2> QED
    BY <2>7, <2>10
<1>2. FullInv => OneTimespanLate
  <2> HIDE DEF FullInv
  <2> QED
    BY <1>1, Zenon DEF OneTimespanLate
<1> QED
  BY <1>2, Invariant, PTL

\* The program implements FrameStream: with one timespan for all frames every step takes
\* the next frame, saves the picture of the oldest one, writes a file or changes nothing
\* that a FrameStream knows.
THEOREM ProgramIsFrameStream == Faultless /\ ~VariableRate => (Spec => IsFrameStream)
<1> SUFFICES ASSUME Faultless, ~VariableRate PROVE Spec => IsFrameStream
  OBVIOUS
<1>1. Init => Stream!Init
  BY DEF Init, Stream!Init, Nothing, Stream!NoPicture
<1>2. ASSUME FullInv, [Next]_vars PROVE [Stream!Next]_(Stream!stream_vars)
  <2>0. BaseInv /\ ControlInv /\ ValueInv /\ TexInv /\ FilesInv /\ MainTypes
    BY <1>2 DEF FullInv, BaseInv, ControlInv
  <2>6. Stream!Goes
    <3> SUFFICES ASSUME NEW k \in 1 .. curr_frame PROVE Stream!ShownFrom(k) # {}
      BY DEF Stream!Goes
    <3>1. k \in Nat \ {0}
      BY <2>0, FrameNumbers
    <3> QED
      BY <2>0, <3>1, ShowsItself
  <2>1. CASE ReadFrame /\ curr_frame < input.frames
    <3>1. /\ curr_frame' = curr_frame + 1 /\ UNCHANGED <<input, saved, file>>
          /\ pc = "loop" /\ total_frames = 0
      BY <2>1 DEF ReadFrame
    <3>2. curr_frame - Len(saved) < FrameCount
      BY <2>0, <2>1, <3>1, WindowFacts, SlotNumbers
    <3> QED
      BY <2>1, <2>6, <3>1, <3>2 DEF Stream!Next, Stream!Take
  <2>2. CASE SaveTexture
    <3>1. /\ saved' = Append(saved, tex["memory"][SavingSlot]) /\ UNCHANGED <<input, curr_frame, file>>
          /\ pc = "save"
      BY <2>2 DEF SaveTexture
    <3>2. tex["memory"][SavingSlot] = Stream!Picture(Len(saved) + 1)
      <4>0. Len(saved) + 1 \in Nat \ {0}
        BY <2>0, <3>1, WindowFacts
      <4>1. Pictures(Len(saved) + 1) = {Stream!Picture(Len(saved) + 1)}
        BY <2>0, <4>0, OnlyPicture
      <4> HIDE DEF Pictures
      <4> QED
        BY <2>0, <2>2, <4>1, SavedPicture
    <3>3. /\ Len(saved) \in Nat /\ curr_frame \in Nat /\ Len(saved) + 1 \in Window
          /\ curr_frame = input.frames \/ curr_frame = Len(saved) + FrameCount
      BY <2>0, <3>1, WindowFacts
    <3>4. /\ Len(saved) < curr_frame
          /\ curr_frame = input.frames \/ curr_frame - Len(saved) = FrameCount
      BY <3>3, SlotNumbers DEF Window
    <3> QED
      BY <2>6, <3>1, <3>2, <3>4 DEF Stream!Next, Stream!Save
  <2>3. ASSUME NEW k \in DOMAIN writer, WriteFile(k) PROVE [Stream!Next]_(Stream!stream_vars)
    <3>1. /\ writer[k] = "running" /\ file' = [file EXCEPT ![k] = saved[k]]
          /\ UNCHANGED <<input, saved, curr_frame>>
      BY <2>3 DEF WriteFile
    <3>2. k \in DOMAIN saved /\ k \in 1 .. input.frames
      BY <2>0, <2>3, SavedNumber DEF FilesInv, ControlInv, MainTypes
    <3>3. file[k] = Stream!NoPicture
      BY <2>0, <3>1, <3>2 DEF FilesInv, Nothing, Stream!NoPicture
    <3> QED
      BY <3>1, <3>2, <3>3 DEF Stream!Next, Stream!WriteFile
  <2>4. CASE UNCHANGED <<input, saved, file>> /\ curr_frame' = curr_frame
    BY <2>4 DEF Stream!stream_vars
  <2>5. CASE NoWriting \/ PollThreads \/ JoinThreads
    <3>1. UNCHANGED <<input, saved, file>>
      BY <2>5 DEF NoWriting, PollThreads, JoinThreads, main_vars
    <3> QED
      BY <1>2, <2>0, <2>1, <2>4, <3>1, FrameTaken
  <2> QED
    BY <1>2, <2>2, <2>3, <2>5, SavingKinds
<1> QED
  BY <1>1, <1>2, Invariant, PTL DEF Spec, IsFrameStream, Stream!Spec

(***************************************************************************)
(* The program ends                                                        *)
(***************************************************************************)

\* The rounds of the loop that are left, the one under way included.
RoundsLeft == input.frames + FrameCount - i

\* The labels that main still comes to in this round, or more: from one on, before plane n.
Order(label, n) ==
    CASE label = "random_tex" -> 27
      [] label = "loop" -> 26
      [] label = "upload" -> 25
      [] label = "mf_copy" -> 25 - n
      [] label = "mf_flush" -> 23
      [] label = "add_frame" -> 22
      [] label = "copy_in" -> 21 - n
      [] label = "copy_in_flush" -> 19
      [] label = "to_rgb" -> 18
      [] label = "to_nv12" -> 17
      [] label = "copy_out" -> 16
      [] label = "copy_out_flush" -> 15
      [] label = "estimate" -> 14
      [] label = "timespan" -> 13
      [] label = "propagate" -> 12
      [] label = "gather" -> 11
      [] label = "overlay" -> 10
      [] label = "move" -> 9
      [] label = "after" -> 8
      [] label = "readback" -> 7
      [] label = "readback_wait" -> 6
      [] label = "save" -> 5
      [] label = "loop_end" -> 4
      [] label = "join" -> 3
      [] label = "final_wait" -> 2
      [] label = "done" -> 1
      [] label = "aborted" -> 0
LabelsLeft == Order(pc, plane)

\* The steps left of a call that waits: WaitForGpu takes four for each queue.
CallLeft ==
    CASE call = "pace" -> 2
      [] call = "pace_await" -> 1
      [] call = "flush" -> 9 - 4 * wait_queue
      [] call = "check" -> 7 - 4 * wait_queue
      [] call = "await" -> 6 - 4 * wait_queue
      [] OTHER -> 0

ToOpen == (IF open[0] = FrameCount THEN 1 ELSE 0) + (IF open[1] = FrameCount THEN 1 ELSE 0)
ComputeLeft == Len(queue[0])
EncodeLeft == Len(queue[1])
GpuLeft == CallLeft + ToOpen + ComputeLeft + EncodeLeft
Running == {k \in 1 .. Len(writer) : writer[k] = "running"}
ThreadsLeft == Cardinality(Running)

\* A label weighs more than the steps of a call, a submission and a thread, and a round
\* more than its labels.
Weight(r, l, g, t) == 300 * r + 12 * l + g + t

\* More than the steps of all actors that are left.
StepsLeft == Weight(RoundsLeft, LabelsLeft, GpuLeft, ThreadsLeft)

\* How many there are in the beginning.
MostSteps == 300 * (input.frames + FrameCount) + 326

\* The order of the labels, one by one.
LEMMA OrderValues ==
    ASSUME NEW n \in {0, 1}
    PROVE  /\ Order("random_tex", n) = 27
           /\ Order("loop", n) = 26
           /\ Order("upload", n) = 25
           /\ Order("mf_copy", n) = 25 - n
           /\ Order("mf_flush", n) = 23
           /\ Order("add_frame", n) = 22
           /\ Order("copy_in", n) = 21 - n
           /\ Order("copy_in_flush", n) = 19
           /\ Order("to_rgb", n) = 18
           /\ Order("to_nv12", n) = 17
           /\ Order("copy_out", n) = 16
           /\ Order("copy_out_flush", n) = 15
           /\ Order("estimate", n) = 14
           /\ Order("timespan", n) = 13
           /\ Order("propagate", n) = 12
           /\ Order("gather", n) = 11
           /\ Order("overlay", n) = 10
           /\ Order("move", n) = 9
           /\ Order("after", n) = 8
           /\ Order("readback", n) = 7
           /\ Order("readback_wait", n) = 6
           /\ Order("save", n) = 5
           /\ Order("loop_end", n) = 4
           /\ Order("join", n) = 3
           /\ Order("final_wait", n) = 2
           /\ Order("done", n) = 1
           /\ Order("aborted", n) = 0
  BY DEF Order

\* The summands are numbers, and there is a round left.
LEMMA RoundNumbers ==
    ASSUME ControlInv
    PROVE  RoundsLeft \in Nat \ {0} /\ LabelsLeft \in 0 .. 27
<1>1. /\ pc \in Labels /\ i \in Nat /\ plane \in {0, 1} /\ input.frames \in Nat
      /\ curr_frame \in 0 .. input.frames /\ total_frames \in Nat
  BY FrameNumbers DEF ControlInv, MainTypes, LastPlane
<1>2. i < input.frames + FrameCount
  <2>1. CASE input.frames = 0
    BY <1>1, <2>1, SlotNumbers DEF ControlInv, EmptyInput
  <2>2. CASE input.frames > 0
    BY <1>1, <2>2, SlotNumbers DEF ControlInv, Counting, Labels, Body, Reading, Ending, Final
  <2> QED
    BY <1>1, <2>1, <2>2
<1>3. RoundsLeft \in Nat \ {0}
  BY <1>1, <1>2, SlotNumbers DEF RoundsLeft
<1>4. LabelsLeft \in 0 .. 27
  BY <1>1, OrderValues DEF LabelsLeft, Labels
<1> QED
  BY <1>3, <1>4

\* So are those of GpuSystem.
LEMMA GpuNumbers ==
    ASSUME ProgramInv
    PROVE  /\ CallLeft \in 0 .. 9 /\ ToOpen \in 0 .. 2
           /\ ComputeLeft \in Nat /\ EncodeLeft \in Nat
           /\ GpuLeft \in Nat
<1>1. wait_queue \in {0, 1, 2} /\ (call \in {"check", "await"} => wait_queue \in {0, 1})
  BY GpuTypes DEF ProgramInv, Known!TypeOK, Known!CmdQueueNum
<1>2. CallLeft \in 0 .. 9
  BY <1>1 DEF CallLeft
<1>3. ComputeLeft \in Nat /\ EncodeLeft \in Nat
  BY GpuTypes DEF ComputeLeft, EncodeLeft
<1>4. ToOpen \in 0 .. 2
  BY DEF ToOpen
<1> QED
  BY <1>2, <1>3, <1>4 DEF GpuLeft

\* And of the threads.
LEMMA RunningNumber ==
    ASSUME FilesInv
    PROVE  IsFiniteSet(Running) /\ Cardinality(Running) \in Nat
<1>1. Len(writer) \in Nat
  BY DEF FilesInv
<1>2. IsFiniteSet(1 .. Len(writer))
  BY <1>1, FS_Interval
<1>3. Running \subseteq 1 .. Len(writer)
  BY DEF Running
<1>4. IsFiniteSet(Running)
  BY <1>2, <1>3, FS_Subset
<1> QED
  BY <1>4, FS_CardinalityType

\* An entry makes a queue longer by one, whatever it holds.
LEMMA Longer ==
    ASSUME NEW S, NEW s \in Seq(S), NEW e
    PROVE  Append(s, e) \in Seq(S \cup {e}) /\ Len(Append(s, e)) = Len(s) + 1
<1>1. s \in Seq(S \cup {e})
  OBVIOUS
<1> QED
  BY <1>1, AppendProperties

\* A submission puts three entries into a queue at most and may close the list.
LEMMA SubmitLeft ==
    ASSUME ProgramInv, CallInv, NEW q \in {0, 1}, NEW v, NEW job,
           Gpu!Execute(q, v, job) \/ Gpu!ExecuteAndReset(q, v, job)
    PROVE  GpuLeft' \in Nat /\ GpuLeft' <= GpuLeft + 5
<1>1. Gpu!ExecuteOnly(q, v, job) /\ call' = "idle" /\ call = "idle"
  BY SubmitNewest, SubmitEffect
<1>2. queue'[q] = Entered(q, v, job) /\ queue'[1 - q] = queue[1 - q]
  BY <1>1, SubmitEffect
<1>3. Len(Entered(q, v, job)) \in Nat /\ Len(Entered(q, v, job)) <= Len(queue[q]) + 3
  <2> DEFINE w == Gpu!Wait(v)
             e == Gpu!Exec(frame_index, job)
             g == Gpu!Signal(Newest)
             s == IF v # FenceBound + 1 THEN Append(queue[q], w) ELSE queue[q]
             S == Known!Entry \cup {w}
  <2>1. queue[q] \in Seq(Known!Entry)
    BY GpuTypes
  <2> HIDE DEF w, e, g
  <2>2. s \in Seq(S) /\ Len(s) \in Nat /\ Len(s) <= Len(queue[q]) + 1
    <3>1. Append(queue[q], w) \in Seq(S) /\ Len(Append(queue[q], w)) = Len(queue[q]) + 1
      BY <2>1, Longer
    <3>2. queue[q] \in Seq(S)
      BY <2>1
    <3> HIDE DEF S
    <3> QED
      BY <2>1, <3>1, <3>2
  <2> HIDE DEF s, S
  <2>3. Append(s, e) \in Seq(S \cup {e}) /\ Len(Append(s, e)) = Len(s) + 1
    BY <2>2, Longer
  <2>4. Len(Append(Append(s, e), g)) = Len(s) + 2
    BY <2>2, <2>3, Longer
  <2>5. Entered(q, v, job) = Append(Append(s, e), g)
    BY Zenon DEF Entered, Put, s, e, g, w
  <2> QED
    BY <2>1, <2>2, <2>4, <2>5
<1>4. CallLeft' = 0 /\ ToOpen' \in 0 .. 2
  BY <1>1 DEF CallLeft, ToOpen
<1> DEFINE n == Len(Entered(q, v, job))
<1>5. \/ n <= ComputeLeft + 3 /\ ComputeLeft' = n /\ EncodeLeft' = EncodeLeft
      \/ n <= EncodeLeft + 3 /\ EncodeLeft' = n /\ ComputeLeft' = ComputeLeft
  <2>1. CASE q = 0
    BY <1>2, <1>3, <2>1 DEF ComputeLeft, EncodeLeft
  <2>2. CASE q = 1
    BY <1>2, <1>3, <2>2 DEF ComputeLeft, EncodeLeft
  <2> QED
    BY <2>1, <2>2
<1>6. n \in Nat
  BY <1>3
<1> HIDE DEF n
<1> QED
  BY <1>4, <1>5, <1>6, GpuNumbers DEF GpuLeft

\* MoveToNextFrame signals in both queues.
LEMMA MoveLeft ==
    ASSUME ProgramInv, Gpu!MoveToNextFrame
    PROVE  GpuLeft' \in Nat /\ GpuLeft' <= GpuLeft + 4
<1>1. /\ call = "idle" /\ call' = "pace" /\ open' = open
      /\ queue' = [q \in {0, 1} |-> Append(queue[q], Gpu!Signal(Gpu!CurrFenceVal))]
  BY DEF Gpu!MoveToNextFrame, Gpu!Ready, Gpu!CmdQueues, Gpu!Compute, Gpu!VideoEncode
<1>2. CallLeft' = 2 /\ CallLeft = 0 /\ ToOpen' = ToOpen
  BY <1>1 DEF CallLeft, ToOpen
<1> DEFINE e == Gpu!Signal(Gpu!CurrFenceVal)
<1>3. queue'[0] = Append(queue[0], e) /\ queue'[1] = Append(queue[1], e)
  BY <1>1
<1> HIDE DEF e
<1>4. ComputeLeft' = ComputeLeft + 1
  BY <1>3, GpuTypes, Longer DEF ComputeLeft
<1>5. EncodeLeft' = EncodeLeft + 1
  BY <1>3, GpuTypes, Longer DEF EncodeLeft
<1> QED
  BY <1>2, <1>4, <1>5, GpuNumbers DEF GpuLeft

\* WaitForGpu takes nine steps more.
LEMMA WaitLeft ==
    ASSUME ProgramInv, Gpu!WaitForGpu
    PROVE  GpuLeft' \in Nat /\ GpuLeft' <= GpuLeft + 9
<1>1. /\ call = "idle" /\ call' = "flush" /\ wait_queue' = 0 /\ UNCHANGED <<open, queue>>
  BY DEF Gpu!WaitForGpu, Gpu!Ready
<1>2. CallLeft' = 9 /\ CallLeft = 0
  BY <1>1 DEF CallLeft
<1>3. UNCHANGED <<ToOpen, ComputeLeft, EncodeLeft>>
  BY <1>1 DEF ToOpen, ComputeLeft, EncodeLeft
<1> QED
  BY <1>2, <1>3, GpuNumbers DEF GpuLeft

\* A list that is opened is one less to open.
LEMMA OpenLeft ==
    ASSUME ProgramInv, NEW q \in {0, 1}, Gpu!CreateCommandList(q)
    PROVE  GpuLeft' \in Nat /\ GpuLeft' < GpuLeft
<1>1. /\ open[q] = FrameCount /\ open' = [open EXCEPT ![q] = frame_index]
      /\ UNCHANGED <<call, wait_queue, queue>>
  BY DEF Gpu!CreateCommandList, Gpu!NoSlot
<1>2. frame_index # FrameCount /\ open = [r \in {0, 1} |-> open[r]]
  BY GpuTypes, SlotNumbers
<1>3. open'[q] # FrameCount /\ open'[1 - q] = open[1 - q]
  BY <1>1, <1>2
<1>4. ToOpen \in 1 .. 2 /\ ToOpen' = ToOpen - 1
  <2>1. CASE q = 0
    BY <1>1, <1>3, <2>1 DEF ToOpen
  <2>2. CASE q = 1
    BY <1>1, <1>3, <2>2 DEF ToOpen
  <2> QED
    BY <2>1, <2>2
<1>5. UNCHANGED <<CallLeft, ComputeLeft, EncodeLeft>>
  BY <1>1 DEF CallLeft, ComputeLeft, EncodeLeft
<1> QED
  BY <1>4, <1>5, GpuNumbers DEF GpuLeft

\* A step inside a call is one less of it, although FlushSignal adds an entry.
LEMMA CallStepLeft ==
    ASSUME ProgramInv, Gpu!CallStep
    PROVE  GpuLeft' \in Nat /\ GpuLeft' < GpuLeft
<1>1. wait_queue \in {0, 1, 2} /\ (call \in {"check", "await"} => wait_queue \in {0, 1})
  BY GpuTypes DEF ProgramInv, Known!TypeOK, Known!CmdQueueNum
<1>2. UNCHANGED open
  BY DEF Gpu!CallStep, Gpu!PaceWait, Gpu!PaceDone, Gpu!StartSlot, Gpu!FlushSignal, Gpu!FlushWait,
     Gpu!FlushPassed, Gpu!FlushSkip, Gpu!FlushWoken, Gpu!WaitForGpuReturns
<1>3. ToOpen' = ToOpen
  BY <1>2 DEF ToOpen
<1>4. CASE Gpu!FlushSignal
  <2>1. /\ call = "flush" /\ call' = "check" /\ wait_queue' = wait_queue /\ wait_queue \in {0, 1}
        /\ queue' = [queue EXCEPT ![wait_queue] = Append(@, Gpu!Signal(Gpu!CurrFenceVal))]
    BY <1>1, <1>4 DEF Gpu!FlushSignal, Gpu!CmdQueueNum
  <2>2. CallLeft' = CallLeft - 2
    BY <2>1 DEF CallLeft
  <2> DEFINE e == Gpu!Signal(Gpu!CurrFenceVal)
  <2>3. /\ queue'[wait_queue] = Append(queue[wait_queue], e)
        /\ queue'[1 - wait_queue] = queue[1 - wait_queue]
    BY <2>1, GpuTypes
  <2> HIDE DEF e
  <2>4. \/ ComputeLeft' = ComputeLeft + 1 /\ EncodeLeft' = EncodeLeft
        \/ ComputeLeft' = ComputeLeft /\ EncodeLeft' = EncodeLeft + 1
    <3>1. CASE wait_queue = 0
      BY <2>3, <3>1, GpuTypes, Longer DEF ComputeLeft, EncodeLeft
    <3>2. CASE wait_queue = 1
      BY <2>3, <3>2, GpuTypes, Longer DEF ComputeLeft, EncodeLeft
    <3> QED
      BY <2>1, <3>1, <3>2
  <2>5. CallLeft' \in 0 .. 9
    BY <2>1 DEF CallLeft
  <2> QED
    BY <1>3, <2>2, <2>4, <2>5, GpuNumbers DEF GpuLeft
<1>5. CASE Gpu!PaceWait \/ Gpu!PaceDone \/ Gpu!FlushWait \/ Gpu!FlushPassed \/ Gpu!FlushSkip \/ Gpu!FlushWoken
           \/ Gpu!WaitForGpuReturns
  <2>1. /\ UNCHANGED queue
        /\ \/ call = "pace" /\ call' = "pace_await"
           \/ call \in {"pace", "pace_await"} /\ call' = "idle"
           \/ call = "check" /\ call' = "await" /\ wait_queue' = wait_queue
           \/ /\ call \in {"flush", "check", "await"} /\ wait_queue \in {0, 1}
              /\ call' = "flush" /\ wait_queue' = wait_queue + 1
           \/ call = "flush" /\ wait_queue = 2 /\ call' = "idle"
    BY <1>1, <1>5 DEF Gpu!PaceWait, Gpu!PaceDone, Gpu!StartSlot, Gpu!FlushWait,
       Gpu!FlushPassed, Gpu!FlushSkip, Gpu!FlushWoken, Gpu!WaitForGpuReturns, Gpu!CmdQueueNum
  <2>2. CallLeft' \in 0 .. 9 /\ CallLeft' < CallLeft
    BY <1>1, <2>1 DEF CallLeft
  <2>3. UNCHANGED <<ComputeLeft, EncodeLeft>>
    BY <2>1 DEF ComputeLeft, EncodeLeft
  <2> QED
    BY <1>3, <2>2, <2>3, GpuNumbers DEF GpuLeft
<1> QED
  BY <1>4, <1>5 DEF Gpu!CallStep

\* The GPU runs an entry.
LEMMA GpuStepLeft ==
    ASSUME ProgramInv, NEW q \in {0, 1}, Gpu!GpuStep(q)
    PROVE  GpuLeft' \in Nat /\ GpuLeft' < GpuLeft
<1>1. /\ UNCHANGED <<call, wait_queue, open>> /\ queue[q] # <<>>
      /\ queue' = [queue EXCEPT ![q] = Tail(@)]
  BY DEF Gpu!GpuStep, Gpu!GpuWait, Gpu!GpuExec, Gpu!GpuSignal, Gpu!HeadIs, Gpu!Pop
<1> DEFINE s == queue[q]
           t == Tail(s)
<1>2. queue[q] = s /\ queue'[q] = t /\ queue'[1 - q] = queue[1 - q]
  BY <1>1, GpuTypes
<1>3. s \in Seq(Known!Entry) /\ s # <<>>
  BY <1>1, GpuTypes
<1> HIDE DEF s
<1>4. Len(t) = Len(s) - 1 /\ Len(s) \in Nat \ {0}
  BY <1>3
<1> HIDE DEF t
<1>5. \/ ComputeLeft = Len(s) /\ ComputeLeft' = Len(t) /\ EncodeLeft' = EncodeLeft
      \/ EncodeLeft = Len(s) /\ EncodeLeft' = Len(t) /\ ComputeLeft' = ComputeLeft
  <2>1. CASE q = 0
    <3>1. queue[0] = s /\ queue'[0] = t /\ queue'[1] = queue[1]
      BY <1>2, <2>1
    <3> QED
      BY <3>1, Zenon DEF ComputeLeft, EncodeLeft
  <2>2. CASE q = 1
    <3>1. queue[1] = s /\ queue'[1] = t /\ queue'[0] = queue[0]
      BY <1>2, <2>2
    <3> QED
      BY <3>1, Zenon DEF ComputeLeft, EncodeLeft
  <2> QED
    BY <2>1, <2>2
<1>6. UNCHANGED <<CallLeft, ToOpen>>
  BY <1>1 DEF CallLeft, ToOpen
<1> DEFINE n == Len(s)
           m == Len(t)
<1>7. n \in Nat \ {0} /\ m = n - 1
  BY <1>4
<1>8. \/ ComputeLeft = n /\ ComputeLeft' = m /\ EncodeLeft' = EncodeLeft
      \/ EncodeLeft = n /\ EncodeLeft' = m /\ ComputeLeft' = ComputeLeft
  BY <1>5
<1> HIDE DEF n, m
<1> QED
  BY <1>6, <1>7, <1>8, GpuNumbers DEF GpuLeft

\* SaveTexture starts a thread; a thread that has written its file is done.
LEMMA ThreadSteps ==
    ASSUME FilesInv
    PROVE  /\ UNCHANGED writer => Cardinality(Running)' = Cardinality(Running)
           /\ PollThreads => Cardinality(Running)' = Cardinality(Running)
           /\ SaveTexture => Cardinality(Running)' = Cardinality(Running) + 1
           /\ \A k \in DOMAIN writer : WriteFile(k) =>
                Cardinality(Running)' = Cardinality(Running) - 1
<1>1. Len(writer) \in Nat /\ writer \in Seq({"running", "ready", "erased"})
      /\ DOMAIN writer = 1 .. Len(writer)
  BY DEF FilesInv
<1>2. ASSUME UNCHANGED writer PROVE Cardinality(Running)' = Cardinality(Running)
  BY <1>2 DEF Running
<1>3. ASSUME PollThreads PROVE Cardinality(Running)' = Cardinality(Running)
  <2>1. CASE writer' = [k \in DOMAIN writer |-> IF writer[k] = "ready" THEN "erased" ELSE writer[k]]
    <3>1. writer' \in Seq({"running", "ready", "erased"}) /\ Len(writer') = Len(writer)
      BY <1>1, <2>1
    <3>2. Running' = Running
      BY <1>1, <2>1, <3>1 DEF Running
    <3> QED
      BY <3>2
  <2> QED
    BY <1>2, <1>3, <2>1 DEF PollThreads
<1>4. ASSUME SaveTexture PROVE Cardinality(Running)' = Cardinality(Running) + 1
  <2>1. writer' = Append(writer, "running")
    BY <1>4 DEF SaveTexture
  <2>2. Running' = Running \cup {Len(writer) + 1} /\ Len(writer) + 1 \notin Running
    BY <1>1, <2>1 DEF Running
  <2> QED
    BY <2>2, RunningNumber, FS_AddElement
<1>5. ASSUME NEW k \in DOMAIN writer, WriteFile(k)
      PROVE  Cardinality(Running)' = Cardinality(Running) - 1
  <2>1. writer[k] = "running" /\ writer' = [writer EXCEPT ![k] = "ready"]
    BY <1>5 DEF WriteFile
  <2>2. Running' = Running \ {k} /\ k \in Running
    BY <1>1, <2>1 DEF Running
  <2> QED
    BY <2>2, RunningNumber, FS_RemoveElement
<1> QED
  BY <1>2, <1>3, <1>4, <1>5

\* The steps of main that do not call GpuSystem, and those that submit a list.
OwnSteps == ReadFrame \/ SkipRead \/ AddFrame \/ SetTimespan \/ PollThreads \/ JoinThreads
Submissions ==
    \/ UploadRandomTex \/ Upload \/ VideoRead \/ CopyIn \/ CopyOut \/ Readback \/ SaveTexture
    \/ ConvertToRgb \/ ConvertToNv12 \/ PropagateMotionBlur \/ GatherMotionBlur
    \/ OverlayMotionVector \/ EstimateMotionVectors
WaitingCalls == Move \/ ReadbackWait \/ FinalWait

\* Main comes to a later label of the round.
LaterLabel == RoundsLeft' = RoundsLeft /\ LabelsLeft' < LabelsLeft

\* It does by the steps of its own ...
LEMMA OwnAdvances == ASSUME plane \in {0, 1}, plane' \in {0, 1}, OwnSteps PROVE LaterLabel
<1>1. UNCHANGED <<input, i>>
  BY DEF OwnSteps, ReadFrame, SkipRead, AddFrame, SetTimespan, PollThreads, JoinThreads, main_vars
<1>2. \/ pc = "loop" /\ pc' \in {"upload", "mf_copy"} /\ plane' = 0
      \/ pc = "loop" /\ pc' \in {"add_frame", "after"}
      \/ pc = "add_frame" /\ pc' \in {"copy_in", "aborted"} /\ plane' = plane
      \/ pc = "timespan" /\ pc' = "propagate"
      \/ pc = "after" /\ pc' \in {"readback", "loop_end", "aborted"}
      \/ pc = "join" /\ pc' = "final_wait"
  BY DEF OwnSteps, ReadFrame, SkipRead, AddFrame, SetTimespan, PollThreads, JoinThreads, Goto
<1>3. LabelsLeft' < LabelsLeft
  BY <1>2, OrderValues DEF LabelsLeft
<1> QED
  BY <1>1, <1>3 DEF LaterLabel, RoundsLeft

\* ... by its submissions ...
LEMMA SubmissionAdvances == ASSUME plane \in {0, 1}, plane' \in {0, 1}, Submissions PROVE LaterLabel
<1>1. UNCHANGED <<input, i>>
  BY DEF Submissions, UploadRandomTex, Upload, VideoRead, CopyIn, CopyOut, Readback, SaveTexture, CopyPlane,
     ExecuteEmpty, ConvertToRgb, ConvertToNv12, PropagateMotionBlur, GatherMotionBlur,
     OverlayMotionVector, EstimateMotionVectors, Pass, main_vars
<1> SUFFICES LabelsLeft' < LabelsLeft
  BY <1>1 DEF LaterLabel, RoundsLeft
<1>2. LastPlane \in {0, 1}
  BY DEF LastPlane
<1>3. ASSUME NEW label \in {"mf_copy", "copy_in"}, NEW job, NEW next \in {"mf_flush", "copy_in_flush"},
             CopyPlane(label, job, next), label = "mf_copy" <=> next = "mf_flush"
      PROVE  LabelsLeft' < LabelsLeft
  <2>1. /\ pc = label
        /\ \/ pc' = label /\ plane = 0 /\ plane' = 1
           \/ pc' = next
    BY <1>2, <1>3 DEF CopyPlane, Goto
  <2> QED
    BY <1>3, <2>1, OrderValues DEF LabelsLeft
<1>4. CASE VideoRead \/ CopyIn
  <2>1. CASE ExecuteEmpty("mf_flush", "add_frame")
             \/ ExecuteEmpty("copy_in_flush", IF Video THEN "to_rgb" ELSE "to_nv12")
    <3>1. \/ pc = "mf_flush" /\ pc' = "add_frame"
          \/ pc = "copy_in_flush" /\ pc' \in {"to_rgb", "to_nv12"}
      BY <2>1 DEF ExecuteEmpty, Goto
    <3> QED
      BY <3>1, OrderValues DEF LabelsLeft
  <2> QED
    BY <1>3, <1>4, <2>1 DEF VideoRead, CopyIn
<1>5. CASE UploadRandomTex \/ Upload \/ CopyOut \/ Readback \/ SaveTexture
  <2>1. \/ pc = "random_tex" /\ pc' = "loop"
        \/ pc = "upload" /\ pc' = "add_frame"
        \/ pc = "copy_out" /\ pc' = "copy_out_flush"
        \/ pc = "copy_out_flush" /\ pc' = "move"
        \/ pc = "readback" /\ pc' = "readback_wait"
        \/ pc = "save" /\ pc' = "loop_end"
    BY <1>5, Zenon DEF UploadRandomTex, Upload, CopyOut, Readback, SaveTexture, ExecuteEmpty, Goto
  <2> QED
    BY <2>1, OrderValues DEF LabelsLeft
<1>6. CASE ConvertToRgb \/ ConvertToNv12 \/ PropagateMotionBlur \/ GatherMotionBlur
           \/ OverlayMotionVector \/ EstimateMotionVectors
  <2>1. \/ pc = "to_rgb" /\ pc' = "to_nv12"
        \/ pc = "to_nv12" /\ pc' \in {"copy_out", "estimate"}
        \/ pc = "propagate" /\ pc' = "gather"
        \/ pc = "gather" /\ pc' \in {"overlay", "move"}
        \/ pc = "overlay" /\ pc' = "move"
        \/ pc = "estimate" /\ pc' = "timespan"
    BY <1>6 DEF ConvertToRgb, ConvertToNv12, PropagateMotionBlur, GatherMotionBlur,
       OverlayMotionVector, EstimateMotionVectors, Pass, Goto
  <2> QED
    BY <2>1, OrderValues DEF LabelsLeft
<1> QED
  BY <1>4, <1>5, <1>6 DEF Submissions

\* ... and by the calls that wait.
LEMMA WaitingAdvances == ASSUME plane \in {0, 1}, plane' \in {0, 1}, WaitingCalls PROVE LaterLabel
<1>1. UNCHANGED <<input, i>>
  BY DEF WaitingCalls, Move, ReadbackWait, FinalWait, main_vars
<1>2. \/ pc = "move" /\ pc' = "after"
      \/ pc = "readback_wait" /\ pc' = "save"
      \/ pc = "final_wait" /\ pc' = "done"
  BY DEF WaitingCalls, Move, ReadbackWait, FinalWait, Goto
<1>3. LabelsLeft' < LabelsLeft
  BY <1>2, OrderValues DEF LabelsLeft
<1> QED
  BY <1>1, <1>3 DEF LaterLabel, RoundsLeft

\* What a step does to the four summands.
Falls ==
    \/ /\ UNCHANGED <<RoundsLeft, LabelsLeft>>
       /\ \/ GpuLeft' < GpuLeft /\ ThreadsLeft' = ThreadsLeft
          \/ GpuLeft' = GpuLeft /\ ThreadsLeft' = ThreadsLeft - 1
    \/ LaterLabel /\ GpuLeft' <= GpuLeft + 9 /\ ThreadsLeft' <= ThreadsLeft + 1
    \/ /\ RoundsLeft' = RoundsLeft - 1 /\ LabelsLeft' = LabelsLeft + 22
       /\ GpuLeft' = GpuLeft /\ ThreadsLeft' = ThreadsLeft

\* Main submits lists to a queue.
LEMMA SubmissionQueue ==
    ASSUME Submissions
    PROVE  \E q \in {0, 1} : \E v, job : Gpu!Execute(q, v, job) \/ Gpu!ExecuteAndReset(q, v, job)
<1>1. CASE UploadRandomTex \/ Upload \/ VideoRead \/ CopyIn \/ CopyOut \/ Readback \/ SaveTexture
  <2>1. \E v, job : Gpu!Execute(Compute, v, job) \/ Gpu!ExecuteAndReset(Compute, v, job)
    BY <1>1, Zenon DEF UploadRandomTex, Upload, VideoRead, CopyIn, CopyOut, Readback, SaveTexture, CopyPlane,
       ExecuteEmpty
  <2> QED
    BY <2>1 DEF Compute, Gpu!Compute
<1>2. CASE ConvertToRgb \/ ConvertToNv12 \/ PropagateMotionBlur \/ GatherMotionBlur \/ OverlayMotionVector
  <2>1. \E v, job : Gpu!Execute(Compute, v, job)
    BY <1>2, Zenon DEF ConvertToRgb, ConvertToNv12, PropagateMotionBlur, GatherMotionBlur,
       OverlayMotionVector, Pass
  <2> QED
    BY <2>1 DEF Compute, Gpu!Compute
<1>3. CASE EstimateMotionVectors
  <2>1. \E v, job : Gpu!Execute(VideoEncode, v, job)
    BY <1>3, Zenon DEF EstimateMotionVectors, Pass
  <2> QED
    BY <2>1 DEF VideoEncode, Gpu!VideoEncode
<1> QED
  BY <1>1, <1>2, <1>3 DEF Submissions

\* Every step of main, of a thread or of the GPU lets them fall.
LEMMA StepFalls == ASSUME FullInv, Next PROVE Falls
<1>0. ControlInv /\ ProgramInv /\ CallInv /\ FilesInv
  BY DEF FullInv, BaseInv
<1>1. Cardinality(Running) \in Nat /\ GpuLeft \in Nat
  BY <1>0, RunningNumber, GpuNumbers
<1>10. plane \in {0, 1} /\ plane' \in {0, 1}
  <2>1. [Next]_vars
    OBVIOUS
  <2> QED
    BY <1>0, <2>1, ProgramKept DEF ProgramInv, UseInv
<1>2. ASSUME NEW q \in {0, 1}, CreateCommandList(q) PROVE Falls
  <2>1. UNCHANGED <<main_vars, pc>> /\ Gpu!CreateCommandList(q)
    BY <1>2 DEF CreateCommandList
  <2>2. UNCHANGED <<RoundsLeft, LabelsLeft>> /\ UNCHANGED writer
    BY <2>1 DEF main_vars, RoundsLeft, LabelsLeft
  <2> QED
    BY <1>0, <2>1, <2>2, OpenLeft, ThreadSteps DEF Falls, ThreadsLeft
<1>3. CASE GpuCall
  <2>1. UNCHANGED <<main_vars, pc>> /\ Gpu!CallStep
    BY <1>3 DEF GpuCall
  <2>2. UNCHANGED <<RoundsLeft, LabelsLeft>> /\ UNCHANGED writer
    BY <2>1 DEF main_vars, RoundsLeft, LabelsLeft
  <2> QED
    BY <1>0, <2>1, <2>2, CallStepLeft, ThreadSteps DEF Falls, ThreadsLeft
<1>4. ASSUME NEW q \in {0, 1}, GpuRuns(q) PROVE Falls
  <2>1. UNCHANGED <<main_vars, pc>> /\ Gpu!GpuStep(q)
    BY <1>4 DEF GpuRuns
  <2>2. UNCHANGED <<RoundsLeft, LabelsLeft>> /\ UNCHANGED writer
    BY <2>1 DEF main_vars, RoundsLeft, LabelsLeft
  <2> QED
    BY <1>0, <2>1, <2>2, GpuStepLeft, ThreadSteps DEF Falls, ThreadsLeft
<1>5. ASSUME NEW k \in DOMAIN writer, WriteFile(k) PROVE Falls
  <2>1. UNCHANGED <<gpu_vars, input, pc, i, plane>>
    BY <1>5 DEF WriteFile
  <2>2. UNCHANGED <<RoundsLeft, LabelsLeft, GpuLeft>>
    BY <2>1 DEF gpu_vars, RoundsLeft, LabelsLeft, GpuLeft, CallLeft, ToOpen, ComputeLeft, EncodeLeft
  <2> QED
    BY <1>0, <1>5, <2>2, ThreadSteps DEF Falls, ThreadsLeft
<1>6. CASE OwnSteps
  <2>1. UNCHANGED gpu_vars /\ (PollThreads \/ UNCHANGED writer)
    BY <1>6 DEF OwnSteps, ReadFrame, SkipRead, AddFrame, SetTimespan, PollThreads, JoinThreads, main_vars
  <2>2. UNCHANGED GpuLeft
    BY <2>1 DEF gpu_vars, GpuLeft, CallLeft, ToOpen, ComputeLeft, EncodeLeft
  <2>3. Cardinality(Running)' = Cardinality(Running)
    BY <1>0, <2>1, ThreadSteps
  <2> QED
    BY <1>0, <1>1, <1>6, <2>2, <2>3, <1>10, OwnAdvances DEF Falls, ThreadsLeft
<1>7. CASE Submissions
  <2>1. PICK q \in {0, 1} : \E v, job : Gpu!Execute(q, v, job) \/ Gpu!ExecuteAndReset(q, v, job)
    BY <1>7, SubmissionQueue
  <2>2. GpuLeft' \in Nat /\ GpuLeft' <= GpuLeft + 5
    BY <1>0, <2>1, SubmitLeft
  <2>3. SaveTexture \/ UNCHANGED writer
    BY <1>7 DEF Submissions, UploadRandomTex, Upload, VideoRead, CopyIn, CopyOut, Readback, CopyPlane,
       ExecuteEmpty, ConvertToRgb, ConvertToNv12, PropagateMotionBlur, GatherMotionBlur,
       OverlayMotionVector, EstimateMotionVectors, Pass, main_vars
  <2>4. Cardinality(Running)' <= Cardinality(Running) + 1
    BY <1>0, <1>1, <2>3, ThreadSteps
  <2> QED
    BY <1>0, <1>1, <1>7, <2>2, <2>4, <1>10, SubmissionAdvances DEF Falls, ThreadsLeft
<1>8. CASE WaitingCalls
  <2>1. UNCHANGED main_vars /\ (Gpu!MoveToNextFrame \/ Gpu!WaitForGpu)
    BY <1>8 DEF WaitingCalls, Move, ReadbackWait, FinalWait
  <2>2. GpuLeft' \in Nat /\ GpuLeft' <= GpuLeft + 9
    BY <1>0, <1>1, <2>1, MoveLeft, WaitLeft
  <2>3. Cardinality(Running)' = Cardinality(Running)
    BY <1>0, <2>1, ThreadSteps DEF main_vars
  <2> QED
    BY <1>1, <1>8, <2>2, <2>3, <1>10, WaitingAdvances DEF Falls, ThreadsLeft
<1>9. CASE LoopEnd
  <2>1. /\ UNCHANGED <<gpu_vars, input, writer, plane>> /\ pc = "loop_end" /\ i \in Nat
        /\ \/ pc' = "join" /\ i' = i
           \/ pc' = "loop" /\ i' = i + 1
    BY <1>0, <1>9, Zenon DEF LoopEnd, LoopEndsAt, Goto, ControlInv, MainTypes
  <2>2. UNCHANGED GpuLeft
    BY <2>1 DEF gpu_vars, GpuLeft, CallLeft, ToOpen, ComputeLeft, EncodeLeft
  <2>3. Cardinality(Running)' = Cardinality(Running)
    BY <1>0, <2>1, ThreadSteps
  <2>4. CASE pc' = "join" /\ i' = i
    <3>1. LaterLabel
      BY <1>10, <2>1, <2>4, OrderValues DEF LaterLabel, RoundsLeft, LabelsLeft
    <3> QED
      BY <1>1, <2>2, <2>3, <3>1 DEF Falls, ThreadsLeft
  <2>5. CASE pc' = "loop" /\ i' = i + 1
    <3>1. LabelsLeft' = LabelsLeft + 22
      BY <1>10, <2>1, <2>5, OrderValues DEF LabelsLeft
    <3>2. RoundsLeft' = RoundsLeft - 1
      BY <1>0, <2>1, <2>5, FrameNumbers, SlotNumbers DEF RoundsLeft, ControlInv, MainTypes
    <3> QED
      BY <2>2, <2>3, <3>1, <3>2 DEF Falls, ThreadsLeft
  <2> QED
    BY <2>1, <2>4, <2>5
<1> QED
  BY <1>2, <1>3, <1>4, <1>5, <1>6, <1>7, <1>8, <1>9
     DEF Next, Main, OwnSteps, Submissions, WaitingCalls, Gpu!CmdQueues, Gpu!Compute, Gpu!VideoEncode

\* The four summands of the steps left are numbers.
LeftTypes ==
    RoundsLeft \in Nat \ {0} /\ LabelsLeft \in 0 .. 27 /\ GpuLeft \in Nat /\ ThreadsLeft \in Nat
LEMMA LeftNumbers == FullInv => LeftTypes
  BY RoundNumbers, GpuNumbers, RunningNumber DEF FullInv, BaseInv, ThreadsLeft, LeftTypes

\* Whatever moves between the summands in a step, the sum falls.
LEMMA WeightFalls ==
    ASSUME NEW r \in Nat, NEW l \in Nat, NEW g \in Nat, NEW t \in Nat,
           NEW r1 \in Nat, NEW l1 \in Nat, NEW g1 \in Nat, NEW t1 \in Nat,
           \/ r1 = r /\ l1 = l /\ g1 < g /\ t1 = t
           \/ r1 = r /\ l1 = l /\ g1 = g /\ t1 = t - 1
           \/ r1 = r /\ l1 < l /\ g1 <= g + 9 /\ t1 <= t + 1
           \/ r1 = r - 1 /\ l1 = l + 22 /\ g1 = g /\ t1 = t
    PROVE  Weight(r1, l1, g1, t1) < Weight(r, l, g, t)
  BY DEF Weight

\* It is a number, and a round is worth three hundred.
LEMMA WeightRange ==
    ASSUME NEW r \in Nat, NEW l \in Nat, NEW g \in Nat, NEW t \in Nat
    PROVE  /\ Weight(r, l, g, t) \in Nat /\ Weight(r, l, g, t) >= g
           /\ r >= 1 => Weight(r, l, g, t) >= 300
  BY DEF Weight

\* So their sum falls.
LEMMA StepCounts ==
    ASSUME LeftTypes, LeftTypes', Falls
    PROVE  StepsLeft \in Nat /\ StepsLeft >= 300 /\ StepsLeft' \in Nat /\ StepsLeft' < StepsLeft
<1>1. /\ RoundsLeft \in Nat /\ RoundsLeft >= 1 /\ LabelsLeft \in Nat /\ GpuLeft \in Nat
      /\ ThreadsLeft \in Nat
  BY DEF LeftTypes
<1>2. /\ RoundsLeft' \in Nat /\ RoundsLeft' >= 1 /\ LabelsLeft' \in Nat /\ GpuLeft' \in Nat
      /\ ThreadsLeft' \in Nat
  BY DEF LeftTypes
<1>3. /\ StepsLeft = Weight(RoundsLeft, LabelsLeft, GpuLeft, ThreadsLeft)
      /\ StepsLeft' = Weight(RoundsLeft', LabelsLeft', GpuLeft', ThreadsLeft')
  BY DEF StepsLeft
<1>4. StepsLeft \in Nat /\ StepsLeft >= 300 /\ StepsLeft' \in Nat
  BY <1>1, <1>2, <1>3, WeightRange
<1>5. \/ RoundsLeft' = RoundsLeft /\ LabelsLeft' = LabelsLeft /\ GpuLeft' < GpuLeft
         /\ ThreadsLeft' = ThreadsLeft
      \/ RoundsLeft' = RoundsLeft /\ LabelsLeft' = LabelsLeft /\ GpuLeft' = GpuLeft
         /\ ThreadsLeft' = ThreadsLeft - 1
      \/ RoundsLeft' = RoundsLeft /\ LabelsLeft' < LabelsLeft /\ GpuLeft' <= GpuLeft + 9
         /\ ThreadsLeft' <= ThreadsLeft + 1
      \/ RoundsLeft' = RoundsLeft - 1 /\ LabelsLeft' = LabelsLeft + 22 /\ GpuLeft' = GpuLeft
         /\ ThreadsLeft' = ThreadsLeft
  BY Zenon DEF Falls, LaterLabel
<1>6. Weight(RoundsLeft', LabelsLeft', GpuLeft', ThreadsLeft')
        < Weight(RoundsLeft, LabelsLeft, GpuLeft, ThreadsLeft)
  BY <1>1, <1>2, <1>5, WeightFalls
<1> QED
  BY <1>3, <1>4, <1>6

\* Every step lets the steps left fall, so no run has more of them than the first state says.
LEMMA StepOrStutter == FullInv /\ LeftTypes /\ LeftTypes' /\ [Next]_vars =>
    /\ [StepsLeft' < StepsLeft]_vars
    /\ StepsLeft \in Nat /\ StepsLeft >= 300 /\ StepsLeft' \in Nat /\ StepsLeft' <= StepsLeft
<1> SUFFICES ASSUME FullInv, LeftTypes, LeftTypes', [Next]_vars
             PROVE  /\ [StepsLeft' < StepsLeft]_vars
                    /\ StepsLeft \in Nat /\ StepsLeft >= 300 /\ StepsLeft' \in Nat
                    /\ StepsLeft' <= StepsLeft
  OBVIOUS
<1>1. CASE Next
  <2>1. StepsLeft \in Nat /\ StepsLeft >= 300 /\ StepsLeft' \in Nat /\ StepsLeft' < StepsLeft
    BY <1>1, StepFalls, StepCounts
  <2> QED
    BY <2>1
<1>2. CASE UNCHANGED vars
  <2>1. UNCHANGED <<gpu_vars, input, pc, i, plane, writer>>
    BY <1>2 DEF vars, main_vars
  <2>2. UNCHANGED <<RoundsLeft, LabelsLeft, GpuLeft>>
    BY <2>1 DEF gpu_vars, RoundsLeft, LabelsLeft, GpuLeft, CallLeft, ToOpen, ComputeLeft, EncodeLeft
  <2>3. UNCHANGED ThreadsLeft
    BY <2>1 DEF ThreadsLeft, Running
  <2>4. StepsLeft' = StepsLeft
    BY <2>2, <2>3 DEF StepsLeft
  <2>5. RoundsLeft \in Nat /\ RoundsLeft >= 1 /\ LabelsLeft \in Nat /\ GpuLeft \in Nat /\ ThreadsLeft \in Nat
    BY DEF LeftTypes
  <2>6. StepsLeft \in Nat /\ StepsLeft >= 300
    BY <2>5, WeightRange DEF StepsLeft
  <2> QED
    BY <1>2, <2>4, <2>6
<1> QED
  BY <1>1, <1>2

\* A step makes at most one new value for the fence.
LEMMA NewestGrows ==
    ASSUME FullInv, [Next]_vars
    PROVE  Newest \in Nat /\ Newest' \in {Newest, Newest + 1}
<1>0. ProgramInv /\ CallInv
  BY DEF FullInv, BaseInv
<1>1. Newest \in Nat
  BY <1>0, GpuTypes
<1>2. CASE Submissions
  <2>1. PICK q \in {0, 1} : \E v, job : Gpu!Execute(q, v, job) \/ Gpu!ExecuteAndReset(q, v, job)
    BY <1>2, SubmissionQueue
  <2> QED
    BY <1>0, <1>1, <2>1, SubmitNewest
<1>3. CASE GpuCall \/ Move
  BY <1>0, <1>1, <1>3, CallNewest DEF GpuCall, Move
<1>4. CASE \/ OwnSteps \/ LoopEnd \/ (\E k \in DOMAIN writer : WriteFile(k)) \/ UNCHANGED vars
  <2>1. UNCHANGED gpu_vars
    BY <1>4 DEF OwnSteps, ReadFrame, SkipRead, AddFrame, SetTimespan, PollThreads, JoinThreads, LoopEnd,
       LoopEndsAt, WriteFile, vars
  <2> QED
    BY <1>1, <2>1 DEF gpu_vars, Newest, Gpu!NewestVal, Gpu!NewestSlot, Gpu!InPace, Gpu!PrevSlot
<1>5. CASE ReadbackWait \/ FinalWait
  <2>1. call = "idle" /\ call' = "flush" /\ UNCHANGED <<frame_index, fence_vals>>
    BY <1>5 DEF ReadbackWait, FinalWait, Gpu!WaitForGpu, Gpu!Ready
  <2> QED
    BY <1>1, <2>1 DEF Newest, Gpu!NewestVal, Gpu!NewestSlot, Gpu!InPace
<1>6. ASSUME NEW q, CreateCommandList(q) \/ GpuRuns(q) PROVE Newest' = Newest
  <2>1. UNCHANGED <<call, frame_index, fence_vals>>
    BY <1>6 DEF CreateCommandList, Gpu!CreateCommandList, GpuRuns, Gpu!GpuStep, Gpu!GpuWait,
       Gpu!GpuExec, Gpu!GpuSignal
  <2> QED
    BY <2>1 DEF Newest, Gpu!NewestVal, Gpu!NewestSlot, Gpu!InPace, Gpu!PrevSlot
<1> QED
  BY <1>1, <1>2, <1>3, <1>4, <1>5, <1>6 DEF Next, Main, OwnSteps, Submissions

\* What the steps so far have used of the steps that there are.
Budget ==
    /\ StepsLeft \in Nat /\ StepsLeft >= 300 /\ StepsLeft <= MostSteps
    /\ Newest + StepsLeft <= MostSteps + 1

\* The program begins within its budget ...
LEMMA BudgetInit == Faultless /\ Init => LeftTypes /\ Budget
<1> SUFFICES ASSUME Faultless, Init PROVE LeftTypes /\ Budget
  OBVIOUS
<1>1. FullInv /\ LeftTypes
  BY FullInit, LeftNumbers
<1>2. /\ pc = "random_tex" /\ i = 0 /\ plane = 0 /\ writer = <<>> /\ call = "idle"
      /\ open = [q \in {0, 1} |-> FrameCount] /\ queue = [q \in {0, 1} |-> <<>>]
      /\ frame_index = 0 /\ fence_vals = [s \in 0 .. FrameCount - 1 |-> IF s = 0 THEN 0 + 1 ELSE 0]
  BY SlotNumbers DEF Init, Gpu!Init, Gpu!CmdQueues, Gpu!Compute, Gpu!VideoEncode, Gpu!NoSlot
<1>3. LabelsLeft = 27
  BY <1>2, OrderValues DEF LabelsLeft
<1>4. CallLeft = 0 /\ ToOpen = 2 /\ ComputeLeft = 0 /\ EncodeLeft = 0
  BY <1>2 DEF CallLeft, ToOpen, ComputeLeft, EncodeLeft
<1>5. GpuLeft = 2
  BY <1>4 DEF GpuLeft
<1>6. ThreadsLeft = 0
  <2>1. Running = {}
    BY <1>2 DEF Running
  <2> QED
    BY <2>1, FS_EmptySet DEF ThreadsLeft
<1>7. RoundsLeft = input.frames + FrameCount /\ RoundsLeft \in Nat \ {0}
  <2>1. input.frames \in Nat
    BY <1>1, FrameNumbers DEF FullInv, BaseInv, ControlInv, MainTypes
  <2> QED
    BY <1>1, <1>2, <2>1, SlotNumbers DEF RoundsLeft, LeftTypes
<1>8. Newest = 1
  BY <1>2, SlotNumbers DEF Newest, Gpu!NewestVal, Gpu!NewestSlot, Gpu!InPace
<1> DEFINE r == RoundsLeft
<1>9. StepsLeft = Weight(r, 27, 2, 0) /\ MostSteps = 300 * r + 326 /\ r \in Nat \ {0}
  BY <1>3, <1>5, <1>6, <1>7 DEF StepsLeft, MostSteps
<1> HIDE DEF r
<1> QED
  BY <1>1, <1>8, <1>9 DEF Budget, Weight

\* ... and stays there.
LEMMA BudgetNext == FullInv /\ LeftTypes /\ LeftTypes' /\ Budget /\ [Next]_vars => Budget'
<1> SUFFICES ASSUME FullInv, LeftTypes, LeftTypes', Budget, [Next]_vars PROVE Budget'
  OBVIOUS
<1>1. /\ StepsLeft \in Nat /\ StepsLeft' \in Nat /\ StepsLeft' <= StepsLeft
      /\ [StepsLeft' < StepsLeft]_vars
  BY StepOrStutter
<1>2. Newest \in Nat /\ Newest' \in {Newest, Newest + 1}
  BY NewestGrows
<1>3. StepsLeft' < StepsLeft \/ Newest' = Newest
  <2>1. CASE UNCHANGED vars
    BY <2>1 DEF vars, gpu_vars, Newest, Gpu!NewestVal, Gpu!NewestSlot, Gpu!InPace, Gpu!PrevSlot
  <2> QED
    BY <1>1, <2>1
<1>4. MostSteps \in Nat
  <2>1. input.frames \in Nat
    BY FrameNumbers DEF FullInv, BaseInv, ControlInv, MainTypes
  <2> QED
    BY <2>1, SlotNumbers DEF MostSteps
<1>5. StepsLeft' >= 300
  <2>1. RoundsLeft' \in Nat /\ RoundsLeft' >= 1 /\ LabelsLeft' \in Nat /\ GpuLeft' \in Nat /\ ThreadsLeft' \in Nat
    BY DEF LeftTypes
  <2>2. StepsLeft' = Weight(RoundsLeft', LabelsLeft', GpuLeft', ThreadsLeft')
    BY DEF StepsLeft
  <2> QED
    BY <2>1, <2>2, WeightRange
<1>6. StepsLeft <= MostSteps /\ Newest + StepsLeft <= MostSteps + 1
  BY DEF Budget
<1>7. StepsLeft' <= MostSteps
  BY <1>1, <1>4, <1>6
<1>8. Newest' + StepsLeft' <= MostSteps + 1
  <2>1. \A n, m, x, y, z \in Nat : m <= n + 1 /\ (y < x \/ m = n) /\ y <= x /\ n + x <= z + 1 =>
          m + y <= z + 1
    OBVIOUS
  <2>2. Newest' \in Nat /\ Newest' <= Newest + 1 /\ (StepsLeft' < StepsLeft \/ Newest' = Newest)
    BY <1>2, <1>3
  <2>3. StepsLeft \in Nat /\ StepsLeft' \in Nat /\ StepsLeft' <= StepsLeft
    BY <1>1
  <2> QED
    BY <1>2, <1>4, <1>6, <2>1, <2>2, <2>3
<1>9. MostSteps' = MostSteps
  <2>1. input' = input
    BY SavingKinds DEF NoWriting, SaveTexture, PollThreads, JoinThreads, WriteFile, main_vars
  <2> QED
    BY <2>1 DEF MostSteps
<1> QED
  BY <1>1, <1>5, <1>7, <1>8, <1>9, Zenon DEF Budget

\* Lists are open only between the labels that open and those that submit them, and where
\* main counts on one that ExecuteAndReset left, it is there.
LeftOpen == {"mf_flush", "copy_in_flush", "copy_out_flush", "readback_wait", "save"}
ListInv ==
    /\ open[0] # FrameCount => Submits(0) \/ pc \in LeftOpen
    /\ open[1] # FrameCount => Submits(1)
    /\ pc \in LeftOpen => open[0] # FrameCount

\* The labels that open a list.
LEMMA Opening ==
    /\ Submits(0) <=> pc \in {"random_tex", "upload", "mf_copy", "copy_in", "to_rgb", "to_nv12", "copy_out",
                              "propagate", "gather", "overlay", "readback"}
    /\ Submits(1) <=> pc = "estimate"
  BY DEF Submits, VideoEncode, Gpu!VideoEncode

\* What a submission does to the open lists.
LEMMA SubmitOpen ==
    ASSUME ProgramInv, NEW q \in {0, 1}, NEW v, NEW job
    PROVE  /\ Gpu!Execute(q, v, job) => open'[q] = FrameCount /\ open'[1 - q] = open[1 - q]
           /\ Gpu!ExecuteAndReset(q, v, job) =>
                open'[q] # FrameCount /\ open'[1 - q] = open[1 - q]
<1>1. /\ open = [r \in {0, 1} |-> open[r]] /\ frame_index # FrameCount
  BY GpuTypes, SlotNumbers
<1> QED
  BY <1>1 DEF Gpu!Execute, Gpu!ExecuteAndReset, Gpu!NoSlot

\* No list is open at the start.
LEMMA OpenInit == Init => ListInv
  BY DEF Init, Gpu!Init, ListInv, LeftOpen, Gpu!CmdQueues, Gpu!Compute, Gpu!VideoEncode, Gpu!NoSlot

\* Every step keeps that.
LEMMA OpenNext == FullInv /\ ListInv /\ [Next]_vars => ListInv'
<1> SUFFICES ASSUME FullInv, ListInv, [Next]_vars PROVE ListInv'
  OBVIOUS
<1>0. /\ ProgramInv /\ Compute = 0 /\ VideoEncode = 1
      /\ ListInv' <=> /\ open'[0] # FrameCount => Submits(0)' \/ pc' \in LeftOpen
                      /\ open'[1] # FrameCount => Submits(1)'
                      /\ pc' \in LeftOpen => open'[0] # FrameCount
  BY DEF FullInv, BaseInv, Compute, VideoEncode, Gpu!Compute, Gpu!VideoEncode, ListInv, LeftOpen
<1>1. /\ Submits(0)' <=> pc' \in {"random_tex", "upload", "mf_copy", "copy_in", "to_rgb", "to_nv12", "copy_out",
                              "propagate", "gather", "overlay", "readback"}
      /\ Submits(1)' <=> pc' = "estimate"
  BY DEF Submits, VideoEncode, Gpu!VideoEncode
<1>2. ASSUME NEW q \in {0, 1}, CreateCommandList(q) PROVE ListInv'
  <2>1. /\ Submits(q) /\ pc' = pc /\ open' = [open EXCEPT ![q] = frame_index]
    BY <1>2 DEF CreateCommandList, Gpu!CreateCommandList
  <2>2. open = [r \in {0, 1} |-> open[r]] /\ frame_index # FrameCount
    BY <1>0, GpuTypes, SlotNumbers
  <2>3. open'[q] # FrameCount /\ open'[1 - q] = open[1 - q]
    BY <2>1, <2>2
  <2> QED
    BY <1>0, <1>1, <2>1, <2>3, Opening DEF ListInv, LeftOpen
<1>3. CASE VideoRead \/ CopyIn
  <2>1. ASSUME NEW label \in {"mf_copy", "copy_in"}, NEW job, NEW next \in {"mf_flush", "copy_in_flush"},
               CopyPlane(label, job, next)
        PROVE  ListInv'
    <3>1. pc = label /\ pc' \in {label, next} /\ Gpu!ExecuteAndReset(0, NoWait, job)
      BY <1>0, <2>1 DEF CopyPlane, Goto
    <3>2. open'[0] # FrameCount /\ open'[1] = open[1]
      BY <1>0, <3>1, SubmitOpen
    <3> QED
      BY <1>0, <1>1, <2>1, <3>1, <3>2, Opening DEF ListInv, LeftOpen
  <2>2. ASSUME NEW label \in {"mf_flush", "copy_in_flush"}, NEW next \in {"add_frame", "to_rgb", "to_nv12"},
               ExecuteEmpty(label, next)
        PROVE  ListInv'
    <3>1. pc = label /\ pc' = next /\ Gpu!Execute(0, NoWait, NoJob)
      BY <1>0, <2>2 DEF ExecuteEmpty, Goto
    <3>2. open'[0] = FrameCount /\ open'[1] = open[1]
      BY <1>0, <3>1, SubmitOpen
    <3> QED
      BY <1>0, <1>1, <2>2, <3>1, <3>2, Opening DEF ListInv, LeftOpen
  <2> QED
    BY <1>3, <2>1, <2>2 DEF VideoRead, CopyIn
<1>4. CASE UploadRandomTex \/ Upload \/ SaveTexture \/ ConvertToRgb \/ ConvertToNv12 \/ PropagateMotionBlur
           \/ GatherMotionBlur \/ OverlayMotionVector
  <2>1. /\ \E v, job : Gpu!Execute(0, v, job)
        /\ pc # "estimate"
        /\ pc' \in {"loop", "add_frame", "loop_end", "to_nv12", "copy_out", "estimate", "gather", "overlay", "move"}
    <3>1. CASE UploadRandomTex \/ Upload \/ SaveTexture
      BY <1>0, <3>1 DEF UploadRandomTex, ExecuteEmpty, Upload, SaveTexture, Goto
    <3>2. CASE ConvertToRgb \/ ConvertToNv12 \/ PropagateMotionBlur \/ GatherMotionBlur \/ OverlayMotionVector
      BY <1>0, <3>2 DEF ConvertToRgb, ConvertToNv12, PropagateMotionBlur,
         GatherMotionBlur, OverlayMotionVector, Pass, Goto
    <3> QED
      BY <1>4, <3>1, <3>2
  <2>2. open'[0] = FrameCount /\ open'[1] = open[1]
    BY <1>0, <2>1, SubmitOpen
  <2> QED
    BY <1>0, <1>1, <2>1, <2>2, Opening DEF ListInv, LeftOpen
<1>5. CASE EstimateMotionVectors
  <2>1. (\E v, job : Gpu!Execute(1, v, job)) /\ pc = "estimate" /\ pc' = "timespan"
    BY <1>0, <1>5 DEF EstimateMotionVectors, Pass, Goto
  <2>2. open'[1] = FrameCount /\ open'[0] = open[0]
    BY <1>0, <2>1, SubmitOpen
  <2> QED
    BY <1>0, <1>1, <2>1, <2>2, Opening DEF ListInv, LeftOpen
<1>6. CASE CopyOut \/ Readback
  <2>1. \/ /\ \E v, job : Gpu!ExecuteAndReset(0, v, job)
           /\ pc \in {"copy_out", "readback"} /\ pc' \in {"copy_out_flush", "readback_wait"}
        \/ /\ \E v, job : Gpu!Execute(0, v, job)
           /\ pc = "copy_out_flush" /\ pc' = "move"
    BY <1>0, <1>6 DEF CopyOut, Readback, ExecuteEmpty, Goto
  <2>2. \/ open'[0] # FrameCount /\ open'[1] = open[1] /\ pc' \in {"copy_out_flush", "readback_wait"}
        \/ open'[0] = FrameCount /\ open'[1] = open[1] /\ pc' = "move"
    BY <1>0, <2>1, SubmitOpen
  <2> QED
    BY <1>0, <1>1, <2>1, <2>2, Opening DEF ListInv, LeftOpen
<1>7. CASE OwnSteps \/ WaitingCalls \/ LoopEnd
  <2>1. CASE OwnSteps \/ LoopEnd
    <3>1. /\ open' = open
          /\ pc \in {"loop", "add_frame", "timespan", "after", "join", "loop_end"}
          /\ pc' \in {"upload", "mf_copy", "add_frame", "after", "copy_in", "propagate", "readback", "loop_end",
                      "aborted", "final_wait", "join", "loop"}
      BY <2>1 DEF OwnSteps, ReadFrame, SkipRead, AddFrame, SetTimespan, PollThreads, JoinThreads, LoopEnd,
         LoopEndsAt, Goto, gpu_vars
    <3> QED
      BY <1>0, <1>1, <3>1, Opening DEF ListInv, LeftOpen
  <2>2. CASE WaitingCalls
    <3>1. /\ open' = open
          /\ \/ pc = "move" /\ pc' = "after"
             \/ pc = "readback_wait" /\ pc' = "save"
             \/ pc = "final_wait" /\ pc' = "done"
      BY <2>2 DEF WaitingCalls, Move, ReadbackWait, FinalWait, Goto, Gpu!MoveToNextFrame, Gpu!WaitForGpu
    <3> QED
      BY <1>0, <1>1, <3>1, Opening DEF ListInv, LeftOpen
  <2> QED
    BY <1>7, <2>1, <2>2
<1>8. CASE GpuCall \/ (\E q \in {0, 1} : GpuRuns(q)) \/ (\E k \in DOMAIN writer : WriteFile(k))
           \/ UNCHANGED vars
  <2>1. UNCHANGED <<open, pc>>
    <3>1. Gpu!CallStep => open' = open
      BY DEF Gpu!CallStep, Gpu!PaceWait, Gpu!PaceDone, Gpu!StartSlot, Gpu!FlushSignal,
         Gpu!FlushWait, Gpu!FlushPassed, Gpu!FlushSkip, Gpu!FlushWoken, Gpu!WaitForGpuReturns
    <3>2. ASSUME NEW q, Gpu!GpuStep(q) PROVE open' = open
      BY <3>2 DEF Gpu!GpuStep, Gpu!GpuWait, Gpu!GpuExec, Gpu!GpuSignal
    <3> QED
      BY <1>8, <3>1, <3>2 DEF GpuCall, GpuRuns, WriteFile, vars, gpu_vars
  <2> QED
    BY <1>0, <1>1, <2>1, Opening DEF ListInv
<1> QED
  BY <1>2, <1>3, <1>4, <1>5, <1>6, <1>7, <1>8
     DEF Next, Main, OwnSteps, WaitingCalls, Gpu!CmdQueues, Gpu!Compute, Gpu!VideoEncode

\* Together with what is known of the program.
EndInv == FullInv /\ LeftTypes /\ Budget /\ ListInv

\* They always hold.
LEMMA EndInvHolds == Faultless => (Spec => []EndInv)
<1> SUFFICES ASSUME Faultless PROVE Spec => []EndInv
  OBVIOUS
<1>1. Init => ListInv /\ LeftTypes /\ Budget
  BY BudgetInit, OpenInit
<1>2. FullInv /\ ListInv /\ [Next]_vars => ListInv'
  BY OpenNext
<1>3. FullInv /\ LeftTypes /\ LeftTypes' /\ Budget /\ [Next]_vars => Budget'
  BY BudgetNext
<1>4. Spec => []FullInv
  BY Invariant
<1>5. FullInv => LeftTypes
  BY LeftNumbers
<1>6. FullInv /\ LeftTypes /\ Budget /\ ListInv => EndInv
  BY DEF EndInv
<1> QED
  BY <1>1, <1>2, <1>3, <1>4, <1>5, <1>6, PTL DEF Spec

\* The program ends, as far as safety can say it: every step of the CPU, of a saving thread
\* or of the GPU takes one of a number of steps that the input and the slots determine, so
\* no run goes on for ever, polls without end or starts its loop over.
THEOREM StepsRunOut ==
    Faultless => (Spec => [](StepsLeft \in 0 .. MostSteps) /\ [][StepsLeft' < StepsLeft]_vars)
<1> SUFFICES ASSUME Faultless
             PROVE  Spec => [](StepsLeft \in 0 .. MostSteps) /\ [][StepsLeft' < StepsLeft]_vars
  OBVIOUS
<1>1. EndInv => StepsLeft \in 0 .. MostSteps
  <2> SUFFICES ASSUME EndInv PROVE StepsLeft \in 0 .. MostSteps
    OBVIOUS
  <2>1. input.frames \in Nat
    BY FrameNumbers DEF EndInv, FullInv, BaseInv, ControlInv, MainTypes
  <2>2. MostSteps \in Nat
    BY <2>1, SlotNumbers DEF MostSteps
  <2> QED
    BY <2>2 DEF EndInv, Budget
<1>2. FullInv /\ LeftTypes /\ LeftTypes' /\ [Next]_vars => [StepsLeft' < StepsLeft]_vars
  BY StepOrStutter
<1>3. EndInv => FullInv /\ LeftTypes
  BY DEF EndInv
<1> QED
  BY <1>1, <1>2, <1>3, EndInvHolds, PTL DEF Spec

\* What the CPU thread needs for its next step: inside a call that waits, the event once
\* it sleeps; between calls, a list to open or an open one to submit (whose wait is for a
\* value handed out before), no open list at the end of a frame, no thread left to join.
CpuGoesOn ==
    \/ call \in {"pace", "flush", "check"}
    \/ call \in {"await", "pace_await"} /\ event
    \/ Idle /\ pc \in {"loop", "add_frame", "timespan", "after", "loop_end"}
    \/ Gpu!Ready /\ \E q \in Gpu!CmdQueues : Submits(q) /\ open[q] = Gpu!NoSlot
    \/ /\ Gpu!Ready /\ Gpu!CurrFenceVal <= FenceBound
       /\ \E q \in Gpu!CmdQueues :
            /\ open[q] # Gpu!NoSlot
            /\ Submits(q) \/ (q = Compute /\ pc \in LeftOpen \ {"readback_wait"})
       /\ pc \in {"estimate", "propagate"} => fence_value < Gpu!CurrFenceVal
    \/ /\ Gpu!Ready /\ Gpu!CurrFenceVal <= FenceBound /\ Gpu!Pending <= PendingBound
       /\ \/ pc = "move" /\ \A q \in Gpu!CmdQueues : open[q] = Gpu!NoSlot
          \/ pc \in {"readback_wait", "final_wait"}
    \/ Idle /\ pc = "join" /\ Running = {}

\* What queue q needs for its next step.
GpuGoesOn(q) == queue[q] # <<>> /\ (Gpu!HeadIs(q, "wait") => fence >= Head(queue[q]).val)

\* While it has steps to take the CPU is between calls, or some queue can wake it.
LEMMA SomebodyGoesOn ==
    ASSUME EndInv, ~RewindAllowed, MostSteps <= FenceBound, MostSteps <= PendingBound,
           call \in {"await", "pace_await"} /\ ~event => \E q \in Gpu!CmdQueues : GpuGoesOn(q)
    PROVE  Done \/ CpuGoesOn \/ Running # {} \/ \E q \in Gpu!CmdQueues : GpuGoesOn(q)
<1> SUFFICES ASSUME ~Done, Running = {}, \A q \in Gpu!CmdQueues : ~GpuGoesOn(q) PROVE CpuGoesOn
  OBVIOUS
<1>1. /\ ControlInv /\ ProgramInv /\ CallInv /\ NextInv /\ ListInv /\ Budget /\ LeftTypes
      /\ Gpu!CmdQueues = {0, 1} /\ Gpu!NoSlot = FrameCount /\ Compute = 0
  BY DEF EndInv, FullInv, BaseInv, Gpu!CmdQueues, Gpu!Compute, Gpu!VideoEncode, Gpu!NoSlot, Compute
<1>2. call \in {"idle", "flush", "check", "await", "pace", "pace_await"}
  BY <1>1, GpuTypes
<1>3. CASE call # "idle"
  BY <1>2, <1>3 DEF CpuGoesOn
<1>4. CASE call = "idle"
  <2>1. Gpu!Ready /\ Idle
    BY <1>1, <1>4 DEF CallInv, Gpu!Ready, Idle
  <2>2. Newest = Gpu!CurrFenceVal /\ Newest \in Nat
    <3>1. Newest = Gpu!CurrFenceVal
      BY <1>4, Zenon DEF Newest, Gpu!NewestVal, Gpu!NewestSlot, Gpu!InPace, Gpu!CurrFenceVal
    <3> QED
      BY <1>1, <3>1, GpuTypes
  <2>3. MostSteps \in Nat /\ FenceBound \in Nat /\ PendingBound \in Nat
    <3>1. input.frames \in Nat
      BY <1>1, FrameNumbers DEF ControlInv, MainTypes
    <3> QED
      BY <3>1, SlotNumbers, ProgramAssumption DEF MostSteps, Gpu!GpuAssumption
  <2>4. Gpu!CurrFenceVal <= FenceBound
    <3>1. Newest + StepsLeft <= MostSteps + 1 /\ StepsLeft \in Nat /\ StepsLeft >= 300
      BY <1>1 DEF Budget
    <3>2. Newest <= FenceBound
      BY <2>2, <2>3, <3>1
    <3> QED
      BY <2>2, <3>2
  <2>5. Gpu!Pending <= PendingBound
    <3>1. Gpu!Pending = ComputeLeft + EncodeLeft
      BY Zenon DEF Gpu!Pending, ComputeLeft, EncodeLeft, Gpu!Compute, Gpu!VideoEncode
    <3>2. StepsLeft <= MostSteps
      BY <1>1 DEF Budget
    <3>3. ComputeLeft + EncodeLeft <= StepsLeft
      <4>1. CallLeft \in Nat /\ ToOpen \in Nat /\ ComputeLeft \in Nat /\ EncodeLeft \in Nat
        BY <1>1, GpuNumbers
      <4>2. ComputeLeft + EncodeLeft <= GpuLeft
        BY <4>1 DEF GpuLeft
      <4>3. RoundsLeft \in Nat /\ LabelsLeft \in Nat /\ GpuLeft \in Nat /\ ThreadsLeft \in Nat
        BY <1>1 DEF LeftTypes
      <4>4. StepsLeft >= GpuLeft /\ StepsLeft \in Nat
        BY <4>3, WeightRange DEF StepsLeft
      <4> QED
        BY <4>1, <4>2, <4>3, <4>4
    <3> QED
      BY <1>1, <2>3, <3>1, <3>2, <3>3, GpuNumbers DEF Budget
  <2>6. pc \in {"estimate", "propagate"} => fence_value < Gpu!CurrFenceVal
    BY <1>1, <2>2 DEF NextInv, NextWait
  <2>7. CASE pc \in {"loop", "add_frame", "timespan", "after", "loop_end"}
    BY <2>1, <2>7 DEF CpuGoesOn
  <2>8. ASSUME NEW q \in {0, 1}, Submits(q) PROVE CpuGoesOn
    BY <1>1, <2>1, <2>4, <2>6, <2>8 DEF CpuGoesOn
  <2>9. CASE pc \in LeftOpen \ {"readback_wait"}
    <3>1. open[0] # FrameCount /\ pc \notin {"estimate", "propagate"}
      BY <1>1, <2>9 DEF ListInv, LeftOpen
    <3> QED
      BY <1>1, <2>1, <2>4, <2>9, <3>1 DEF CpuGoesOn
  <2>10. CASE pc \in {"readback_wait", "final_wait"}
    BY <2>1, <2>4, <2>5, <2>10 DEF CpuGoesOn
  <2>11. CASE pc = "move"
    <3>1. open[0] = FrameCount /\ open[1] = FrameCount
      BY <1>1, <2>11, Opening DEF ListInv, LeftOpen
    <3> QED
      BY <1>1, <2>1, <2>4, <2>5, <2>11, <3>1 DEF CpuGoesOn
  <2>12. CASE pc = "join"
    BY <2>1, <2>12 DEF CpuGoesOn
  <2>13. pc \notin {"done", "aborted"}
    BY <2>1 DEF Done
  <2>14. pc \in Labels
    BY <1>1 DEF ControlInv, MainTypes
  <2> QED
    BY <2>7, <2>8, <2>9, <2>10, <2>11, <2>12, <2>13, <2>14, Opening DEF Labels, LeftOpen
<1> QED
  BY <1>3, <1>4

\* Until the program is done somebody can always go on, and not because the model's bounds
\* are kept small: no list is opened twice or submitted unopened, MoveToNextFrame never
\* finds one open, and the CPU never sleeps while no queue can run.
THEOREM NeverStuck ==
    Faultless =>
      (Spec => [](~RewindAllowed /\ MostSteps <= FenceBound /\ MostSteps <= PendingBound =>
                    Done \/ CpuGoesOn \/ Running # {} \/ \E q \in Gpu!CmdQueues : GpuGoesOn(q)))
<1> SUFFICES ASSUME Faultless
             PROVE  Spec => [](~RewindAllowed /\ MostSteps <= FenceBound /\ MostSteps <= PendingBound =>
                       Done \/ CpuGoesOn \/ Running # {} \/ \E q \in Gpu!CmdQueues : GpuGoesOn(q))
  OBVIOUS
<1> DEFINE Served == ~RewindAllowed /\ call \in {"await", "pace_await"} /\ ~event =>
                       \E q \in Gpu!CmdQueues : /\ queue[q] # <<>>
                                                /\ Gpu!HeadIs(q, "wait") => fence >= Head(queue[q]).val
<1>1. Spec => []Served
  BY SleeperIsServed
<1>2. EndInv /\ Served =>
        (~RewindAllowed /\ MostSteps <= FenceBound /\ MostSteps <= PendingBound =>
           Done \/ CpuGoesOn \/ Running # {} \/ \E q \in Gpu!CmdQueues : GpuGoesOn(q))
  <2>1. Served /\ ~RewindAllowed =>
          (call \in {"await", "pace_await"} /\ ~event => \E q \in Gpu!CmdQueues : GpuGoesOn(q))
    BY Zenon DEF GpuGoesOn
  <2> HIDE DEF Served
  <2> QED
    BY <2>1, SomebodyGoesOn
<1> HIDE DEF Served
<1> QED
  BY <1>1, <1>2, EndInvHolds, PTL

=============================================================================
