------------------------------ MODULE GpuSystem ------------------------------
(***************************************************************************)
(* GpuSystem (src/Source/Gpu/GpuSystem.cpp): one CPU thread that submits   *)
(* command lists to two GPU queues, one fence that both queues signal, and *)
(* FrameCount slots of command allocators used in turn.                    *)
(*                                                                         *)
(* The CPU sees the GPU only through the fence, so a call of the API is    *)
(* one step up to the point where it reads the fence, and the steps of the *)
(* GPU interleave with the steps of the call that waits.  The caller here  *)
(* is any caller that respects the API; MotionToGo.tla is the caller that  *)
(* the program really is.                                                  *)
(***************************************************************************)
EXTENDS Integers, Sequences

CONSTANTS
    FrameCount,     \* slots of command allocators (GpuSystem::FrameCount)
    Jobs,           \* what a command list can hold
    NoJob,          \* an empty command list, or an entry that is no list
    RewindAllowed,  \* may a queue that lags set the fence back?
    CallsFail,      \* may Signal and SetEventOnCompletion fail in WaitForGpu?
    FenceBound,     \* bound on the fence values the caller makes
    PendingBound    \* bound on the entries the GPU has not run yet

ASSUME GpuAssumption ==
    /\ FrameCount \in Nat /\ FrameCount >= 2
    /\ RewindAllowed \in BOOLEAN
    /\ CallsFail \in BOOLEAN
    /\ FenceBound \in Nat
    /\ PendingBound \in Nat
    /\ NoJob \notin Jobs

Compute == 0
VideoEncode == 1
CmdQueueNum == 2
CmdQueues == {Compute, VideoEncode}

Slots == 0 .. FrameCount - 1
NoSlot == FrameCount
MaxFenceValue == FenceBound + 1     \* the reserved value: "do not wait"

VARIABLES
    device,         \* FALSE once HandleDeviceLost has dropped the device
    frame_index,    \* frame_index_
    fence_vals,     \* fence_vals_: per slot, the next value to signal
    fence,          \* what GetCompletedValue returns
    event,          \* the auto-reset fence_event_
    queue,          \* per queue, the entries the GPU has not run yet
    pool,           \* per queue, the length of cmd_list_pool
    open,           \* per queue, the slot the open list records into
    call,           \* where the CPU is in a call that waits, or "idle"
    wait_queue      \* the queue that WaitForGpu's loop has reached

gpu_vars == <<device, frame_index, fence_vals, fence, event, queue, pool, open,
              call, wait_queue>>

Calls == {"idle", "flush", "check", "await", "pace", "pace_await"}

Entry == [kind : {"wait", "exec", "signal"}, val : Nat, job : Jobs \cup {NoJob}]
Wait(v)      == [kind |-> "wait",   val |-> v, job |-> NoJob]
Signal(v)    == [kind |-> "signal", val |-> v, job |-> NoJob]
Exec(s, job) == [kind |-> "exec",   val |-> s, job |-> job]

NextSlotUnwrapped(s) == s + 1

NextSlot(s) == (s + 1) % FrameCount
PrevSlot(s) == (s + FrameCount - 1) % FrameCount

CurrFenceVal == fence_vals[frame_index]

Init ==
    /\ device = TRUE
    /\ frame_index = 0
    /\ fence = 0
    /\ fence_vals = [s \in Slots |-> IF s = 0 THEN fence + 1 ELSE 0]
    /\ event = FALSE
    /\ queue = [q \in CmdQueues |-> <<>>]
    /\ pool = [q \in CmdQueues |-> 0]
    /\ open = [q \in CmdQueues |-> NoSlot]
    /\ call = "idle"
    /\ wait_queue = 0

(***************************************************************************)
(* Command lists                                                           *)
(***************************************************************************)

Ready == device /\ call = "idle"

\* An allocator records one list at a time, so a caller holds at most one open
\* list per queue.
CreateCommandList(q) ==
    /\ Ready
    /\ open[q] = NoSlot
    /\ open' = [open EXCEPT ![q] = frame_index]
    /\ pool' = [pool EXCEPT ![q] = IF @ = 0 THEN 0 ELSE @ - 1]
    /\ UNCHANGED <<device, frame_index, fence_vals, fence, event, queue, call,
                   wait_queue>>

\* The wait comes before the list, the list before the signal of the current
\* value, which is then used up.  A caller waits for a value that Execute gave it.
WaitForOwnSignal(q, wait_fence_value, job) ==
    /\ Ready
    /\ open[q] # NoSlot
    /\ CurrFenceVal <= FenceBound
    /\ LET before == IF wait_fence_value # MaxFenceValue
                       THEN Append(queue[q], Wait(CurrFenceVal))
                       ELSE queue[q]
       IN  queue' = [queue EXCEPT ![q] =
                       Append(Append(before, Exec(open[q], job)), Signal(CurrFenceVal))]
    /\ fence_vals' = [fence_vals EXCEPT ![frame_index] = CurrFenceVal + 1]

ExecuteOnly(q, wait_fence_value, job) ==
    /\ Ready
    /\ open[q] # NoSlot
    /\ CurrFenceVal <= FenceBound
    /\ wait_fence_value # MaxFenceValue => wait_fence_value < CurrFenceVal
    /\ LET before == IF wait_fence_value # MaxFenceValue
                       THEN Append(queue[q], Wait(wait_fence_value))
                       ELSE queue[q]
       IN  queue' = [queue EXCEPT ![q] =
                       Append(Append(before, Exec(open[q], job)), Signal(CurrFenceVal))]
    /\ fence_vals' = [fence_vals EXCEPT ![frame_index] = CurrFenceVal + 1]

Execute(q, wait_fence_value, job) ==
    /\ ExecuteOnly(q, wait_fence_value, job)
    /\ open' = [open EXCEPT ![q] = NoSlot]
    /\ pool' = [pool EXCEPT ![q] = @ + 1]
    /\ UNCHANGED <<device, frame_index, fence, event, call, wait_queue>>

ExecuteAndReset(q, wait_fence_value, job) ==
    /\ ExecuteOnly(q, wait_fence_value, job)
    /\ open' = [open EXCEPT ![q] = frame_index]
    /\ UNCHANGED <<device, frame_index, fence, event, pool, call, wait_queue>>

(***************************************************************************)
(* MoveToNextFrame: both queues signal the value of the frame that ends,   *)
(* the next slot's value is awaited, its allocators are reset.             *)
(***************************************************************************)

Pending == Len(queue[Compute]) + Len(queue[VideoEncode])

MoveToNextFrame ==
    /\ Ready
    /\ \A q \in CmdQueues : open[q] = NoSlot
    /\ CurrFenceVal <= FenceBound
    /\ Pending <= PendingBound
    /\ queue' = [q \in CmdQueues |-> Append(queue[q], Signal(CurrFenceVal))]
    /\ frame_index' = NextSlot(frame_index)
    /\ call' = "pace"
    /\ UNCHANGED <<device, fence_vals, fence, event, pool, open, wait_queue>>

StartSlotFromOldValue ==
    /\ fence_vals' = [fence_vals EXCEPT ![frame_index] = @ + 1]
    /\ call' = "idle"
    /\ event' = FALSE
    /\ UNCHANGED <<device, frame_index, fence, queue, pool, open, wait_queue>>

\* curr_fence_value + 1, read back from the slot that the call has left.
StartSlot ==
    /\ fence_vals' = [fence_vals EXCEPT ![frame_index] = fence_vals[PrevSlot(frame_index)] + 1]
    /\ call' = "idle"
    /\ event' = FALSE
    /\ UNCHANGED <<device, frame_index, fence, queue, pool, open, wait_queue>>

PaceWait ==
    /\ call = "pace"
    /\ fence < CurrFenceVal
    /\ call' = "pace_await"
    /\ UNCHANGED <<device, frame_index, fence_vals, fence, event, queue, pool, open,
                   wait_queue>>

PaceUnawaited == call = "pace" /\ StartSlot

PaceDone ==
    \/ call = "pace" /\ fence >= CurrFenceVal /\ StartSlot
    \/ call = "pace_await" /\ event /\ StartSlot

(***************************************************************************)
(* WaitForGpu with its default argument: for each queue in turn, signal    *)
(* the current value and wait for it.  The value is used up only if the    *)
(* fence was found below it.  If one of the two calls that may fail does,  *)
(* the queue is passed over without a word.  (Elsewhere a failed call      *)
(* throws, but for the Wait of a queue in Execute, taken here not to fail.)*)
(***************************************************************************)

WaitForGpu ==
    /\ Ready
    /\ CurrFenceVal <= FenceBound
    /\ Pending <= PendingBound
    /\ call' = "flush"
    /\ wait_queue' = 0
    /\ UNCHANGED <<device, frame_index, fence_vals, fence, event, queue, pool, open>>

FlushSignalsLastValue ==
    /\ call = "flush"
    /\ wait_queue < CmdQueueNum
    /\ queue' = [queue EXCEPT ![wait_queue] = Append(@, Signal(CurrFenceVal - 1))]
    /\ call' = "check"
    /\ UNCHANGED <<device, frame_index, fence_vals, fence, event, pool, open, wait_queue>>

FlushSignal ==
    /\ call = "flush"
    /\ wait_queue < CmdQueueNum
    /\ queue' = [queue EXCEPT ![wait_queue] = Append(@, Signal(CurrFenceVal))]
    /\ call' = "check"
    /\ UNCHANGED <<device, frame_index, fence_vals, fence, event, pool, open, wait_queue>>

FlushWait ==
    /\ call = "check"
    /\ fence < CurrFenceVal
    /\ call' = "await"
    /\ UNCHANGED <<device, frame_index, fence_vals, fence, event, queue, pool, open,
                   wait_queue>>

FlushSkip ==
    /\ CallsFail
    /\ \/ call = "flush" /\ wait_queue < CmdQueueNum
       \/ call = "check" /\ fence < CurrFenceVal
    /\ call' = "flush"
    /\ wait_queue' = wait_queue + 1
    /\ UNCHANGED <<device, frame_index, fence_vals, fence, event, queue, pool, open>>

FlushPassedOffByOne ==
    /\ call = "check"
    /\ fence + 1 >= CurrFenceVal
    /\ call' = "flush"
    /\ wait_queue' = wait_queue + 1
    /\ UNCHANGED <<device, frame_index, fence_vals, fence, event, queue, pool, open>>

FlushPassed ==
    /\ call = "check"
    /\ fence >= CurrFenceVal
    /\ call' = "flush"
    /\ wait_queue' = wait_queue + 1
    /\ UNCHANGED <<device, frame_index, fence_vals, fence, event, queue, pool, open>>

FlushWoken ==
    /\ call = "await"
    /\ event
    /\ event' = FALSE
    /\ fence_vals' = [fence_vals EXCEPT ![frame_index] = CurrFenceVal + 1]
    /\ call' = "flush"
    /\ wait_queue' = wait_queue + 1
    /\ UNCHANGED <<device, frame_index, fence, queue, pool, open>>

WaitForGpuReturns ==
    /\ call = "flush"
    /\ wait_queue = CmdQueueNum
    /\ call' = "idle"
    /\ UNCHANGED <<device, frame_index, fence_vals, fence, event, queue, pool, open,
                   wait_queue>>

(***************************************************************************)
(* The device is lost: queues, pools and fence are dropped.                *)
(***************************************************************************)
HandleDeviceLost ==
    /\ Ready
    /\ device' = FALSE
    /\ queue' = [q \in CmdQueues |-> <<>>]
    /\ pool' = [q \in CmdQueues |-> 0]
    /\ frame_index' = 0
    /\ UNCHANGED <<fence_vals, fence, event, open, call, wait_queue>>

(***************************************************************************)
(* The GPU: each queue runs its entries in order.  A signal sets the fence *)
(* to its value; where the two queues' signals are out of order the fence  *)
(* keeps the larger value or, if RewindAllowed, falls back.                *)
(***************************************************************************)

HeadIs(q, kind) == queue[q] # <<>> /\ Head(queue[q]).kind = kind
Pop(q) == queue' = [queue EXCEPT ![q] = Tail(@)]

GpuWait(q) ==
    /\ HeadIs(q, "wait")
    /\ fence >= Head(queue[q]).val
    /\ Pop(q)
    /\ UNCHANGED <<device, frame_index, fence_vals, fence, event, pool, open, call,
                   wait_queue>>

GpuExec(q) ==
    /\ HeadIs(q, "exec")
    /\ Pop(q)
    /\ UNCHANGED <<device, frame_index, fence_vals, fence, event, pool, open, call,
                   wait_queue>>

GpuSignal(q) ==
    /\ HeadIs(q, "signal")
    /\ Pop(q)
    /\ LET v == Head(queue[q]).val
       IN  fence' \in {IF v > fence THEN v ELSE fence} \cup (IF RewindAllowed THEN {v} ELSE {})
    /\ event' = (event \/ (call \in {"await", "pace_await"} /\ fence' >= CurrFenceVal))
    /\ UNCHANGED <<device, frame_index, fence_vals, pool, open, call, wait_queue>>

GpuStep(q) == GpuWait(q) \/ GpuExec(q) \/ GpuSignal(q)

(***************************************************************************)
(* Specification                                                           *)
(***************************************************************************)

CallStep ==
    \/ PaceWait \/ PaceDone
    \/ FlushSignal \/ FlushWait \/ FlushSkip \/ FlushPassed \/ FlushWoken \/ WaitForGpuReturns

CallStart ==
    \/ \E q \in CmdQueues : CreateCommandList(q)
    \/ \E q \in CmdQueues, v \in 1 .. MaxFenceValue, job \in Jobs \cup {NoJob} :
         Execute(q, v, job) \/ ExecuteAndReset(q, v, job)
    \/ MoveToNextFrame
    \/ WaitForGpu
    \/ HandleDeviceLost

Next ==
    \/ CallStart
    \/ CallStep
    \/ \E q \in CmdQueues : GpuStep(q)

Spec == Init /\ [][Next]_gpu_vars

\* A call that has started goes on, and each queue of the GPU makes progress.
\* Nothing forces the caller to make another call.
LiveSpec ==
    /\ Spec
    /\ WF_gpu_vars(CallStep)
    /\ \A q \in CmdQueues : WF_gpu_vars(GpuStep(q))

(***************************************************************************)
(* Properties                                                              *)
(***************************************************************************)

TypeOK ==
    /\ device \in BOOLEAN
    /\ frame_index \in Slots
    /\ fence_vals \in [Slots -> Nat]
    /\ fence \in Nat
    /\ event \in BOOLEAN
    /\ queue \in [CmdQueues -> Seq(Entry)]
    /\ pool \in [CmdQueues -> Nat]
    /\ open \in [CmdQueues -> Slots \cup {NoSlot}]
    /\ call \in Calls
    /\ wait_queue \in 0 .. CmdQueueNum
    /\ call \in {"check", "await"} => wait_queue \in CmdQueues

UpTo(entries, v) ==
    \A n \in 1 .. Len(entries) : entries[n].kind = "signal" => entries[n].val <= v

NoExec(entries) == \A n \in 1 .. Len(entries) : entries[n].kind # "exec"

SignalsUpTo(v) == \A q \in CmdQueues : UpTo(queue[q], v)

\* The slot whose value is the newest: the current one, or inside MoveToNextFrame
\* the one it has just left.
InPace == call \in {"pace", "pace_await"}
NewestSlot == IF InPace THEN PrevSlot(frame_index) ELSE frame_index
NewestVal == fence_vals[NewestSlot]

\* No signal on its way and no completed value is beyond the value the next
\* submission signals, and every other slot holds an older one: Execute,
\* WaitForGpu and MoveToNextFrame hand out fence values in one order although
\* they keep them in FrameCount slots.
FenceOrder ==
    device =>
        /\ SignalsUpTo(NewestVal)
        /\ fence <= NewestVal
        /\ \A s \in Slots \ {NewestSlot} : fence_vals[s] < NewestVal

\* When WaitForGpu is about to return, every list submitted to the compute queue
\* has run, also when an earlier WaitForGpu left its value unconsumed and the
\* fence stands at it already. (The video queue has no such guarantee, and where
\* its calls fail WaitForGpu has none at all.)
DrainedOnReturn ==
    ~CallsFail /\ call = "flush" /\ wait_queue = CmdQueueNum => NoExec(queue[Compute])

\* The strengthening that makes DrainedOnReturn inductive. Between calls either no
\* signal of the current value has been made yet, or the value is left over from a
\* WaitForGpu and the compute queue has been idle since. Inside WaitForGpu the
\* compute queue is done, or the signal that is waited for is its last entry and
\* the only one that can lift the fence that far.
Fresh == SignalsUpTo(CurrFenceVal - 1) /\ fence < CurrFenceVal
Gated ==
    LET s == queue[Compute]
    IN  /\ s # <<>>
        /\ s[Len(s)] = Signal(CurrFenceVal)
        /\ \A n \in 1 .. Len(s) - 1 : s[n].kind = "signal" => s[n].val < CurrFenceVal
        /\ UpTo(queue[VideoEncode], CurrFenceVal - 1)
        /\ fence < CurrFenceVal
        /\ ~event
DrainInv ==
    /\ call # "idle" => device
    /\ event => call \in {"await", "pace_await"}
    /\ ~CallsFail =>
         /\ call = "idle" \/ (call = "flush" /\ wait_queue = 0) => Fresh \/ NoExec(queue[Compute])
         /\ call = "flush" /\ wait_queue # 0 => NoExec(queue[Compute])
         /\ call \in {"check", "await"} =>
               NoExec(queue[Compute]) \/ (wait_queue = Compute /\ Gated)

\* MoveToNextFrame resets the allocators of a slot only when some queue has run
\* all it had of that slot. It is one queue and not both: the queues share a fence.
PacedBySomeQueue ==
    [][PaceDone => \E q \in CmdQueues : \A n \in 1 .. Len(queue[q]) :
         ~(queue[q][n].kind = "exec" /\ queue[q][n].val = frame_index)]_gpu_vars

\* While the fence cannot fall back, a CPU that sleeps on the event has a signal
\* on its way that will wake it.
NoLostWakeup ==
    ~RewindAllowed /\ call \in {"await", "pace_await"} /\ ~event =>
        \E q \in CmdQueues : \E n \in 1 .. Len(queue[q]) :
            queue[q][n].kind = "signal" /\ queue[q][n].val >= CurrFenceVal

\* While the fence cannot fall back, the two queues never wait for each other
\* forever: if one has entries, one of them can go on.
GpuNotStuck ==
    ~RewindAllowed /\ (\E q \in CmdQueues : queue[q] # <<>>) =>
        \E q \in CmdQueues : /\ queue[q] # <<>>
                             /\ HeadIs(q, "wait") => fence >= Head(queue[q]).val

\* WaitForGpu and MoveToNextFrame return.
CallsReturn == call # "idle" ~> call = "idle"

=============================================================================
