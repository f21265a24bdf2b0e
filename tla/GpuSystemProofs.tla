--------------------------- MODULE GpuSystemProofs ---------------------------
(***************************************************************************)
(* Theorems about GpuSystem, for any number of slots, any jobs, any bounds *)
(* and a fence that may fall back or not: the order of its values, what    *)
(* its waits mean, and that nobody sleeps for good.                        *)
(***************************************************************************)
EXTENDS GpuSystem, TLAPS

(***************************************************************************)
(* Facts about the operators the model is built from                       *)
(***************************************************************************)

\* The ring of slots: the successor and the predecessor of a slot are slots, other
\* than the slot itself, and undo each other.
LEMMA SlotRing ==
    ASSUME NEW s \in Slots
    PROVE  /\ NextSlot(s) \in Slots /\ PrevSlot(s) \in Slots
           /\ PrevSlot(NextSlot(s)) = s
           /\ PrevSlot(s) # s
<1>1. \A t \in Slots : /\ NextSlot(t) = IF t = FrameCount - 1 THEN 0 ELSE t + 1
                       /\ PrevSlot(t) = IF t = 0 THEN FrameCount - 1 ELSE t - 1
  BY GpuAssumption, SMTT(30) DEF NextSlot, PrevSlot, Slots
<1>2. NextSlot(s) \in Slots
  BY <1>1, GpuAssumption DEF Slots
<1> QED
  BY <1>1, <1>2, GpuAssumption DEF Slots

\* Appending to a queue keeps its entries and adds one.
LEMMA Appended ==
    ASSUME NEW s \in Seq(Entry), NEW e \in Entry
    PROVE  /\ Append(s, e) \in Seq(Entry)
           /\ Len(Append(s, e)) = Len(s) + 1
           /\ \A n \in 1 .. Len(s) : Append(s, e)[n] = s[n]
           /\ Append(s, e)[Len(s) + 1] = e
           /\ Append(s, e) # <<>>
  OBVIOUS

\* What is left of a queue after its head is its other entries.
LEMMA Popped ==
    ASSUME NEW s \in Seq(Entry), s # <<>>
    PROVE  /\ Head(s) = s[1] /\ s[1] \in Entry
           /\ Tail(s) \in Seq(Entry)
           /\ Len(Tail(s)) = Len(s) - 1
           /\ Len(s) \in Nat \ {0}
           /\ \A n \in 1 .. Len(Tail(s)) : Tail(s)[n] = s[n + 1]
  OBVIOUS

\* The entries a call makes are entries.
LEMMA Entries ==
    ASSUME NEW v \in Nat, NEW job \in Jobs \cup {NoJob}
    PROVE  Wait(v) \in Entry /\ Signal(v) \in Entry /\ Exec(v, job) \in Entry
  BY DEF Wait, Signal, Exec, Entry

(***************************************************************************)
(* Type correctness                                                        *)
(***************************************************************************)

\* The initial state is well typed.
LEMMA TypeInit == Init => TypeOK
<1> SUFFICES ASSUME Init PROVE TypeOK
  OBVIOUS
<1>1. <<>> \in Seq(Entry)
  OBVIOUS
<1>2. /\ frame_index \in Slots
      /\ fence \in Nat
      /\ fence_vals \in [Slots -> Nat]
  BY GpuAssumption DEF Init, Slots
<1>3. /\ queue \in [CmdQueues -> Seq(Entry)]
      /\ pool \in [CmdQueues -> Nat]
      /\ open \in [CmdQueues -> Slots \cup {NoSlot}]
  BY <1>1 DEF Init
<1>4. device \in BOOLEAN /\ event \in BOOLEAN
  BY DEF Init
<1>5. call \in Calls /\ call \notin {"check", "await"}
  BY DEF Init, Calls
<1>6. wait_queue \in 0 .. CmdQueueNum
  BY DEF Init, CmdQueueNum
<1> QED
  BY <1>2, <1>3, <1>4, <1>5, <1>6 DEF TypeOK

\* A submission leaves the queues and the fence values well typed.
LEMMA SubmitTypes ==
    ASSUME TypeOK, NEW q \in CmdQueues, NEW v \in 1 .. MaxFenceValue,
           NEW job \in Jobs \cup {NoJob}, ExecuteOnly(q, v, job)
    PROVE  /\ queue' \in [CmdQueues -> Seq(Entry)]
           /\ fence_vals' \in [Slots -> Nat]
<1> DEFINE before == IF v # MaxFenceValue THEN Append(queue[q], Wait(v)) ELSE queue[q]
           after  == Append(Append(before, Exec(open[q], job)), Signal(CurrFenceVal))
<1>1. /\ queue[q] \in Seq(Entry) /\ open[q] \in Nat /\ CurrFenceVal \in Nat /\ v \in Nat
  BY GpuAssumption DEF TypeOK, Slots, NoSlot, CurrFenceVal, MaxFenceValue
<1>2. before \in Seq(Entry)
  BY <1>1, Entries, Appended
<1>3. Append(before, Exec(open[q], job)) \in Seq(Entry)
  BY <1>1, <1>2, Entries, Appended
<1>4. after \in Seq(Entry)
  BY <1>1, <1>3, Entries, Appended
<1>5. queue' = [queue EXCEPT ![q] = after]
  BY DEF ExecuteOnly
<1>6. fence_vals' \in [Slots -> Nat]
  BY <1>1 DEF ExecuteOnly, TypeOK
<1> QED
  BY <1>4, <1>5, <1>6 DEF TypeOK

\* Every step keeps the types.
LEMMA TypeNext == TypeOK /\ [Next]_gpu_vars => TypeOK'
<1> SUFFICES ASSUME TypeOK, [Next]_gpu_vars PROVE TypeOK'
  OBVIOUS
<1> USE GpuAssumption
<1>0. frame_index \in Nat /\ CurrFenceVal \in Nat /\ frame_index \in Slots
  BY DEF TypeOK, Slots, CurrFenceVal
<1>1. ASSUME NEW q \in CmdQueues, CreateCommandList(q) PROVE TypeOK'
  BY <1>1, <1>0 DEF CreateCommandList, TypeOK
<1>2. ASSUME NEW q \in CmdQueues, NEW v \in 1 .. MaxFenceValue, NEW job \in Jobs \cup {NoJob},
             Execute(q, v, job) \/ ExecuteAndReset(q, v, job)
      PROVE  TypeOK'
  <2>1. ExecuteOnly(q, v, job)
    BY <1>2 DEF Execute, ExecuteAndReset
  <2>2. queue' \in [CmdQueues -> Seq(Entry)] /\ fence_vals' \in [Slots -> Nat]
    BY <2>1, SubmitTypes
  <2>3. CASE Execute(q, v, job)
    <3>1. pool' \in [CmdQueues -> Nat] /\ open' \in [CmdQueues -> Slots \cup {NoSlot}]
      BY <2>3 DEF Execute, TypeOK
    <3> QED
      BY <2>3, <2>2, <3>1 DEF Execute, TypeOK
  <2>4. CASE ExecuteAndReset(q, v, job)
    BY <2>4, <1>0, <2>2 DEF ExecuteAndReset, TypeOK
  <2> QED
    BY <1>2, <2>3, <2>4
<1>3. CASE MoveToNextFrame
  <2>1. \A q \in CmdQueues : Append(queue[q], Signal(CurrFenceVal)) \in Seq(Entry)
    BY <1>0, Entries, Appended DEF TypeOK
  <2>2. NextSlot(frame_index) \in Slots
    BY <1>0, SlotRing
  <2> QED
    BY <1>3, <2>1, <2>2 DEF MoveToNextFrame, TypeOK, Calls
<1>4. CASE WaitForGpu
  BY <1>4 DEF WaitForGpu, TypeOK, Calls, CmdQueueNum
<1>5. CASE HandleDeviceLost
  <2>1. <<>> \in Seq(Entry) /\ 0 \in Slots
    BY DEF Slots
  <2> QED
    BY <1>5, <2>1 DEF HandleDeviceLost, TypeOK
<1>6. CASE PaceWait
  BY <1>6 DEF PaceWait, TypeOK, Calls
<1>7. CASE PaceDone
  <2>1. PrevSlot(frame_index) \in Slots
    BY <1>0, SlotRing
  <2>2. fence_vals[PrevSlot(frame_index)] + 1 \in Nat
    BY <2>1 DEF TypeOK
  <2> QED
    BY <1>7, <2>2 DEF PaceDone, StartSlot, TypeOK, Calls
<1>8. CASE FlushSignal
  <2>1. wait_queue \in CmdQueues /\ Append(queue[wait_queue], Signal(CurrFenceVal)) \in Seq(Entry)
    BY <1>8, <1>0, Entries, Appended DEF FlushSignal, TypeOK, CmdQueues, CmdQueueNum, Compute, VideoEncode
  <2> QED
    BY <1>8, <2>1 DEF FlushSignal, TypeOK, Calls
<1>9. CASE FlushWait
  BY <1>9 DEF FlushWait, TypeOK, Calls
<1>10. CASE FlushSkip \/ FlushPassed
  BY <1>10 DEF FlushSkip, FlushPassed, TypeOK, Calls, CmdQueueNum, CmdQueues, Compute, VideoEncode
<1>11. CASE FlushWoken
  <2>1. wait_queue + 1 \in 0 .. CmdQueueNum
    BY <1>11 DEF FlushWoken, TypeOK, CmdQueueNum, CmdQueues, Compute, VideoEncode
  <2> QED
    <3>1. fence_vals' \in [Slots -> Nat]
      BY <1>11, <1>0 DEF FlushWoken, TypeOK
    <3> QED
      BY <1>11, <2>1, <3>1 DEF FlushWoken, TypeOK, Calls
<1>12. CASE WaitForGpuReturns
  BY <1>12 DEF WaitForGpuReturns, TypeOK, Calls
<1>13. ASSUME NEW q \in CmdQueues, GpuStep(q) PROVE TypeOK'
  <2>1. queue[q] # <<>> /\ queue[q] \in Seq(Entry)
    BY <1>13 DEF GpuStep, GpuWait, GpuExec, GpuSignal, HeadIs, TypeOK
  <2>2. queue' \in [CmdQueues -> Seq(Entry)]
    BY <1>13, <2>1, Popped DEF GpuStep, GpuWait, GpuExec, GpuSignal, Pop, TypeOK
  <2>3. Head(queue[q]).val \in Nat
    BY <2>1, Popped DEF Entry
  <2>4. fence' \in Nat /\ event' \in BOOLEAN
    BY <1>13, <2>3 DEF GpuStep, GpuWait, GpuExec, GpuSignal, TypeOK
  <2> QED
    BY <1>13, <2>2, <2>4 DEF GpuStep, GpuWait, GpuExec, GpuSignal, TypeOK
<1>14. CASE UNCHANGED gpu_vars
  BY <1>14 DEF gpu_vars, TypeOK
<1> QED
  BY <1>1, <1>2, <1>3, <1>4, <1>5, <1>6, <1>7, <1>8, <1>9, <1>10, <1>11, <1>12, <1>13, <1>14
     DEF Next, CallStart, CallStep

\* Every variable keeps its type.
THEOREM TypeCorrect == Spec => []TypeOK
  BY TypeInit, TypeNext, PTL DEF Spec

(***************************************************************************)
(* Fence values                                                            *)
(***************************************************************************)

\* A bound on the signals of a queue survives when its head goes.
LEMMA UpToPop ==
    ASSUME NEW s \in Seq(Entry), s # <<>>, NEW v \in Int, UpTo(s, v)
    PROVE  UpTo(Tail(s), v)
<1>1. \A n \in 1 .. Len(Tail(s)) : Tail(s)[n] = s[n + 1] /\ n + 1 \in 1 .. Len(s)
  BY Popped
<1> QED
  BY <1>1 DEF UpTo

\* A bound on the signals of a queue survives an entry that respects it.
LEMMA UpToAppend ==
    ASSUME NEW s \in Seq(Entry), NEW e \in Entry, NEW v \in Int, UpTo(s, v),
           e.kind = "signal" => e.val <= v
    PROVE  UpTo(Append(s, e), v)
<1>1. \A n \in 1 .. Len(Append(s, e)) : n \in 1 .. Len(s) \/ n = Len(s) + 1
  BY Appended
<1> QED
  BY <1>1, Appended DEF UpTo

\* A larger bound is a bound too.
LEMMA UpToWeaken ==
    ASSUME NEW s \in Seq(Entry), NEW v \in Int, NEW w \in Int, UpTo(s, v), v <= w
    PROVE  UpTo(s, w)
<1>1. \A n \in 1 .. Len(s) : s[n] \in Entry
  OBVIOUS
<1>2. \A n \in 1 .. Len(s) : s[n].val \in Nat
  BY <1>1 DEF Entry
<1> QED
  BY <1>2 DEF UpTo

\* What Execute adds to a queue signals no more than the current value.
LEMMA SubmitUpTo ==
    ASSUME TypeOK, NEW q \in CmdQueues, NEW v \in 1 .. MaxFenceValue,
           NEW job \in Jobs \cup {NoJob}, ExecuteOnly(q, v, job), SignalsUpTo(CurrFenceVal)
    PROVE  \A r \in CmdQueues : UpTo(queue'[r], CurrFenceVal)
<1> DEFINE before == IF v # MaxFenceValue THEN Append(queue[q], Wait(v)) ELSE queue[q]
           mid    == Append(before, Exec(open[q], job))
           after  == Append(mid, Signal(CurrFenceVal))
<1>1. /\ queue[q] \in Seq(Entry) /\ open[q] \in Nat /\ CurrFenceVal \in Nat /\ v \in Nat
  BY GpuAssumption DEF TypeOK, Slots, NoSlot, CurrFenceVal, MaxFenceValue
<1>2. UpTo(queue[q], CurrFenceVal)
  BY DEF SignalsUpTo
<1>3. /\ Wait(v).kind # "signal" /\ Exec(open[q], job).kind # "signal"
      /\ Signal(CurrFenceVal).val = CurrFenceVal
  BY DEF Wait, Exec, Signal
<1>4. Wait(v) \in Entry /\ Exec(open[q], job) \in Entry /\ Signal(CurrFenceVal) \in Entry
  BY <1>1, Entries
<1>5. queue' = [queue EXCEPT ![q] = Append(Append(before, Exec(open[q], job)), Signal(CurrFenceVal))]
  BY DEF ExecuteOnly
<1>6. before \in Seq(Entry) /\ UpTo(before, CurrFenceVal)
  BY <1>1, <1>2, <1>3, <1>4, Appended, UpToAppend
<1> HIDE DEF before
<1>7. mid \in Seq(Entry) /\ UpTo(mid, CurrFenceVal)
  BY <1>1, <1>3, <1>4, <1>6, Appended, UpToAppend
<1> HIDE DEF mid
<1>8. after \in Seq(Entry) /\ UpTo(after, CurrFenceVal)
  BY <1>1, <1>3, <1>4, <1>7, Appended, UpToAppend
<1>9. queue' = [queue EXCEPT ![q] = after]
  BY <1>5 DEF mid
<1> HIDE DEF after
<1>10. queue'[q] = after /\ \A r \in CmdQueues \ {q} : queue'[r] = queue[r]
  BY <1>9 DEF TypeOK
<1> QED
  BY <1>8, <1>10 DEF SignalsUpTo

\* What is left after a step of the GPU signals no more than what was there.
LEMMA StepUpTo ==
    ASSUME TypeOK, NEW q \in CmdQueues, GpuStep(q)
    PROVE  \A v \in Int, r \in CmdQueues : UpTo(queue[r], v) => UpTo(queue'[r], v)
<1>1. queue[q] # <<>> /\ queue[q] \in Seq(Entry) /\ queue' = [queue EXCEPT ![q] = Tail(@)]
  BY DEF GpuStep, GpuWait, GpuExec, GpuSignal, HeadIs, Pop, TypeOK
<1>2. queue'[q] = Tail(queue[q]) /\ \A r \in CmdQueues \ {q} : queue'[r] = queue[r]
  BY <1>1 DEF TypeOK
<1> QED
  BY <1>1, <1>2, UpToPop

\* The fence never exceeds a bound on itself and on the signals of the queue.
LEMMA StepFence ==
    ASSUME TypeOK, NEW q \in CmdQueues, GpuStep(q), NEW v \in Int,
           UpTo(queue[q], v), fence <= v
    PROVE  fence' <= v
<1>1. CASE GpuWait(q) \/ GpuExec(q)
  BY <1>1 DEF GpuWait, GpuExec
<1>2. CASE GpuSignal(q)
  <2>1. queue[q] # <<>> /\ queue[q] \in Seq(Entry) /\ Head(queue[q]).kind = "signal"
    BY <1>2 DEF GpuSignal, HeadIs, TypeOK
  <2>2. Head(queue[q]) = queue[q][1] /\ 1 \in 1 .. Len(queue[q])
    BY <2>1, Popped
  <2>3. Head(queue[q]).val <= v
    BY <2>1, <2>2 DEF UpTo
  <2>4. fence' = Head(queue[q]).val \/ fence' = fence
    BY <1>2 DEF GpuSignal
  <2> QED
    BY <2>3, <2>4
<1> QED
  BY <1>1, <1>2 DEF GpuStep

\* The first fence value is in order.
LEMMA FenceInit == Init => FenceOrder
<1> SUFFICES ASSUME Init PROVE FenceOrder
  OBVIOUS
<1>1. 0 \in Slots /\ fence = 0 /\ frame_index = 0 /\ NewestSlot = 0
  BY GpuAssumption DEF Init, Slots, NewestSlot, InPace
<1>2. fence_vals[0] = 1 /\ \A s \in Slots \ {0} : fence_vals[s] = 0
  BY <1>1 DEF Init
<1>3. \A v : SignalsUpTo(v)
  BY DEF Init, SignalsUpTo, UpTo
<1> QED
  BY <1>1, <1>2, <1>3 DEF FenceOrder, NewestVal

\* Every step keeps the fence values in order.
LEMMA FenceNext == TypeOK /\ FenceOrder /\ [Next]_gpu_vars => FenceOrder'
<1> SUFFICES ASSUME TypeOK, FenceOrder, [Next]_gpu_vars PROVE FenceOrder'
  OBVIOUS
<1>1. /\ frame_index \in Slots /\ NewestSlot \in Slots
      /\ CurrFenceVal \in Nat /\ NewestVal \in Nat /\ fence \in Nat
      /\ \A s \in Slots : fence_vals[s] \in Nat
  BY SlotRing DEF TypeOK, NewestSlot, NewestVal, CurrFenceVal
<1>2. call = "idle" => NewestSlot = frame_index /\ NewestVal = CurrFenceVal
  BY DEF NewestSlot, InPace, NewestVal, CurrFenceVal
<1>3. ASSUME queue' = queue, fence' = fence, fence_vals' = fence_vals,
             NewestSlot' = NewestSlot, device' = device
      PROVE  FenceOrder'
  BY <1>3 DEF FenceOrder, NewestVal, SignalsUpTo
<1>4. ASSUME NEW q \in CmdQueues, CreateCommandList(q) PROVE FenceOrder'
  BY <1>3, <1>4 DEF CreateCommandList, NewestSlot, InPace
<1>5. ASSUME NEW q \in CmdQueues, NEW v \in 1 .. MaxFenceValue, NEW job \in Jobs \cup {NoJob},
             ExecuteOnly(q, v, job), UNCHANGED <<device, frame_index, fence, call>>
      PROVE  FenceOrder'
  <2>1. device /\ call = "idle" /\ SignalsUpTo(CurrFenceVal) /\ fence <= CurrFenceVal
    BY <1>5, <1>2 DEF ExecuteOnly, Ready, FenceOrder
  <2>2. \A r \in CmdQueues : queue'[r] \in Seq(Entry) /\ UpTo(queue'[r], CurrFenceVal)
    BY <1>5, <2>1, SubmitUpTo, SubmitTypes
  <2>3. \A r \in CmdQueues : UpTo(queue'[r], CurrFenceVal + 1)
    BY <1>1, <2>2, UpToWeaken
  <2>4. NewestSlot' = frame_index /\ NewestSlot = frame_index
    BY <1>5, <2>1 DEF NewestSlot, InPace
  <2>5. /\ fence_vals'[frame_index] = CurrFenceVal + 1
        /\ \A s \in Slots \ {frame_index} : fence_vals'[s] = fence_vals[s]
    BY <1>1, <1>5 DEF ExecuteOnly, TypeOK
  <2>6. NewestVal' = CurrFenceVal + 1
    BY <2>4, <2>5 DEF NewestVal
  <2>7. \A s \in Slots \ {frame_index} : fence_vals[s] < CurrFenceVal
    BY <1>2, <2>1, <2>4 DEF FenceOrder
  <2> QED
    BY <1>1, <1>5, <2>1, <2>3, <2>4, <2>5, <2>6, <2>7 DEF FenceOrder, SignalsUpTo
<1>6. CASE MoveToNextFrame
  <2>1. device /\ call = "idle" /\ SignalsUpTo(CurrFenceVal)
    BY <1>6, <1>2 DEF MoveToNextFrame, Ready, FenceOrder
  <2>2. Signal(CurrFenceVal) \in Entry /\ Signal(CurrFenceVal).val = CurrFenceVal
    BY <1>1, Entries DEF Signal
  <2>3. \A r \in CmdQueues : UpTo(queue'[r], CurrFenceVal)
    BY <1>6, <1>1, <2>1, <2>2, UpToAppend DEF MoveToNextFrame, SignalsUpTo, TypeOK
  <2>4. NewestSlot' = NewestSlot
    BY <1>6, <1>1, <1>2, <2>1, SlotRing DEF MoveToNextFrame, NewestSlot, InPace
  <2>5. NewestVal' = CurrFenceVal /\ NewestVal = CurrFenceVal
    BY <1>6, <1>2, <2>1, <2>4 DEF MoveToNextFrame, NewestVal
  <2> QED
    BY <1>6, <2>3, <2>4, <2>5 DEF MoveToNextFrame, FenceOrder, SignalsUpTo
<1>7. CASE HandleDeviceLost
  BY <1>7 DEF HandleDeviceLost, FenceOrder
<1>8. CASE WaitForGpu \/ PaceWait \/ FlushWait \/ FlushSkip \/ FlushPassed \/ WaitForGpuReturns
  BY <1>3, <1>8 DEF WaitForGpu, Ready, PaceWait, FlushWait, FlushSkip, FlushPassed, WaitForGpuReturns,
                    NewestSlot, InPace
<1>9. CASE PaceDone
  <2>1. /\ InPace /\ StartSlot
    BY <1>9 DEF PaceDone, InPace
  <2>2. /\ NewestSlot = PrevSlot(frame_index) /\ PrevSlot(frame_index) \in Slots
        /\ PrevSlot(frame_index) # frame_index /\ NewestSlot' = frame_index
    BY <1>1, <2>1, SlotRing DEF StartSlot, NewestSlot, InPace
  <2>3. /\ fence_vals'[frame_index] = NewestVal + 1
        /\ \A s \in Slots \ {frame_index} : fence_vals'[s] = fence_vals[s]
    BY <1>1, <2>1, <2>2 DEF StartSlot, NewestVal, TypeOK
  <2>4. NewestVal' = NewestVal + 1
    BY <2>2, <2>3 DEF NewestVal
  <2>5. device' = device /\ queue' = queue /\ fence' = fence
    BY <2>1 DEF StartSlot
  <2>6. ASSUME device PROVE FenceOrder'
    <3>1. /\ SignalsUpTo(NewestVal) /\ fence <= NewestVal
          /\ \A s \in Slots \ {NewestSlot} : fence_vals[s] < NewestVal
      BY <2>6 DEF FenceOrder
    <3>2. \A r \in CmdQueues : UpTo(queue'[r], NewestVal + 1)
      BY <1>1, <2>5, <3>1, UpToWeaken DEF SignalsUpTo, TypeOK
    <3>3. \A s \in Slots \ {frame_index} : fence_vals'[s] < NewestVal + 1
      BY <1>1, <2>2, <2>3, <3>1 DEF NewestVal
    <3> QED
      BY <1>1, <2>2, <2>4, <2>5, <3>1, <3>2, <3>3 DEF FenceOrder, SignalsUpTo
  <2> QED
    BY <2>5, <2>6 DEF FenceOrder
<1>10. CASE FlushSignal
  <2>1. /\ wait_queue \in CmdQueues
        /\ Signal(CurrFenceVal) \in Entry /\ Signal(CurrFenceVal).val = CurrFenceVal
    <3>1. wait_queue \in CmdQueues
      BY <1>10 DEF FlushSignal, TypeOK, CmdQueues, CmdQueueNum, Compute, VideoEncode
    <3> QED
      BY <1>1, <3>1, Entries DEF Signal
  <2>2. /\ NewestSlot = frame_index /\ NewestSlot' = frame_index
        /\ NewestVal = CurrFenceVal /\ NewestVal' = CurrFenceVal
    BY <1>10 DEF FlushSignal, NewestSlot, InPace, NewestVal, CurrFenceVal
  <2>3. SignalsUpTo(CurrFenceVal) => \A r \in CmdQueues : UpTo(queue'[r], CurrFenceVal)
    <3>1. /\ queue'[wait_queue] = Append(queue[wait_queue], Signal(CurrFenceVal))
          /\ \A r \in CmdQueues \ {wait_queue} : queue'[r] = queue[r]
      BY <1>10, <2>1 DEF FlushSignal, TypeOK
    <3>2. queue[wait_queue] \in Seq(Entry)
      BY <2>1 DEF TypeOK
    <3>3. SignalsUpTo(CurrFenceVal) => UpTo(queue'[wait_queue], CurrFenceVal)
      BY <1>1, <2>1, <3>1, <3>2, UpToAppend DEF SignalsUpTo
    <3> QED
      BY <3>1, <3>3 DEF SignalsUpTo
  <2> QED
    BY <1>10, <2>2, <2>3 DEF FlushSignal, FenceOrder, SignalsUpTo
<1>11. CASE FlushWoken
  <2>1. NewestSlot = frame_index /\ NewestSlot' = frame_index /\ NewestVal = CurrFenceVal
    BY <1>11 DEF FlushWoken, NewestSlot, InPace, NewestVal, CurrFenceVal
  <2>2. /\ fence_vals'[frame_index] = CurrFenceVal + 1
        /\ \A s \in Slots \ {frame_index} : fence_vals'[s] = fence_vals[s]
    BY <1>11, <1>1 DEF FlushWoken, TypeOK
  <2>3. device' = device /\ queue' = queue /\ fence' = fence /\ NewestVal' = CurrFenceVal + 1
    BY <1>11, <2>1, <2>2 DEF FlushWoken, NewestVal
  <2>4. ASSUME device PROVE FenceOrder'
    <3>1. /\ SignalsUpTo(CurrFenceVal) /\ fence <= CurrFenceVal
          /\ \A s \in Slots \ {frame_index} : fence_vals[s] < CurrFenceVal
      BY <2>1, <2>4 DEF FenceOrder
    <3>2. \A r \in CmdQueues : UpTo(queue'[r], CurrFenceVal + 1)
      BY <1>1, <2>3, <3>1, UpToWeaken DEF SignalsUpTo, TypeOK
    <3> QED
      BY <1>1, <2>1, <2>2, <2>3, <3>1, <3>2 DEF FenceOrder, SignalsUpTo
  <2> QED
    BY <2>3, <2>4 DEF FenceOrder
<1>12. ASSUME NEW q \in CmdQueues, GpuStep(q) PROVE FenceOrder'
  <2>1. UNCHANGED <<device, frame_index, fence_vals, call>>
    BY <1>12 DEF GpuStep, GpuWait, GpuExec, GpuSignal
  <2>2. NewestSlot' = NewestSlot /\ NewestVal' = NewestVal
    BY <2>1 DEF NewestSlot, InPace, NewestVal
  <2>3. SignalsUpTo(NewestVal) => \A r \in CmdQueues : UpTo(queue'[r], NewestVal)
    BY <1>1, <1>12, StepUpTo DEF SignalsUpTo
  <2>4. SignalsUpTo(NewestVal) /\ fence <= NewestVal => fence' <= NewestVal
    BY <1>1, <1>12, StepFence DEF SignalsUpTo
  <2> QED
    BY <2>1, <2>2, <2>3, <2>4 DEF FenceOrder, SignalsUpTo
<1>13. CASE UNCHANGED gpu_vars
  BY <1>3, <1>13 DEF gpu_vars, NewestSlot, InPace
<1> QED
  BY <1>4, <1>5, <1>6, <1>7, <1>8, <1>9, <1>10, <1>11, <1>12, <1>13
     DEF Next, CallStart, CallStep, Execute, ExecuteAndReset

\* No signal and no completed value ever passes the value of the newest slot, and
\* the other slots stay behind it, whatever calls are made in whatever order.
THEOREM FenceValuesOrdered == Spec => []FenceOrder
<1>1. Init => TypeOK /\ FenceOrder
  BY TypeInit, FenceInit
<1>2. TypeOK /\ FenceOrder /\ [Next]_gpu_vars => (TypeOK /\ FenceOrder)'
  BY TypeNext, FenceNext
<1> QED
  BY <1>1, <1>2, PTL DEF Spec

(***************************************************************************)
(* WaitForGpu drains the compute queue                                     *)
(***************************************************************************)

\* A queue without lists stays one when its head goes or a signal comes.
LEMMA NoExecPop ==
    ASSUME NEW s \in Seq(Entry), s # <<>>, NoExec(s)
    PROVE  NoExec(Tail(s))
<1>1. \A n \in 1 .. Len(Tail(s)) : Tail(s)[n] = s[n + 1] /\ n + 1 \in 1 .. Len(s)
  BY Popped
<1> QED
  BY <1>1 DEF NoExec

\* A queue without lists stays one when a signal comes.
LEMMA NoExecAppend ==
    ASSUME NEW s \in Seq(Entry), NEW v \in Nat, NoExec(s), Signal(v) \in Entry
    PROVE  NoExec(Append(s, Signal(v)))
<1>1. Signal(v).kind # "exec"
  BY DEF Signal
<1>2. \A n \in 1 .. Len(Append(s, Signal(v))) : n \in 1 .. Len(s) \/ n = Len(s) + 1
  BY Appended
<1> QED
  BY <1>1, <1>2, Appended DEF NoExec

\* The entries of a queue before and after a step of the GPU.
LEMMA StepQueue ==
    ASSUME TypeOK, NEW q \in CmdQueues, GpuStep(q)
    PROVE  /\ queue[q] # <<>> /\ queue[q] \in Seq(Entry)
           /\ queue'[q] = Tail(queue[q])
           /\ \A r \in CmdQueues \ {q} : queue'[r] = queue[r]
           /\ UNCHANGED <<device, frame_index, fence_vals, call, wait_queue>>
<1>1. queue[q] # <<>> /\ queue[q] \in Seq(Entry) /\ queue' = [queue EXCEPT ![q] = Tail(@)]
  BY DEF GpuStep, GpuWait, GpuExec, GpuSignal, HeadIs, Pop, TypeOK
<1>2. UNCHANGED <<device, frame_index, fence_vals, call, wait_queue>>
  BY DEF GpuStep, GpuWait, GpuExec, GpuSignal
<1> QED
  BY <1>1, <1>2 DEF TypeOK

\* The event stays reset as long as the fence is below the value awaited.
LEMMA StepEvent ==
    ASSUME NEW q \in CmdQueues, GpuStep(q), ~event, ~(fence' >= CurrFenceVal)
    PROVE  ~event'
  BY Zenon DEF GpuStep, GpuWait, GpuExec, GpuSignal

\* A value that nobody has signalled stays fresh while the GPU runs.
LEMMA FreshStep ==
    ASSUME TypeOK, NEW q \in CmdQueues, GpuStep(q), Fresh
    PROVE  Fresh'
<1>1. CurrFenceVal' = CurrFenceVal /\ CurrFenceVal \in Nat /\ fence \in Nat
  BY StepQueue DEF CurrFenceVal, TypeOK
<1>2. CurrFenceVal - 1 \in Int /\ fence <= CurrFenceVal - 1
  BY <1>1 DEF Fresh
<1>3. \A r \in CmdQueues : UpTo(queue'[r], CurrFenceVal - 1)
  BY <1>2, StepUpTo DEF Fresh, SignalsUpTo
<1>4. fence' <= CurrFenceVal - 1
  BY <1>2, StepFence DEF Fresh, SignalsUpTo
<1>5. fence' \in Nat
  BY TypeNext DEF TypeOK, Next
<1> QED
  BY <1>1, <1>3, <1>4, <1>5 DEF Fresh, SignalsUpTo

\* Inside a gated wait the GPU either runs the last entry of the compute queue,
\* which then is empty, or leaves the gate closed.
LEMMA GatedStep ==
    ASSUME TypeOK, NEW q \in CmdQueues, GpuStep(q), Gated
    PROVE  Gated' \/ NoExec(queue'[Compute])
<1> DEFINE s == queue[Compute]
<1>1. /\ CurrFenceVal' = CurrFenceVal /\ CurrFenceVal \in Nat /\ fence \in Nat
      /\ Compute \in CmdQueues /\ VideoEncode \in CmdQueues /\ Compute # VideoEncode
  BY StepQueue DEF CurrFenceVal, TypeOK, CmdQueues, Compute, VideoEncode
<1>2. /\ s \in Seq(Entry) /\ s # <<>> /\ s[Len(s)] = Signal(CurrFenceVal)
      /\ \A n \in 1 .. Len(s) - 1 : s[n].kind = "signal" => s[n].val < CurrFenceVal
      /\ UpTo(queue[VideoEncode], CurrFenceVal - 1)
      /\ fence < CurrFenceVal /\ ~event
  BY <1>1 DEF Gated, TypeOK
<1>3. \A n \in 1 .. Len(s) : s[n] \in Entry /\ s[n].val \in Nat
  <2>1. \A n \in 1 .. Len(s) : s[n] \in Entry
    BY <1>2
  <2> QED
    BY <2>1 DEF Entry
<1>4. Len(s) \in Nat \ {0}
  BY <1>2, Popped
<1>5. CASE q = VideoEncode
  <2>1. queue'[Compute] = s /\ UpTo(queue'[VideoEncode], CurrFenceVal - 1)
    BY <1>1, <1>2, <1>5, StepQueue, StepUpTo
  <2>2. fence' <= CurrFenceVal - 1
    BY <1>1, <1>2, <1>5, StepFence
  <2>3. fence' \in Nat
    BY TypeNext DEF TypeOK, Next
  <2>4. fence' < CurrFenceVal
    BY <1>1, <2>2, <2>3
  <2>5. ~event'
    <3>1. ~(fence' >= CurrFenceVal)
      BY <1>1, <2>3, <2>4
    <3> QED
      BY <1>2, <3>1, StepEvent
  <2> QED
    BY <1>1, <1>2, <2>1, <2>4, <2>5 DEF Gated
<1>6. CASE q = Compute /\ Len(s) = 1
  <2>1. queue'[Compute] = Tail(s) /\ Len(Tail(s)) = 0
    BY <1>2, <1>6, StepQueue, Popped
  <2>2. Len(queue'[Compute]) = 0
    BY <2>1
  <2>3. \A n \in 1 .. Len(queue'[Compute]) : FALSE
    BY <2>2
  <2> QED
    BY <2>3 DEF NoExec
<1>7. CASE q = Compute /\ Len(s) # 1
  <2> DEFINE t == Tail(s)
  <2>1. /\ queue'[Compute] = t /\ t \in Seq(Entry) /\ Len(t) = Len(s) - 1 /\ t # <<>>
        /\ \A n \in 1 .. Len(t) : t[n] = s[n + 1]
    <3>1. /\ queue'[Compute] = t /\ t \in Seq(Entry) /\ Len(t) = Len(s) - 1
          /\ \A n \in 1 .. Len(t) : t[n] = s[n + 1]
      BY <1>2, <1>7, StepQueue, Popped
    <3>2. Len(t) # 0
      BY <1>4, <1>7, <3>1
    <3>3. \A u : u = <<>> => Len(u) = 0
      OBVIOUS
    <3> HIDE DEF t
    <3>4. t # <<>>
      BY <3>2, <3>3
    <3> QED
      BY <3>1, <3>4
  <2>2. queue'[VideoEncode] = queue[VideoEncode]
    BY <1>1, <1>7, StepQueue
  <2>3. t[Len(t)] = Signal(CurrFenceVal)
    BY <1>2, <1>4, <1>7, <2>1
  <2>4. \A n \in 1 .. Len(t) - 1 : t[n].kind = "signal" => t[n].val < CurrFenceVal
    <3>1. \A n \in 1 .. Len(t) - 1 : n \in 1 .. Len(t) /\ n + 1 \in 1 .. Len(s) - 1
      BY <1>4, <2>1
    <3> QED
      BY <1>2, <2>1, <3>1
  <2>5. 1 \in 1 .. Len(s) - 1 /\ Head(s) = s[1]
    <3>1. \A k \in Nat \ {0} : k # 1 => 1 \in 1 .. k - 1
      OBVIOUS
    <3>2. 1 \in 1 .. Len(s) - 1
      BY <1>4, <1>7, <3>1
    <3> QED
      BY <1>2, <3>2, Popped
  <2>6. fence' < CurrFenceVal
    <3>1. CASE GpuWait(q) \/ GpuExec(q)
      BY <1>2, <3>1 DEF GpuWait, GpuExec
    <3>2. CASE GpuSignal(q)
      <4>1. s[1].val < CurrFenceVal
        BY <1>2, <1>7, <2>5, <3>2 DEF GpuSignal, HeadIs
      <4>2. fence' = s[1].val \/ fence' = fence
        BY <1>7, <2>5, <3>2 DEF GpuSignal
      <4> QED
        BY <1>2, <4>1, <4>2
    <3> QED
      BY <3>1, <3>2 DEF GpuStep
  <2>7. fence' \in Nat
    BY TypeNext DEF TypeOK, Next
  <2>8. ~event'
    <3>1. ~(fence' >= CurrFenceVal)
      BY <1>1, <2>6, <2>7
    <3> QED
      BY <1>2, <3>1, StepEvent
  <2> QED
    BY <1>1, <1>2, <2>1, <2>2, <2>3, <2>4, <2>6, <2>8 DEF Gated
<1> QED
  BY <1>5, <1>6, <1>7 DEF CmdQueues

\* The queues start empty.
LEMMA DrainInit == Init => DrainInv
<1> SUFFICES ASSUME Init PROVE DrainInv
  OBVIOUS
<1>1. call = "idle" /\ event = FALSE /\ queue[Compute] = <<>>
  BY DEF Init, CmdQueues
<1>2. NoExec(queue[Compute])
  BY <1>1 DEF NoExec
<1> QED
  BY <1>1, <1>2 DEF DrainInv

\* Where calls fail it says only that the event is for one who waits.
LEMMA FailingNext == TypeOK /\ DrainInv /\ [Next]_gpu_vars /\ CallsFail => DrainInv'
<1> SUFFICES ASSUME TypeOK, DrainInv, [Next]_gpu_vars, CallsFail PROVE DrainInv'
  OBVIOUS
<1>1. /\ call # "idle" => device
      /\ event => call \in {"await", "pace_await"}
  BY DEF DrainInv
<1>2. SUFFICES /\ call' # "idle" => device'
               /\ event' => call' \in {"await", "pace_await"}
  BY DEF DrainInv
<1>3. CASE CallStart
  BY <1>1, <1>3 DEF CallStart, CreateCommandList, Execute, ExecuteAndReset, ExecuteOnly, Ready,
                    MoveToNextFrame, WaitForGpu, HandleDeviceLost
<1>4. CASE CallStep
  BY <1>1, <1>4 DEF CallStep, PaceWait, PaceDone, StartSlot, FlushSignal, FlushWait, FlushSkip,
                    FlushPassed, FlushWoken, WaitForGpuReturns
<1>5. ASSUME NEW q \in CmdQueues, GpuStep(q)
      PROVE  UNCHANGED <<device, call>> /\ (event' => event \/ call \in {"await", "pace_await"})
  <2>1. event' => event \/ call \in {"await", "pace_await"}
    BY <1>5, Zenon DEF GpuStep, GpuWait, GpuExec, GpuSignal
  <2> QED
    BY <1>5, <2>1, StepQueue
<1> QED
  BY <1>1, <1>3, <1>4, <1>5 DEF Next, gpu_vars

\* Every step keeps the invariant of WaitForGpu.
LEMMA DrainNext == TypeOK /\ FenceOrder /\ DrainInv /\ [Next]_gpu_vars => DrainInv'
<1> SUFFICES ASSUME TypeOK, FenceOrder, DrainInv, [Next]_gpu_vars, ~CallsFail PROVE DrainInv'
  BY FailingNext
<1>0. CASE FlushSkip
  BY <1>0 DEF FlushSkip
<1>1. /\ frame_index \in Slots /\ CurrFenceVal \in Nat /\ fence \in Nat
      /\ Compute \in CmdQueues /\ VideoEncode \in CmdQueues /\ Compute # VideoEncode
      /\ Compute = 0 /\ CmdQueueNum = 2
      /\ \A q \in CmdQueues : queue[q] \in Seq(Entry)
  BY DEF TypeOK, CurrFenceVal, CmdQueues, Compute, VideoEncode, CmdQueueNum
<1>2. ASSUME Ready
      PROVE  /\ device /\ call = "idle" /\ ~event
             /\ SignalsUpTo(CurrFenceVal) /\ fence <= CurrFenceVal
             /\ Fresh \/ NoExec(queue[Compute])
  <2>1. NewestVal = CurrFenceVal
    BY <1>2 DEF Ready, NewestVal, NewestSlot, InPace, CurrFenceVal
  <2> QED
    BY <1>2, <2>1 DEF Ready, FenceOrder, DrainInv
<1>3. ASSUME NEW q \in CmdQueues, CreateCommandList(q) PROVE DrainInv'
  BY <1>3 DEF CreateCommandList, DrainInv, Fresh, SignalsUpTo, CurrFenceVal, Gated
<1>4. ASSUME NEW q \in CmdQueues, NEW v \in 1 .. MaxFenceValue, NEW job \in Jobs \cup {NoJob},
             ExecuteOnly(q, v, job), UNCHANGED <<device, frame_index, fence, event, call>>
      PROVE  DrainInv'
  <2>1. device /\ call = "idle" /\ ~event /\ SignalsUpTo(CurrFenceVal) /\ fence <= CurrFenceVal
    BY <1>2, <1>4 DEF ExecuteOnly
  <2>2. \A r \in CmdQueues : UpTo(queue'[r], CurrFenceVal)
    BY <1>4, <2>1, SubmitUpTo
  <2>3. CurrFenceVal' = CurrFenceVal + 1
    BY <1>1, <1>4 DEF ExecuteOnly, TypeOK, CurrFenceVal
  <2>4. CurrFenceVal' - 1 = CurrFenceVal /\ fence' < CurrFenceVal'
    BY <1>1, <1>4, <2>1, <2>3
  <2>5. Fresh'
    BY <2>2, <2>4 DEF Fresh, SignalsUpTo
  <2> QED
    BY <1>4, <2>1, <2>5 DEF DrainInv
<1>5. CASE MoveToNextFrame
  <2>1. device' /\ ~event' /\ call' = "pace"
    BY <1>2, <1>5 DEF MoveToNextFrame
  <2> QED
    BY <2>1 DEF DrainInv
<1>6. CASE WaitForGpu
  BY <1>2, <1>6 DEF WaitForGpu, DrainInv, Fresh, SignalsUpTo, CurrFenceVal
<1>7. CASE HandleDeviceLost
  <2>1. NoExec(queue'[Compute])
    BY <1>1, <1>7 DEF HandleDeviceLost, NoExec
  <2>2. call' = "idle" /\ ~event'
    BY <1>2, <1>7 DEF HandleDeviceLost
  <2> QED
    BY <2>1, <2>2 DEF DrainInv
<1>8. CASE PaceWait
  BY <1>8 DEF PaceWait, DrainInv
<1>9. CASE PaceDone
  <2>1. /\ InPace /\ StartSlot /\ call # "idle"
    BY <1>9 DEF PaceDone, InPace
  <2>2. device /\ SignalsUpTo(NewestVal) /\ fence <= NewestVal
    BY <2>1 DEF DrainInv, FenceOrder
  <2>3. /\ NewestVal = fence_vals[PrevSlot(frame_index)] /\ NewestVal \in Nat
    BY <1>1, <2>1, SlotRing DEF NewestVal, NewestSlot, TypeOK
  <2>4. CurrFenceVal' = NewestVal + 1
    BY <1>1, <2>1, <2>3 DEF StartSlot, CurrFenceVal, TypeOK
  <2>5. CurrFenceVal' - 1 = NewestVal /\ fence' < CurrFenceVal'
    BY <1>1, <2>1, <2>2, <2>3, <2>4 DEF StartSlot
  <2>6. Fresh'
    BY <2>1, <2>2, <2>5 DEF StartSlot, Fresh, SignalsUpTo
  <2>7. call' = "idle" /\ ~event'
    BY <2>1 DEF StartSlot
  <2> QED
    BY <2>6, <2>7 DEF DrainInv
<1>10. CASE FlushSignal
  <2>1. /\ wait_queue \in CmdQueues /\ call = "flush" /\ call' = "check" /\ ~event'
        /\ device' /\ wait_queue' = wait_queue
    BY <1>10 DEF FlushSignal, DrainInv, TypeOK, CmdQueues, CmdQueueNum, Compute, VideoEncode
  <2>2. /\ Signal(CurrFenceVal) \in Entry
        /\ queue'[wait_queue] = Append(queue[wait_queue], Signal(CurrFenceVal))
        /\ \A r \in CmdQueues \ {wait_queue} : queue'[r] = queue[r]
        /\ CurrFenceVal' = CurrFenceVal /\ fence' = fence
    BY <1>1, <1>10, <2>1, Entries DEF FlushSignal, TypeOK, CurrFenceVal
  <2>3. CASE NoExec(queue[Compute])
    <3>1. NoExec(queue'[Compute])
      BY <1>1, <2>2, <2>3, NoExecAppend
    <3> QED
      BY <2>1, <3>1 DEF DrainInv
  <2>4. CASE ~NoExec(queue[Compute])
    <3>1. wait_queue = Compute /\ Fresh
      BY <1>1, <2>1, <2>4 DEF DrainInv
    <3> DEFINE s == queue[Compute]
               t == Append(s, Signal(CurrFenceVal))
    <3>2. queue'[Compute] = t /\ queue'[VideoEncode] = queue[VideoEncode]
      BY <1>1, <2>2, <3>1
    <3>3. /\ Len(t) = Len(s) + 1 /\ Len(s) \in Nat
          /\ t[Len(t)] = Signal(CurrFenceVal)
          /\ \A n \in 1 .. Len(s) : t[n] = s[n] /\ s[n] \in Entry
      BY <1>1, <2>2, Appended
    <3>4. t # <<>>
      BY <1>1, <2>2, Appended
    <3>5. Len(t) - 1 = Len(s)
      BY <3>3
    <3>6. \A n \in 1 .. Len(s) : s[n].kind = "signal" => s[n].val <= CurrFenceVal - 1
      BY <1>1, <3>1 DEF Fresh, SignalsUpTo, UpTo
    <3>7. \A n \in 1 .. Len(s) : s[n].val \in Nat
      BY <3>3 DEF Entry
    <3>8. \A n \in 1 .. Len(t) - 1 : t[n].kind = "signal" => t[n].val < CurrFenceVal
      <4>1. \A n \in 1 .. Len(s) : s[n].kind = "signal" => s[n].val < CurrFenceVal
        BY <1>1, <3>6, <3>7
      <4> QED
        BY <3>3, <3>5, <4>1
    <3>9. UpTo(queue'[VideoEncode], CurrFenceVal - 1) /\ fence < CurrFenceVal
      BY <1>1, <3>1, <3>2 DEF Fresh, SignalsUpTo
    <3> HIDE DEF t, s
    <3>10. Gated'
      BY <2>1, <2>2, <3>2, <3>3, <3>4, <3>8, <3>9 DEF Gated
    <3> QED
      BY <2>1, <3>1, <3>10 DEF DrainInv
  <2> QED
    BY <2>3, <2>4
<1>11. CASE FlushWait
  <2>1. Gated => Gated'
    BY <1>11 DEF FlushWait, Gated, CurrFenceVal
  <2> QED
    BY <1>11, <2>1 DEF FlushWait, DrainInv
<1>12. CASE FlushPassed
  <2>1. NoExec(queue[Compute])
    BY <1>1, <1>12 DEF FlushPassed, DrainInv, Gated
  <2>2. wait_queue + 1 # 0
    BY <1>12 DEF FlushPassed, TypeOK
  <2> QED
    BY <1>12, <2>1, <2>2 DEF FlushPassed, DrainInv
<1>13. CASE FlushWoken
  <2>1. NoExec(queue[Compute])
    BY <1>13 DEF FlushWoken, DrainInv, Gated
  <2>2. wait_queue + 1 # 0
    BY <1>13 DEF FlushWoken, TypeOK
  <2> QED
    BY <1>13, <2>1, <2>2 DEF FlushWoken, DrainInv
<1>14. CASE WaitForGpuReturns
  <2>1. NoExec(queue[Compute])
    BY <1>1, <1>14 DEF WaitForGpuReturns, DrainInv
  <2> QED
    BY <1>14, <2>1 DEF WaitForGpuReturns, DrainInv
<1>15. ASSUME NEW q \in CmdQueues, GpuStep(q) PROVE DrainInv'
  <2>1. UNCHANGED <<device, call, wait_queue>>
    BY <1>15, StepQueue
  <2>2. NoExec(queue[Compute]) => NoExec(queue'[Compute])
    BY <1>1, <1>15, StepQueue, NoExecPop
  <2>3. Fresh => Fresh'
    BY <1>15, FreshStep
  <2>4. Gated => Gated' \/ NoExec(queue'[Compute])
    BY <1>15, GatedStep
  <2>5. event' => event \/ call \in {"await", "pace_await"}
    BY <1>15, Zenon DEF GpuStep, GpuWait, GpuExec, GpuSignal
  <2> QED
    BY <2>1, <2>2, <2>3, <2>4, <2>5 DEF DrainInv
<1>16. CASE UNCHANGED gpu_vars
  BY <1>16 DEF gpu_vars, DrainInv, Fresh, SignalsUpTo, CurrFenceVal, Gated
<1> QED
  BY <1>0, <1>3, <1>4, <1>5, <1>6, <1>7, <1>8, <1>9, <1>10, <1>11, <1>12, <1>13, <1>14, <1>15, <1>16
     DEF Next, CallStart, CallStep, Execute, ExecuteAndReset

\* Whenever WaitForGpu returns, the compute queue has run every list it was given.
THEOREM WaitForGpuDrains == Spec => []DrainedOnReturn
<1>1. Init => TypeOK /\ FenceOrder /\ DrainInv
  BY TypeInit, FenceInit, DrainInit
<1>2. TypeOK /\ FenceOrder /\ DrainInv /\ [Next]_gpu_vars => (TypeOK /\ FenceOrder /\ DrainInv)'
  BY TypeNext, FenceNext, DrainNext
<1>3. DrainInv => DrainedOnReturn
  BY DEF DrainInv, DrainedOnReturn, CmdQueueNum
<1> QED
  BY <1>1, <1>2, <1>3, PTL DEF Spec

(***************************************************************************)
(* Sleeping CPU, waiting queues                                            *)
(***************************************************************************)

\* The fence f stands at v or has been told to get there by an entry of the queues qs.
Signalled(f, qs, v) ==
    f >= v \/ \E q \in CmdQueues : \E n \in 1 .. Len(qs[q]) : qs[q][n] = Signal(v)

\* The waits of a queue are for values below v and for none that is signalled behind them.
WaitsInOrder(entries, v) ==
    \A m \in 1 .. Len(entries) : entries[m].kind = "wait" =>
        /\ entries[m].val < v
        /\ \A n \in m + 1 .. Len(entries) :
             entries[n].kind = "signal" => entries[n].val > entries[m].val

\* Every value that was handed out has its signal, so has the one that a call waits
\* for, and whoever sleeps on the event has not been overtaken by the fence.
WakeInv ==
    ~RewindAllowed /\ device =>
        /\ \A v \in Nat : v < NewestVal => Signalled(fence, queue, v)
        /\ InPace \/ call \in {"check", "await"} => Signalled(fence, queue, NewestVal)
        /\ call \in {"await", "pace_await"} /\ fence >= CurrFenceVal => event
        /\ \A q \in CmdQueues : WaitsInOrder(queue[q], NewestVal)

\* Waits stay in order when the head of a queue goes.
LEMMA WaitsPop ==
    ASSUME NEW s \in Seq(Entry), s # <<>>, NEW v \in Nat, WaitsInOrder(s, v)
    PROVE  WaitsInOrder(Tail(s), v)
<1>1. /\ Len(Tail(s)) = Len(s) - 1 /\ Len(s) \in Nat
      /\ \A n \in 1 .. Len(Tail(s)) : Tail(s)[n] = s[n + 1]
  BY Popped
<1> DEFINE t == Tail(s)
<1>2. \A m \in 1 .. Len(t) : t[m] = s[m + 1] /\ m + 1 \in 1 .. Len(s)
  BY <1>1
<1>3. \A m \in 1 .. Len(t) : \A n \in m + 1 .. Len(t) :
        n \in 1 .. Len(t) /\ n + 1 \in (m + 1) + 1 .. Len(s)
  BY <1>1
<1> HIDE DEF t
<1> QED
  BY <1>2, <1>3 DEF WaitsInOrder, t

\* They stay in order when an entry comes that waits for less than v or signals v at least.
LEMMA WaitsAppend ==
    ASSUME NEW s \in Seq(Entry), NEW e \in Entry, NEW v \in Nat, WaitsInOrder(s, v),
           e.kind = "wait" => e.val < v, e.kind = "signal" => e.val >= v
    PROVE  WaitsInOrder(Append(s, e), v)
<1> DEFINE t == Append(s, e)
<1>1. /\ Len(t) = Len(s) + 1 /\ Len(s) \in Nat
      /\ \A n \in 1 .. Len(s) : t[n] = s[n] /\ s[n] \in Entry
      /\ t[Len(s) + 1] = e
  BY Appended
<1>2. \A n \in 1 .. Len(s) : s[n].val \in Nat
  BY <1>1 DEF Entry
<1>3. e.val \in Nat
  BY DEF Entry
<1> HIDE DEF t
<1>4. SUFFICES ASSUME NEW m \in 1 .. Len(t), t[m].kind = "wait"
               PROVE  /\ t[m].val < v
                      /\ \A n \in m + 1 .. Len(t) : t[n].kind = "signal" => t[n].val > t[m].val
  BY DEF WaitsInOrder, t
<1>5. CASE m = Len(s) + 1
  BY <1>1, <1>4, <1>5
<1>6. CASE m \in 1 .. Len(s)
  <2>1. s[m].val < v /\ \A n \in m + 1 .. Len(s) : s[n].kind = "signal" => s[n].val > s[m].val
    BY <1>1, <1>4, <1>6 DEF WaitsInOrder
  <2>2. t[m] = s[m]
    BY <1>1, <1>6
  <2>3. \A n \in m + 1 .. Len(t) : n \in m + 1 .. Len(s) \/ n = Len(s) + 1
    BY <1>1
  <2>4. \A n \in m + 1 .. Len(s) : t[n] = s[n]
    BY <1>1, <1>6
  <2>5. t[Len(s) + 1].kind = "signal" => t[Len(s) + 1].val > t[m].val
    BY <1>1, <1>2, <1>3, <1>6, <2>1, <2>2
  <2> QED
    BY <2>1, <2>2, <2>3, <2>4, <2>5
<1> QED
  BY <1>1, <1>5, <1>6

\* A larger bound does as well.
LEMMA WaitsWeaken ==
    ASSUME NEW s \in Seq(Entry), NEW v \in Nat, NEW w \in Nat, v <= w, WaitsInOrder(s, v)
    PROVE  WaitsInOrder(s, w)
<1>1. \A n \in 1 .. Len(s) : s[n] \in Entry
  OBVIOUS
<1>2. \A n \in 1 .. Len(s) : s[n].val \in Nat
  BY <1>1 DEF Entry
<1> QED
  BY <1>2 DEF WaitsInOrder

\* The queues qs hold all that rs hold, where it was.
Grown(qs, rs) ==
    \A q \in CmdQueues : /\ Len(rs[q]) <= Len(qs[q])
                         /\ \A n \in 1 .. Len(rs[q]) : qs[q][n] = rs[q][n]

\* A signal stays on its way when the queues grow.
LEMMA GrownSignalled ==
    ASSUME NEW qs \in [CmdQueues -> Seq(Entry)], NEW rs \in [CmdQueues -> Seq(Entry)],
           Grown(qs, rs), NEW f \in Nat, NEW v \in Nat, Signalled(f, rs, v)
    PROVE  Signalled(f, qs, v)
<1>1. \A q \in CmdQueues : Len(rs[q]) \in Nat /\ Len(qs[q]) \in Nat
  OBVIOUS
<1>2. \A q \in CmdQueues : \A n \in 1 .. Len(rs[q]) : n \in 1 .. Len(qs[q]) /\ qs[q][n] = rs[q][n]
  BY <1>1 DEF Grown
<1> QED
  BY <1>2 DEF Signalled

\* An entry at the end of a queue makes the queues grow.
LEMMA AppendGrows ==
    ASSUME TypeOK, NEW q \in CmdQueues, NEW e \in Entry
    PROVE  /\ [queue EXCEPT ![q] = Append(@, e)] \in [CmdQueues -> Seq(Entry)]
           /\ Grown([queue EXCEPT ![q] = Append(@, e)], queue)
           /\ \A v \in Nat, f \in Nat :
                e = Signal(v) => Signalled(f, [queue EXCEPT ![q] = Append(@, e)], v)
<1> DEFINE qs == [queue EXCEPT ![q] = Append(@, e)]
<1>1. queue \in [CmdQueues -> Seq(Entry)] /\ queue[q] \in Seq(Entry)
  BY DEF TypeOK
<1>2. /\ qs[q] = Append(queue[q], e) /\ qs[q] \in Seq(Entry)
      /\ \A r \in CmdQueues \ {q} : qs[r] = queue[r]
  BY <1>1, Appended
<1>3. qs \in [CmdQueues -> Seq(Entry)]
  BY <1>1, <1>2
<1>4. /\ Len(qs[q]) = Len(queue[q]) + 1 /\ Len(queue[q]) \in Nat
      /\ \A n \in 1 .. Len(queue[q]) : qs[q][n] = queue[q][n]
      /\ qs[q][Len(queue[q]) + 1] = e
  BY <1>1, <1>2, Appended
<1>5. \A r \in CmdQueues : Len(queue[r]) \in Nat
  BY <1>1
<1> HIDE DEF qs
<1>6. Grown(qs, queue)
  BY <1>2, <1>4, <1>5 DEF Grown
<1>7. ASSUME NEW v \in Nat, NEW f \in Nat, e = Signal(v) PROVE Signalled(f, qs, v)
  <2>1. Len(queue[q]) + 1 \in 1 .. Len(qs[q])
    BY <1>4
  <2> QED
    BY <1>4, <1>7, <2>1 DEF Signalled
<1> QED
  BY <1>3, <1>6, <1>7 DEF qs

\* A submission makes the queues grow, signals the current value and waits only for an
\* earlier one.
LEMMA SubmitWaits ==
    ASSUME TypeOK, NEW q \in CmdQueues, NEW v \in 1 .. MaxFenceValue,
           NEW job \in Jobs \cup {NoJob}, ExecuteOnly(q, v, job)
    PROVE  /\ Grown(queue', queue)
           /\ Signalled(fence, queue', CurrFenceVal)
           /\ \A r \in CmdQueues : WaitsInOrder(queue[r], CurrFenceVal)
                                     => WaitsInOrder(queue'[r], CurrFenceVal)
<1> DEFINE before == IF v # MaxFenceValue THEN Append(queue[q], Wait(v)) ELSE queue[q]
           mid    == Append(before, Exec(open[q], job))
           after  == Append(mid, Signal(CurrFenceVal))
           c      == CurrFenceVal
<1>1. /\ queue[q] \in Seq(Entry) /\ open[q] \in Nat /\ c \in Nat /\ v \in Nat
      /\ queue \in [CmdQueues -> Seq(Entry)] /\ fence \in Nat
  BY GpuAssumption DEF TypeOK, Slots, NoSlot, CurrFenceVal, MaxFenceValue
<1>2. v # MaxFenceValue => v < c
  BY DEF ExecuteOnly
<1>3. /\ Wait(v).kind = "wait" /\ Wait(v).val = v /\ Exec(open[q], job).kind = "exec"
      /\ Signal(c).kind = "signal" /\ Signal(c).val = c
  BY DEF Wait, Exec, Signal
<1>4. Wait(v) \in Entry /\ Exec(open[q], job) \in Entry /\ Signal(c) \in Entry
  BY <1>1, Entries
<1>5. queue' = [queue EXCEPT ![q] = after]
  BY DEF ExecuteOnly
<1> HIDE DEF c
<1>6. /\ before \in Seq(Entry)
      /\ WaitsInOrder(queue[q], c) => WaitsInOrder(before, c)
  BY <1>1, <1>2, <1>3, <1>4, Appended, WaitsAppend
<1>7. Len(queue[q]) <= Len(before) /\ \A n \in 1 .. Len(queue[q]) : before[n] = queue[q][n]
  <2>1. Len(queue[q]) \in Nat
    BY <1>1
  <2> QED
    BY <1>1, <1>4, <2>1, Appended
<1> HIDE DEF before
<1>8. /\ mid \in Seq(Entry)
      /\ WaitsInOrder(before, c) => WaitsInOrder(mid, c)
      /\ Len(mid) = Len(before) + 1 /\ \A n \in 1 .. Len(before) : mid[n] = before[n]
  BY <1>1, <1>3, <1>4, <1>6, Appended, WaitsAppend
<1> HIDE DEF mid
<1>9. /\ after \in Seq(Entry)
      /\ WaitsInOrder(mid, c) => WaitsInOrder(after, c)
      /\ Len(after) = Len(mid) + 1 /\ \A n \in 1 .. Len(mid) : after[n] = mid[n]
      /\ after[Len(mid) + 1] = Signal(c)
  BY <1>1, <1>3, <1>4, <1>8, Appended, WaitsAppend DEF c
<1> HIDE DEF after
<1>10. /\ queue'[q] = after
       /\ \A r \in CmdQueues \ {q} : queue'[r] = queue[r]
  BY <1>1, <1>5
<1>11. /\ Len(queue[q]) \in Nat /\ Len(before) \in Nat /\ Len(mid) \in Nat
       /\ \A r \in CmdQueues : Len(queue[r]) \in Nat
  BY <1>1, <1>6, <1>8
<1>12. /\ Len(queue[q]) <= Len(after) /\ Len(mid) + 1 \in 1 .. Len(after)
       /\ \A n \in 1 .. Len(queue[q]) : after[n] = queue[q][n]
  <2>1. \A n \in 1 .. Len(queue[q]) : n \in 1 .. Len(before) /\ n \in 1 .. Len(mid)
    BY <1>7, <1>8, <1>11
  <2> QED
    BY <1>7, <1>8, <1>9, <1>11, <2>1
<1>13. Grown(queue', queue)
  BY <1>10, <1>11, <1>12 DEF Grown
<1>14. Signalled(fence, queue', c)
  BY <1>9, <1>10, <1>12 DEF Signalled
<1>15. \A r \in CmdQueues : WaitsInOrder(queue[r], c) => WaitsInOrder(queue'[r], c)
  BY <1>6, <1>8, <1>9, <1>10
<1> QED
  BY <1>13, <1>14, <1>15 DEF c

\* A fence that cannot fall back keeps up with the signals that a queue runs.
LEMMA FenceKeepsUp ==
    ASSUME TypeOK, ~RewindAllowed, NEW q \in CmdQueues, GpuStep(q)
    PROVE  /\ fence' >= fence /\ fence' \in Nat
           /\ queue[q][1].kind = "signal" => fence' >= queue[q][1].val
           /\ event => event'
           /\ call \in {"await", "pace_await"} /\ fence' >= CurrFenceVal =>
                event' \/ fence' = fence
<1>1. /\ queue[q] # <<>> /\ queue[q] \in Seq(Entry) /\ fence \in Nat
      /\ Head(queue[q]) = queue[q][1] /\ queue[q][1] \in Entry
  BY StepQueue, Popped DEF TypeOK
<1>2. queue[q][1].val \in Nat
  BY <1>1 DEF Entry
<1>3. CASE GpuSignal(q)
  <2>1. fence' = IF queue[q][1].val > fence THEN queue[q][1].val ELSE fence
    BY <1>1, <1>3 DEF GpuSignal
  <2>2. event' = (event \/ (call \in {"await", "pace_await"} /\ fence' >= CurrFenceVal))
    BY <1>3 DEF GpuSignal
  <2>3. /\ event => event'
        /\ call \in {"await", "pace_await"} /\ fence' >= CurrFenceVal => event'
    BY <2>2, Zenon
  <2> QED
    BY <1>1, <1>2, <2>1, <2>3
<1>4. CASE GpuWait(q) \/ GpuExec(q)
  <2>1. fence' = fence /\ event' = event /\ queue[q][1].kind # "signal"
    BY <1>1, <1>4 DEF GpuWait, GpuExec, HeadIs
  <2> QED
    BY <1>1, <2>1
<1> QED
  BY <1>3, <1>4 DEF GpuStep

\* So a value that was signalled stays so while the GPU runs.
LEMMA StepSignalled ==
    ASSUME TypeOK, ~RewindAllowed, NEW q \in CmdQueues, GpuStep(q), NEW v \in Nat,
           Signalled(fence, queue, v)
    PROVE  Signalled(fence', queue', v)
<1>1. /\ queue[q] # <<>> /\ queue[q] \in Seq(Entry) /\ queue'[q] = Tail(queue[q])
      /\ \A r \in CmdQueues \ {q} : queue'[r] = queue[r]
  BY StepQueue
<1>2. /\ Len(Tail(queue[q])) = Len(queue[q]) - 1 /\ Len(queue[q]) \in Nat
      /\ \A n \in 1 .. Len(Tail(queue[q])) : Tail(queue[q])[n] = queue[q][n + 1]
  BY <1>1, Popped
<1>3. /\ fence' >= fence /\ fence' \in Nat /\ fence \in Nat
      /\ queue[q][1].kind = "signal" => fence' >= queue[q][1].val
  BY FenceKeepsUp DEF TypeOK
<1>4. CASE fence >= v
  BY <1>3, <1>4 DEF Signalled
<1>5. ASSUME NEW r \in CmdQueues, NEW n \in 1 .. Len(queue[r]), queue[r][n] = Signal(v)
      PROVE  Signalled(fence', queue', v)
  <2>1. CASE r # q
    BY <1>1, <1>5, <2>1 DEF Signalled
  <2>2. CASE r = q /\ n = 1
    BY <1>3, <1>5, <2>2 DEF Signalled, Signal
  <2>3. CASE r = q /\ n # 1
    <3>1. n - 1 \in 1 .. Len(queue'[q]) /\ (n - 1) + 1 = n
      BY <1>1, <1>2, <1>5, <2>3
    <3>2. queue'[q][n - 1] = Signal(v)
      BY <1>1, <1>2, <1>5, <2>3, <3>1
    <3> QED
      BY <3>1, <3>2 DEF Signalled
  <2> QED
    BY <2>1, <2>2, <2>3
<1> QED
  BY <1>4, <1>5 DEF Signalled

\* Nobody waits for anything yet.
LEMMA WakeInit == Init => WakeInv
<1> SUFFICES ASSUME Init PROVE WakeInv
  OBVIOUS
<1>1. /\ call = "idle" /\ fence = 0 /\ frame_index = 0 /\ 0 \in Slots
      /\ NewestSlot = 0 /\ ~InPace
  BY GpuAssumption DEF Init, Slots, NewestSlot, InPace
<1>2. NewestVal = 1
  BY <1>1 DEF Init, NewestVal
<1>3. \A v \in Nat : v < NewestVal => Signalled(fence, queue, v)
  BY <1>1, <1>2 DEF Signalled
<1>4. \A q \in CmdQueues : WaitsInOrder(queue[q], NewestVal)
  BY DEF Init, WaitsInOrder
<1> QED
  BY <1>1, <1>3, <1>4 DEF WakeInv

\* Every step keeps the invariant of the waits.
LEMMA WakeNext == TypeOK /\ FenceOrder /\ DrainInv /\ WakeInv /\ [Next]_gpu_vars => WakeInv'
<1> SUFFICES ASSUME TypeOK, FenceOrder, DrainInv, WakeInv, [Next]_gpu_vars,
                    ~RewindAllowed, device'
             PROVE  WakeInv'
  BY DEF WakeInv
<1>0. TypeOK' /\ RewindAllowed' = RewindAllowed
  BY TypeNext
<1>1. /\ frame_index \in Slots /\ NewestSlot \in Slots /\ fence \in Nat
      /\ CurrFenceVal \in Nat /\ NewestVal \in Nat
      /\ queue \in [CmdQueues -> Seq(Entry)] /\ queue' \in [CmdQueues -> Seq(Entry)]
      /\ \A q \in CmdQueues : queue[q] \in Seq(Entry)
  BY <1>0, SlotRing DEF TypeOK, NewestSlot, NewestVal, CurrFenceVal
<1>2. ASSUME device
      PROVE  /\ \A v \in Nat : v < NewestVal => Signalled(fence, queue, v)
             /\ InPace \/ call \in {"check", "await"} => Signalled(fence, queue, NewestVal)
             /\ call \in {"await", "pace_await"} /\ fence >= CurrFenceVal => event
             /\ \A q \in CmdQueues : WaitsInOrder(queue[q], NewestVal)
             /\ fence <= NewestVal
  BY <1>2 DEF WakeInv, FenceOrder
<1>3. ~InPace => NewestSlot = frame_index /\ NewestVal = CurrFenceVal
  BY DEF NewestSlot, NewestVal, CurrFenceVal
<1>4. ASSUME UNCHANGED <<device, frame_index, fence_vals, fence, queue>>,
             InPace' <=> InPace,
             call' \in {"check", "await"} => call = "check",
             call' \in {"await", "pace_await"} => fence < CurrFenceVal
      PROVE  WakeInv'
  <2>1. NewestVal' = NewestVal /\ CurrFenceVal' = CurrFenceVal
    BY <1>4 DEF NewestVal, NewestSlot, CurrFenceVal
  <2> QED
    BY <1>1, <1>2, <1>4, <2>1 DEF WakeInv
<1>5. ASSUME NEW q \in CmdQueues, CreateCommandList(q) PROVE WakeInv'
  BY <1>4, <1>5 DEF CreateCommandList, Ready, InPace
<1>6. ASSUME NEW q \in CmdQueues, NEW v \in 1 .. MaxFenceValue, NEW job \in Jobs \cup {NoJob},
             ExecuteOnly(q, v, job), UNCHANGED <<device, frame_index, fence, event, call>>
      PROVE  WakeInv'
  <2>1. device /\ call = "idle" /\ call' = "idle" /\ ~InPace /\ ~InPace'
    BY <1>6 DEF ExecuteOnly, Ready, InPace
  <2>2. NewestVal = CurrFenceVal /\ NewestVal' = CurrFenceVal + 1
    BY <1>1, <1>3, <1>6, <2>1 DEF ExecuteOnly, NewestVal, NewestSlot, TypeOK
  <2>3. /\ Grown(queue', queue) /\ Signalled(fence, queue', CurrFenceVal)
        /\ \A r \in CmdQueues : WaitsInOrder(queue'[r], CurrFenceVal)
    BY <1>2, <1>6, <2>1, <2>2, SubmitWaits
  <2>4. \A r \in CmdQueues : WaitsInOrder(queue'[r], CurrFenceVal + 1)
    BY <1>1, <2>3, WaitsWeaken
  <2>5. ASSUME NEW w \in Nat, w < CurrFenceVal + 1 PROVE Signalled(fence, queue', w)
    <3>1. CASE w = CurrFenceVal
      BY <2>3, <3>1
    <3>2. CASE w < CurrFenceVal
      <4>1. Signalled(fence, queue, w)
        BY <1>2, <2>1, <2>2, <3>2
      <4> QED
        BY <1>1, <2>3, <4>1, GrownSignalled
    <3> QED
      BY <1>1, <2>5, <3>1, <3>2
  <2> QED
    BY <1>6, <2>1, <2>2, <2>4, <2>5 DEF WakeInv
<1>7. CASE MoveToNextFrame
  <2>1. /\ device /\ call = "idle" /\ call' = "pace" /\ ~InPace /\ fence' = fence
        /\ fence_vals' = fence_vals /\ frame_index' = NextSlot(frame_index)
        /\ queue' = [r \in CmdQueues |-> Append(queue[r], Signal(CurrFenceVal))]
    BY <1>7 DEF MoveToNextFrame, Ready, InPace
  <2>2. NewestVal = CurrFenceVal /\ NewestVal' = CurrFenceVal
    BY <1>1, <1>3, <2>1, SlotRing DEF NewestVal, NewestSlot, InPace
  <2>3. /\ Signal(CurrFenceVal) \in Entry /\ Signal(CurrFenceVal).val = CurrFenceVal
        /\ Signal(CurrFenceVal).kind = "signal"
    BY <1>1, Entries DEF Signal
  <2>4. \A r \in CmdQueues :
          /\ Len(queue'[r]) = Len(queue[r]) + 1 /\ Len(queue[r]) \in Nat
          /\ \A n \in 1 .. Len(queue[r]) : queue'[r][n] = queue[r][n]
          /\ queue'[r][Len(queue[r]) + 1] = Signal(CurrFenceVal)
    BY <1>1, <2>1, <2>3, Appended
  <2>5. Grown(queue', queue)
    BY <2>4 DEF Grown
  <2>6. Signalled(fence, queue', CurrFenceVal)
    <3>1. Compute \in CmdQueues
      BY DEF CmdQueues
    <3>2. Len(queue[Compute]) + 1 \in 1 .. Len(queue'[Compute])
      BY <2>4, <3>1
    <3> QED
      BY <2>4, <3>1, <3>2 DEF Signalled
  <2>7. \A w \in Nat : w < CurrFenceVal => Signalled(fence, queue', w)
    BY <1>1, <1>2, <2>1, <2>2, <2>5, GrownSignalled
  <2>8. ASSUME NEW r \in CmdQueues PROVE WaitsInOrder(queue'[r], CurrFenceVal)
    <3>1. queue[r] \in Seq(Entry) /\ WaitsInOrder(queue[r], CurrFenceVal)
      BY <1>1, <1>2, <2>1, <2>2
    <3>2. queue'[r] = Append(queue[r], Signal(CurrFenceVal))
      BY <2>1
    <3>3. WaitsInOrder(Append(queue[r], Signal(CurrFenceVal)), CurrFenceVal)
      BY <1>1, <2>3, <3>1, WaitsAppend
    <3> QED
      BY <3>2, <3>3
  <2>9. /\ fence' = fence /\ NewestVal' = CurrFenceVal
        /\ call' \notin {"check", "await", "pace_await"}
    BY <2>1, <2>2
  <2> QED
    BY <2>6, <2>7, <2>8, <2>9 DEF WakeInv
<1>8. CASE HandleDeviceLost
  BY <1>8 DEF HandleDeviceLost
<1>9. CASE WaitForGpu \/ PaceWait \/ FlushWait \/ FlushSkip \/ FlushPassed \/ WaitForGpuReturns
  BY <1>4, <1>9 DEF WaitForGpu, Ready, PaceWait, FlushWait, FlushSkip, FlushPassed, WaitForGpuReturns, InPace
<1>10. CASE PaceDone
  <2>1. /\ InPace /\ StartSlot /\ device /\ call' = "idle" /\ ~InPace'
    BY <1>10 DEF PaceDone, StartSlot, InPace, DrainInv
  <2>2. /\ NewestSlot = PrevSlot(frame_index) /\ NewestSlot' = frame_index
        /\ fence' = fence /\ queue' = queue
    BY <2>1 DEF StartSlot, NewestSlot, InPace
  <2>3. NewestVal' = NewestVal + 1
    BY <1>1, <2>1, <2>2 DEF StartSlot, NewestVal, TypeOK
  <2>4. \A w \in Nat : w < NewestVal + 1 => Signalled(fence, queue, w)
    <3>1. \A w \in Nat : w < NewestVal + 1 => w < NewestVal \/ w = NewestVal
      BY <1>1
    <3> QED
      BY <1>2, <2>1, <3>1
  <2>5. \A r \in CmdQueues : WaitsInOrder(queue[r], NewestVal + 1)
    BY <1>1, <1>2, <2>1, WaitsWeaken
  <2> QED
    BY <2>1, <2>2, <2>3, <2>4, <2>5 DEF WakeInv
<1>11. CASE FlushSignal
  <2>1. /\ device /\ wait_queue \in CmdQueues /\ call = "flush" /\ call' = "check" /\ ~InPace
        /\ UNCHANGED <<frame_index, fence_vals, fence>>
        /\ queue' = [queue EXCEPT ![wait_queue] = Append(@, Signal(CurrFenceVal))]
    BY <1>11 DEF FlushSignal, DrainInv, InPace, TypeOK, CmdQueues, CmdQueueNum, Compute, VideoEncode
  <2>2. NewestVal = CurrFenceVal /\ NewestVal' = CurrFenceVal /\ ~InPace'
    BY <1>3, <2>1 DEF NewestVal, NewestSlot, InPace
  <2>3. /\ Signal(CurrFenceVal) \in Entry /\ Signal(CurrFenceVal).val = CurrFenceVal
        /\ Signal(CurrFenceVal).kind = "signal"
    BY <1>1, Entries DEF Signal
  <2>4. Grown(queue', queue) /\ Signalled(fence, queue', CurrFenceVal)
    BY <1>1, <2>1, <2>3, AppendGrows
  <2>5. \A w \in Nat : w < CurrFenceVal => Signalled(fence, queue', w)
    BY <1>1, <1>2, <2>1, <2>2, <2>4, GrownSignalled
  <2>6. \A r \in CmdQueues : WaitsInOrder(queue'[r], CurrFenceVal)
    <3>1. queue'[wait_queue] = Append(queue[wait_queue], Signal(CurrFenceVal))
      BY <1>1, <2>1
    <3>2. WaitsInOrder(queue'[wait_queue], CurrFenceVal)
      BY <1>1, <1>2, <2>1, <2>2, <2>3, <3>1, WaitsAppend
    <3>3. \A r \in CmdQueues \ {wait_queue} : queue'[r] = queue[r]
      BY <1>1, <2>1
    <3> QED
      BY <1>2, <2>1, <2>2, <3>2, <3>3
  <2> QED
    BY <2>1, <2>2, <2>4, <2>5, <2>6 DEF WakeInv
<1>12. CASE FlushWoken
  <2>1. /\ device /\ call = "await" /\ call' = "flush" /\ ~InPace /\ ~InPace'
        /\ UNCHANGED <<frame_index, fence, queue>>
    BY <1>12 DEF FlushWoken, DrainInv, InPace
  <2>2. NewestVal = CurrFenceVal /\ NewestVal' = CurrFenceVal + 1
    BY <1>1, <1>3, <1>12, <2>1 DEF FlushWoken, NewestVal, NewestSlot, TypeOK
  <2>3. \A w \in Nat : w < CurrFenceVal + 1 => Signalled(fence, queue, w)
    <3>1. \A w \in Nat : w < CurrFenceVal + 1 => w < CurrFenceVal \/ w = CurrFenceVal
      BY <1>1
    <3> QED
      BY <1>2, <2>1, <2>2, <3>1
  <2>4. \A r \in CmdQueues : WaitsInOrder(queue[r], CurrFenceVal + 1)
    BY <1>1, <1>2, <2>1, <2>2, WaitsWeaken
  <2> QED
    BY <2>1, <2>2, <2>3, <2>4 DEF WakeInv
<1>13. ASSUME NEW q \in CmdQueues, GpuStep(q) PROVE WakeInv'
  <2>1. /\ UNCHANGED <<device, frame_index, fence_vals, call>>
        /\ queue[q] # <<>> /\ queue'[q] = Tail(queue[q])
        /\ \A r \in CmdQueues \ {q} : queue'[r] = queue[r]
    BY <1>13, StepQueue
  <2>2. /\ NewestVal' = NewestVal /\ CurrFenceVal' = CurrFenceVal /\ (InPace' <=> InPace) /\ device
    BY <2>1 DEF NewestVal, NewestSlot, InPace, CurrFenceVal
  <2>3. \A w \in Nat : Signalled(fence, queue, w) => Signalled(fence', queue', w)
    BY <1>13, StepSignalled
  <2>4. \A r \in CmdQueues : WaitsInOrder(queue'[r], NewestVal)
    BY <1>1, <1>2, <2>1, <2>2, WaitsPop
  <2>5. call \in {"await", "pace_await"} /\ fence' >= CurrFenceVal => event'
    BY <1>2, <1>13, <2>2, FenceKeepsUp
  <2>6. \A w \in Nat : w < NewestVal => Signalled(fence', queue', w)
    BY <1>2, <2>2, <2>3
  <2>7. InPace \/ call \in {"check", "await"} => Signalled(fence', queue', NewestVal)
    BY <1>1, <1>2, <2>2, <2>3
  <2> QED
    BY <2>1, <2>2, <2>4, <2>5, <2>6, <2>7 DEF WakeInv
<1>14. CASE UNCHANGED gpu_vars
  BY <1>14 DEF gpu_vars, WakeInv, NewestVal, NewestSlot, InPace, CurrFenceVal
<1> QED
  BY <1>5, <1>6, <1>7, <1>8, <1>9, <1>10, <1>11, <1>12, <1>13, <1>14
     DEF Next, CallStart, CallStep, Execute, ExecuteAndReset

\* After a lost device nothing is left in the queues, and nobody is in a call.
LostInv == ~device => \A q \in CmdQueues : queue[q] = <<>>

\* A step keeps what is known of a CPU thread that sleeps.
LEMMA LostNext == TypeOK /\ DrainInv /\ LostInv /\ [Next]_gpu_vars => LostInv'
<1> SUFFICES ASSUME TypeOK, DrainInv, LostInv, [Next]_gpu_vars, ~device'
             PROVE  \A q \in CmdQueues : queue'[q] = <<>>
  BY DEF LostInv
<1>1. CASE device
  <2>1. HandleDeviceLost
    BY <1>1, StepQueue
       DEF Next, CallStart, CallStep, CreateCommandList, Execute, ExecuteAndReset, MoveToNextFrame,
           WaitForGpu, PaceWait, PaceDone, StartSlot, FlushSignal, FlushWait, FlushSkip, FlushPassed,
           FlushWoken, WaitForGpuReturns, gpu_vars
  <2> QED
    BY <2>1 DEF HandleDeviceLost
<1>2. CASE ~device
  <2>1. call = "idle" /\ \A q \in CmdQueues : queue[q] = <<>>
    BY <1>2 DEF DrainInv, LostInv
  <2>2. \A q \in CmdQueues : ~GpuStep(q)
    BY <2>1 DEF GpuStep, GpuWait, GpuExec, GpuSignal, HeadIs
  <2>3. UNCHANGED gpu_vars
    BY <1>2, <2>1, <2>2
       DEF Next, CallStart, CallStep, CreateCommandList, Execute, ExecuteAndReset, ExecuteOnly,
           Ready, MoveToNextFrame, WaitForGpu, HandleDeviceLost, PaceWait, PaceDone, FlushSignal,
           FlushWait, FlushSkip, FlushPassed, FlushWoken, WaitForGpuReturns
  <2> QED
    BY <2>1, <2>3 DEF gpu_vars
<1> QED
  BY <1>1, <1>2

\* What the theorems about the waits rest on.
WaitInv == TypeOK /\ FenceOrder /\ DrainInv /\ WakeInv /\ LostInv

\* The invariant of waiting always holds.
LEMMA WaitInvHolds == Spec => []WaitInv
<1>1. Init => WaitInv
  BY TypeInit, FenceInit, DrainInit, WakeInit DEF WaitInv, LostInv, Init
<1>2. WaitInv /\ [Next]_gpu_vars => WaitInv'
  BY TypeNext, FenceNext, DrainNext, WakeNext, LostNext DEF WaitInv
<1> QED
  BY <1>1, <1>2, PTL DEF Spec

\* A CPU that sleeps on the event has a signal on its way that will wake it.
THEOREM NoWakeupLost == Spec => []NoLostWakeup
<1>1. WaitInv => NoLostWakeup
  <2> SUFFICES ASSUME WaitInv, ~RewindAllowed, call \in {"await", "pace_await"}, ~event
               PROVE  \E q \in CmdQueues : \E n \in 1 .. Len(queue[q]) :
                        queue[q][n].kind = "signal" /\ queue[q][n].val >= CurrFenceVal
    BY DEF NoLostWakeup
  <2>1. /\ device /\ frame_index \in Slots /\ CurrFenceVal \in Nat /\ fence \in Nat
        /\ fence < CurrFenceVal
    BY DEF WaitInv, DrainInv, WakeInv, TypeOK, CurrFenceVal
  <2>2. Signalled(fence, queue, CurrFenceVal)
    <3>1. CASE call = "await"
      <4>1. NewestVal = CurrFenceVal
        BY <3>1 DEF NewestVal, NewestSlot, InPace, CurrFenceVal
      <4> QED
        BY <2>1, <3>1, <4>1 DEF WaitInv, WakeInv
    <3>2. CASE call = "pace_await"
      <4>1. NewestSlot = PrevSlot(frame_index) /\ NewestSlot # frame_index
        BY <2>1, <3>2, SlotRing DEF NewestSlot, InPace
      <4>2. CurrFenceVal < NewestVal
        BY <2>1, <4>1 DEF WaitInv, FenceOrder, CurrFenceVal
      <4> QED
        BY <2>1, <4>2 DEF WaitInv, WakeInv
    <3> QED
      BY <3>1, <3>2
  <2>3. Signal(CurrFenceVal).kind = "signal" /\ Signal(CurrFenceVal).val = CurrFenceVal
    BY DEF Signal
  <2> QED
    BY <2>1, <2>2, <2>3 DEF Signalled
<1> QED
  BY <1>1, WaitInvHolds, PTL

\* A queue that waits for a value the fence has not reached has its signal in the other queue.
LEMMA WaitsForOther ==
    ASSUME WaitInv, ~RewindAllowed, device, NEW q \in CmdQueues, queue[q] # <<>>,
           queue[q][1].kind = "wait", fence < queue[q][1].val
    PROVE  \E r \in CmdQueues \ {q} : \E n \in 1 .. Len(queue[r]) :
             queue[r][n].kind = "signal" /\ queue[r][n].val = queue[q][1].val
<1> DEFINE v == queue[q][1].val
<1>1. /\ queue[q] \in Seq(Entry) /\ queue[q][1] \in Entry /\ Len(queue[q]) \in Nat \ {0}
      /\ fence \in Nat
  BY Popped DEF WaitInv, TypeOK
<1>2. v \in Nat
  BY <1>1 DEF Entry
<1>3. WaitsInOrder(queue[q], NewestVal)
  BY DEF WaitInv, WakeInv
<1>4. v < NewestVal /\ \A n \in 2 .. Len(queue[q]) : queue[q][n].kind = "signal" => queue[q][n].val > v
  BY <1>1, <1>3 DEF WaitsInOrder
<1>5. Signalled(fence, queue, v)
  BY <1>2, <1>4 DEF WaitInv, WakeInv
<1>6. PICK r \in CmdQueues : \E n \in 1 .. Len(queue[r]) : queue[r][n] = Signal(v)
  BY <1>1, <1>2, <1>5 DEF Signalled
<1>7. Signal(v).kind = "signal" /\ Signal(v).val = v
  BY DEF Signal
<1>8. r # q
  BY <1>1, <1>2, <1>4, <1>6, <1>7
<1> QED
  BY <1>6, <1>7, <1>8

\* If a queue has entries, one of the two can go on.
THEOREM QueuesNotStuck == Spec => []GpuNotStuck
<1>1. WaitInv => GpuNotStuck
  <2> SUFFICES ASSUME WaitInv PROVE GpuNotStuck
    OBVIOUS
  <2> SUFFICES ASSUME ~RewindAllowed, NEW q \in CmdQueues, queue[q] # <<>>,
                      \A r \in CmdQueues : queue[r] # <<>> =>
                        queue[r][1].kind = "wait" /\ ~(fence >= queue[r][1].val)
               PROVE  FALSE
    <3>1. \A r \in CmdQueues : queue[r] \in Seq(Entry)
      BY DEF WaitInv, TypeOK
    <3>2. \A r \in CmdQueues : queue[r] # <<>> => Head(queue[r]) = queue[r][1]
      BY <3>1, Popped
    <3> QED
      BY <3>2 DEF GpuNotStuck, HeadIs
  <2>1. device
    BY DEF WaitInv, LostInv
  <2>2. \A r \in CmdQueues : queue[r] \in Seq(Entry) /\ fence \in Nat
    BY DEF WaitInv, TypeOK
  <2>3. \A r \in CmdQueues : queue[r] # <<>> => queue[r][1].val \in Nat /\ fence < queue[r][1].val
    <3>1. ASSUME NEW r \in CmdQueues, queue[r] # <<>> PROVE queue[r][1].val \in Nat
      <4>1. queue[r][1] \in Entry
        BY <2>2, <3>1, Popped
      <4> QED
        BY <4>1 DEF Entry
    <3> QED
      BY <2>2, <3>1
  <2>4. ASSUME NEW r \in CmdQueues, queue[r] # <<>>
        PROVE  \E t \in CmdQueues \ {r} : queue[t] # <<>> /\ queue[t][1].val < queue[r][1].val
    <3>1. PICK t \in CmdQueues \ {r} : \E n \in 1 .. Len(queue[t]) :
             queue[t][n].kind = "signal" /\ queue[t][n].val = queue[r][1].val
      BY <2>1, <2>3, <2>4, WaitsForOther
    <3>2. PICK n \in 1 .. Len(queue[t]) :
             queue[t][n].kind = "signal" /\ queue[t][n].val = queue[r][1].val
      BY <3>1
    <3>3. queue[t] # <<>> /\ queue[t][1].kind = "wait" /\ n # 1 /\ Len(queue[t]) \in Nat
      BY <2>2, <3>2
    <3>4. WaitsInOrder(queue[t], NewestVal)
      BY <2>1 DEF WaitInv, WakeInv
    <3>5. 1 \in 1 .. Len(queue[t]) /\ n \in 1 + 1 .. Len(queue[t])
      BY <3>2, <3>3
    <3>6. queue[t][n].val > queue[t][1].val
      BY <3>2, <3>3, <3>4, <3>5 DEF WaitsInOrder
    <3> QED
      BY <2>2, <2>3, <3>2, <3>3, <3>6
  <2>5. PICK t \in CmdQueues \ {q} : queue[t] # <<>> /\ queue[t][1].val < queue[q][1].val
    BY <2>4
  <2>6. PICK u \in CmdQueues \ {t} : queue[u] # <<>> /\ queue[u][1].val < queue[t][1].val
    BY <2>4, <2>5
  <2>7. u = q
    BY <2>5, <2>6 DEF CmdQueues
  <2> QED
    BY <2>3, <2>5, <2>6, <2>7
<1> QED
  BY <1>1, WaitInvHolds, PTL

(***************************************************************************)
(* Frame pacing, also with a fence that falls back                         *)
(***************************************************************************)

IsList(entry, s) == entry.kind = "exec" /\ entry.val = s
IsSignal(entry, v) == entry.kind = "signal" /\ entry.val >= v

\* In a queue the lists of slot s come before every signal of v or more.
ListsBefore(entries, s, v) ==
    \A m \in 1 .. Len(entries) : \A n \in 1 .. Len(entries) :
        IsSignal(entries[m], v) /\ IsList(entries[n], s) => n < m

NoListOf(entries, s) == \A n \in 1 .. Len(entries) : ~IsList(entries[n], s)
SomeQueueDone(s) == \E q \in CmdQueues : NoListOf(queue[q], s)

\* A queue that signals the value of a slot has run the lists of the slot. So where the fence has reached that value, or had when it set the event, one
\* of the queues has.
PaceInv ==
    device =>
        /\ \A q \in CmdQueues : open[q] # NoSlot => open[q] = frame_index /\ ~InPace
        /\ \A s \in Slots, q \in CmdQueues : ListsBefore(queue[q], s, fence_vals[s])
        /\ \A s \in Slots : fence >= fence_vals[s] => SomeQueueDone(s)
        /\ event /\ call = "pace_await" => SomeQueueDone(frame_index)

\* The lists of a slot stay first when the head of a queue goes, and stay gone.
LEMMA ListsPop ==
    ASSUME NEW q \in Seq(Entry), q # <<>>, NEW s \in Nat, NEW v \in Nat
    PROVE  /\ ListsBefore(q, s, v) => ListsBefore(Tail(q), s, v)
           /\ NoListOf(q, s) => NoListOf(Tail(q), s)
           /\ ListsBefore(q, s, v) /\ IsSignal(q[1], v) => NoListOf(Tail(q), s)
<1> DEFINE t == Tail(q)
<1>1. Len(t) = Len(q) - 1 /\ Len(q) \in Nat \ {0} /\ \A n \in 1 .. Len(t) : t[n] = q[n + 1]
  BY Popped
<1> HIDE DEF t
<1>2. \A n \in 1 .. Len(t) : t[n] = q[n + 1] /\ n + 1 \in 1 .. Len(q) /\ ~(n + 1 < 1)
  BY <1>1
<1>3. ASSUME ListsBefore(q, s, v) PROVE ListsBefore(t, s, v)
  <2> SUFFICES ASSUME NEW m \in 1 .. Len(t), NEW n \in 1 .. Len(t), IsSignal(t[m], v), IsList(t[n], s)
               PROVE  n < m
    BY DEF ListsBefore
  <2>1. n + 1 < m + 1
    BY <1>2, <1>3 DEF ListsBefore
  <2> QED
    BY <2>1
<1>4. NoListOf(q, s) => NoListOf(t, s)
  BY <1>2 DEF NoListOf
<1>5. ListsBefore(q, s, v) /\ IsSignal(q[1], v) => NoListOf(t, s)
  BY <1>1, <1>2 DEF ListsBefore, NoListOf
<1> QED
  BY <1>3, <1>4, <1>5 DEF t

\* They stay first when an entry comes that is no list of the slot.
LEMMA ListsAppend ==
    ASSUME NEW q \in Seq(Entry), NEW e \in Entry, NEW s \in Nat, NEW v \in Nat, ~IsList(e, s)
    PROVE  /\ ListsBefore(q, s, v) => ListsBefore(Append(q, e), s, v)
           /\ NoListOf(q, s) => NoListOf(Append(q, e), s)
<1> DEFINE t == Append(q, e)
<1>1. /\ Len(t) = Len(q) + 1 /\ Len(q) \in Nat /\ t[Len(q) + 1] = e
      /\ \A n \in 1 .. Len(q) : t[n] = q[n]
  BY Appended
<1> HIDE DEF t
<1>2. \A n \in 1 .. Len(t) : (n \in 1 .. Len(q) /\ t[n] = q[n]) \/ (n = Len(q) + 1 /\ t[n] = e)
  BY <1>1
<1>3. NoListOf(q, s) => NoListOf(t, s)
  BY <1>2 DEF NoListOf
<1>4. ASSUME ListsBefore(q, s, v) PROVE ListsBefore(t, s, v)
  <2> SUFFICES ASSUME NEW m \in 1 .. Len(t), NEW n \in 1 .. Len(t), IsSignal(t[m], v), IsList(t[n], s)
               PROVE  n < m
    BY DEF ListsBefore
  <2>1. n \in 1 .. Len(q) /\ IsList(q[n], s)
    BY <1>2
  <2>2. CASE m = Len(q) + 1
    BY <1>1, <2>1, <2>2
  <2>3. CASE m \in 1 .. Len(q) /\ t[m] = q[m]
    BY <1>4, <2>1, <2>3 DEF ListsBefore
  <2> QED
    BY <1>2, <2>2, <2>3
<1> QED
  BY <1>3, <1>4 DEF t

\* A queue whose signals are below v has no list behind a signal of v; and what holds
\* for a value holds for a larger one.
LEMMA ListsBelow ==
    ASSUME NEW q \in Seq(Entry), NEW s \in Nat, NEW v \in Nat, NEW w \in Nat
    PROVE  /\ UpTo(q, w) /\ w < v => ListsBefore(q, s, v)
           /\ ListsBefore(q, s, w) /\ w <= v => ListsBefore(q, s, v)
           /\ NoListOf(q, s) => ListsBefore(q, s, v)
<1>1. \A n \in 1 .. Len(q) : q[n] \in Entry
  OBVIOUS
<1>2. \A n \in 1 .. Len(q) : q[n].val \in Nat
  BY <1>1 DEF Entry
<1>3. UpTo(q, w) /\ w < v => ListsBefore(q, s, v)
  BY <1>2 DEF UpTo, ListsBefore, IsSignal
<1>4. ListsBefore(q, s, w) /\ w <= v => ListsBefore(q, s, v)
  BY <1>2 DEF ListsBefore, IsSignal
<1>5. NoListOf(q, s) => ListsBefore(q, s, v)
  BY DEF NoListOf, ListsBefore
<1> QED
  BY <1>3, <1>4, <1>5

\* A submission adds lists of the slot that its list was opened in, and of no other.
LEMMA SubmitLists ==
    ASSUME TypeOK, NEW q \in CmdQueues, NEW v \in 1 .. MaxFenceValue,
           NEW job \in Jobs \cup {NoJob}, ExecuteOnly(q, v, job),
           NEW s \in Nat, open[q] # s, NEW w \in Nat
    PROVE  \A r \in CmdQueues :
             /\ ListsBefore(queue[r], s, w) => ListsBefore(queue'[r], s, w)
             /\ NoListOf(queue[r], s) => NoListOf(queue'[r], s)
<1> DEFINE before == IF v # MaxFenceValue THEN Append(queue[q], Wait(v)) ELSE queue[q]
           mid    == Append(before, Exec(open[q], job))
           after  == Append(mid, Signal(CurrFenceVal))
<1>1. /\ queue[q] \in Seq(Entry) /\ open[q] \in Nat /\ CurrFenceVal \in Nat /\ v \in Nat
      /\ queue \in [CmdQueues -> Seq(Entry)]
  BY GpuAssumption DEF TypeOK, Slots, NoSlot, CurrFenceVal, MaxFenceValue
<1>2. ~IsList(Wait(v), s) /\ ~IsList(Exec(open[q], job), s) /\ ~IsList(Signal(CurrFenceVal), s)
  BY DEF Wait, Exec, Signal, IsList
<1>3. Wait(v) \in Entry /\ Exec(open[q], job) \in Entry /\ Signal(CurrFenceVal) \in Entry
  BY <1>1, Entries
<1>4. queue' = [queue EXCEPT ![q] = after]
  BY DEF ExecuteOnly
<1>5. /\ before \in Seq(Entry)
      /\ ListsBefore(queue[q], s, w) => ListsBefore(before, s, w)
      /\ NoListOf(queue[q], s) => NoListOf(before, s)
  BY <1>1, <1>2, <1>3, Appended, ListsAppend
<1> HIDE DEF before
<1>6. /\ mid \in Seq(Entry)
      /\ ListsBefore(before, s, w) => ListsBefore(mid, s, w)
      /\ NoListOf(before, s) => NoListOf(mid, s)
  BY <1>2, <1>3, <1>5, Appended, ListsAppend
<1> HIDE DEF mid
<1>7. /\ ListsBefore(mid, s, w) => ListsBefore(after, s, w)
      /\ NoListOf(mid, s) => NoListOf(after, s)
  BY <1>2, <1>3, <1>6, ListsAppend
<1> HIDE DEF after
<1>8. queue'[q] = after /\ \A r \in CmdQueues \ {q} : queue'[r] = queue[r]
  BY <1>1, <1>4
<1> QED
  BY <1>5, <1>6, <1>7, <1>8

\* No slot has been left, and no list is on its way.
LEMMA PaceInit == Init => PaceInv
<1> SUFFICES ASSUME Init PROVE PaceInv
  OBVIOUS
<1>1. \A q \in CmdQueues : queue[q] = <<>> /\ open[q] = NoSlot
  BY DEF Init
<1>2. \A s \in Slots, q \in CmdQueues : ListsBefore(queue[q], s, fence_vals[s])
  BY <1>1 DEF ListsBefore
<1>3. \A s \in Slots : SomeQueueDone(s)
  BY <1>1 DEF SomeQueueDone, NoListOf, CmdQueues
<1>4. ~event
  BY DEF Init
<1> QED
  BY <1>1, <1>2, <1>3, <1>4 DEF PaceInv

\* Every step keeps the invariant of the pacing.
LEMMA PaceNext == TypeOK /\ FenceOrder /\ DrainInv /\ PaceInv /\ [Next]_gpu_vars => PaceInv'
<1> SUFFICES ASSUME TypeOK, FenceOrder, DrainInv, PaceInv, [Next]_gpu_vars, device'
             PROVE  PaceInv'
  BY DEF PaceInv
<1>0. TypeOK'
  BY TypeNext
<1>1. /\ frame_index \in Slots /\ fence \in Nat /\ CurrFenceVal \in Nat
      /\ \A s \in Slots : s \in Nat /\ s # NoSlot /\ fence_vals[s] \in Nat
      /\ fence_vals \in [Slots -> Nat]
      /\ queue \in [CmdQueues -> Seq(Entry)]
      /\ \A q \in CmdQueues : queue[q] \in Seq(Entry)
      /\ Compute \in CmdQueues
  BY GpuAssumption DEF TypeOK, CurrFenceVal, Slots, NoSlot, CmdQueues
<1>2. ASSUME device
      PROVE  /\ \A q \in CmdQueues : open[q] # NoSlot => open[q] = frame_index /\ ~InPace
             /\ \A s \in Slots, q \in CmdQueues : ListsBefore(queue[q], s, fence_vals[s])
             /\ \A s \in Slots : fence >= fence_vals[s] => SomeQueueDone(s)
             /\ event /\ call = "pace_await" => SomeQueueDone(frame_index)
             /\ event => call \in {"await", "pace_await"}
             /\ SignalsUpTo(NewestVal) /\ fence <= NewestVal
  BY <1>2 DEF PaceInv, DrainInv, FenceOrder
<1>3. ~InPace => NewestSlot = frame_index /\ NewestVal = CurrFenceVal
  BY DEF NewestSlot, NewestVal, CurrFenceVal
<1>4. ASSUME UNCHANGED <<device, frame_index, fence_vals, fence, event, queue, open>>,
             InPace' <=> InPace, call' = "pace_await" => ~event
      PROVE  PaceInv'
  BY <1>2, <1>4 DEF PaceInv, SomeQueueDone
<1>5. ASSUME NEW q \in CmdQueues, CreateCommandList(q) PROVE PaceInv'
  <2>1. /\ device /\ call = "idle" /\ call' = "idle" /\ ~InPace /\ ~InPace'
        /\ open' = [open EXCEPT ![q] = frame_index]
        /\ UNCHANGED <<frame_index, fence_vals, fence, queue>>
    BY <1>5 DEF CreateCommandList, Ready, InPace
  <2>2. \A r \in CmdQueues : open'[r] # NoSlot => open'[r] = frame_index
    BY <1>2, <2>1 DEF TypeOK
  <2> QED
    BY <1>2, <2>1, <2>2 DEF PaceInv, SomeQueueDone
<1>6. ASSUME NEW q \in CmdQueues, NEW v \in 1 .. MaxFenceValue, NEW job \in Jobs \cup {NoJob},
             ExecuteOnly(q, v, job), UNCHANGED <<device, frame_index, fence, event, call>>,
             open' = open \/ open' = [open EXCEPT ![q] = NoSlot]
                          \/ open' = [open EXCEPT ![q] = frame_index]
      PROVE  PaceInv'
  <2>1. /\ device /\ call = "idle" /\ call' = "idle" /\ ~InPace /\ ~InPace'
        /\ open[q] # NoSlot /\ fence' = fence /\ frame_index' = frame_index
    BY <1>6 DEF ExecuteOnly, Ready, InPace
  <2>2. open[q] = frame_index
    BY <1>2, <2>1
  <2>3. /\ fence_vals'[frame_index] = CurrFenceVal + 1
        /\ \A s \in Slots \ {frame_index} : fence_vals'[s] = fence_vals[s]
    BY <1>1, <1>6 DEF ExecuteOnly
  <2>4. \A r \in CmdQueues : queue'[r] \in Seq(Entry) /\ UpTo(queue'[r], CurrFenceVal)
    BY <1>2, <1>3, <1>6, <2>1, SubmitUpTo, SubmitTypes
  <2>5. \A r \in CmdQueues : ListsBefore(queue'[r], frame_index, CurrFenceVal + 1)
    BY <1>1, <2>4, ListsBelow
  <2>6. ASSUME NEW s \in Slots \ {frame_index}
        PROVE  /\ \A r \in CmdQueues : ListsBefore(queue'[r], s, fence_vals[s])
               /\ SomeQueueDone(s) => SomeQueueDone(s)'
    <3>1. \A r \in CmdQueues :
            /\ ListsBefore(queue[r], s, fence_vals[s]) => ListsBefore(queue'[r], s, fence_vals[s])
            /\ NoListOf(queue[r], s) => NoListOf(queue'[r], s)
      BY <1>1, <1>6, <2>2, SubmitLists
    <3> QED
      BY <1>2, <2>1, <3>1 DEF SomeQueueDone
  <2>7. \A r \in CmdQueues : open'[r] # NoSlot => open'[r] = frame_index
    BY <1>2, <1>6, <2>1 DEF TypeOK
  <2>8. \A s \in Slots, r \in CmdQueues : ListsBefore(queue'[r], s, fence_vals'[s])
    BY <2>3, <2>5, <2>6
  <2>9. \A s \in Slots : fence >= fence_vals'[s] => SomeQueueDone(s)'
    BY <1>1, <1>2, <1>3, <2>1, <2>3, <2>6
  <2> QED
    BY <2>1, <2>7, <2>8, <2>9 DEF PaceInv
<1>7. CASE MoveToNextFrame
  <2>1. /\ device /\ call = "idle" /\ call' = "pace" /\ ~InPace /\ fence' = fence
        /\ fence_vals' = fence_vals /\ frame_index' = NextSlot(frame_index) /\ open' = open
        /\ \A q \in CmdQueues : open[q] = NoSlot
        /\ queue' = [r \in CmdQueues |-> Append(queue[r], Signal(CurrFenceVal))]
    BY <1>7 DEF MoveToNextFrame, Ready, InPace
  <2>2. Signal(CurrFenceVal) \in Entry /\ \A s \in Nat : ~IsList(Signal(CurrFenceVal), s)
    BY <1>1, Entries DEF Signal, IsList
  <2>3. ASSUME NEW s \in Slots, NEW r \in CmdQueues
        PROVE  /\ ListsBefore(queue'[r], s, fence_vals[s])
               /\ NoListOf(queue[r], s) => NoListOf(queue'[r], s)
    <3>1. queue'[r] = Append(queue[r], Signal(CurrFenceVal))
      BY <2>1
    <3>2. s \in Nat /\ fence_vals[s] \in Nat /\ queue[r] \in Seq(Entry)
          /\ ListsBefore(queue[r], s, fence_vals[s])
      BY <1>1, <1>2, <2>1
    <3>3. /\ ListsBefore(Append(queue[r], Signal(CurrFenceVal)), s, fence_vals[s])
          /\ NoListOf(queue[r], s) => NoListOf(Append(queue[r], Signal(CurrFenceVal)), s)
      BY <2>2, <3>2, ListsAppend
    <3> QED
      BY <3>1, <3>3
  <2>4. \A s \in Slots : SomeQueueDone(s) => SomeQueueDone(s)'
    BY <2>3 DEF SomeQueueDone
  <2>6. \A s \in Slots : fence >= fence_vals[s] => SomeQueueDone(s)'
    BY <1>2, <2>1, <2>4
  <2>7. /\ fence' = fence /\ fence_vals' = fence_vals /\ call' # "pace_await"
        /\ \A q \in CmdQueues : open'[q] = NoSlot
    BY <2>1
  <2> QED
    BY <2>3, <2>6, <2>7 DEF PaceInv
<1>8. CASE HandleDeviceLost
  BY <1>8 DEF HandleDeviceLost
<1>9. CASE WaitForGpu \/ PaceWait \/ FlushWait \/ FlushSkip \/ FlushPassed \/ WaitForGpuReturns
  <2>1. device /\ (call # "await" /\ call # "pace_await" => ~event)
    BY <1>2, <1>9 DEF WaitForGpu, Ready, PaceWait, FlushWait, FlushSkip, FlushPassed, WaitForGpuReturns, DrainInv
  <2> QED
    BY <1>4, <1>9, <2>1 DEF WaitForGpu, Ready, PaceWait, FlushWait, FlushSkip, FlushPassed, WaitForGpuReturns, InPace
<1>10. CASE PaceDone
  <2>1. /\ InPace /\ StartSlot /\ device /\ call' = "idle" /\ ~InPace'
        /\ UNCHANGED <<frame_index, fence, queue, open>>
    BY <1>10 DEF PaceDone, StartSlot, InPace, DrainInv
  <2>2. /\ NewestSlot = PrevSlot(frame_index) /\ PrevSlot(frame_index) \in Slots
        /\ NewestVal = fence_vals[PrevSlot(frame_index)] /\ NewestVal \in Nat
    BY <1>1, <2>1, SlotRing DEF NewestSlot, NewestVal
  <2>3. /\ fence_vals'[frame_index] = NewestVal + 1
        /\ \A s \in Slots \ {frame_index} : fence_vals'[s] = fence_vals[s]
    BY <1>1, <2>1, <2>2 DEF StartSlot
  <2>4. \A r \in CmdQueues : UpTo(queue[r], NewestVal)
    BY <1>2, <2>1 DEF SignalsUpTo
  <2>5. \A r \in CmdQueues : ListsBefore(queue[r], frame_index, NewestVal + 1)
    BY <1>1, <2>2, <2>4, ListsBelow
  <2>6. \A s \in Slots, r \in CmdQueues : ListsBefore(queue[r], s, fence_vals'[s])
    BY <1>2, <2>1, <2>3, <2>5
  <2>7. \A s \in Slots : fence >= fence_vals'[s] => SomeQueueDone(s)
    BY <1>1, <1>2, <2>1, <2>2, <2>3
  <2> QED
    BY <1>2, <2>1, <2>6, <2>7 DEF PaceInv, SomeQueueDone
<1>11. CASE FlushSignal
  <2>1. /\ device /\ wait_queue \in CmdQueues /\ call = "flush" /\ call' = "check"
        /\ ~InPace /\ ~InPace' /\ UNCHANGED <<frame_index, fence_vals, fence, open>>
        /\ queue' = [queue EXCEPT ![wait_queue] = Append(@, Signal(CurrFenceVal))]
    BY <1>11 DEF FlushSignal, DrainInv, InPace, TypeOK, CmdQueues, CmdQueueNum, Compute, VideoEncode
  <2>2. Signal(CurrFenceVal) \in Entry /\ \A s \in Nat : ~IsList(Signal(CurrFenceVal), s)
    BY <1>1, Entries DEF Signal, IsList
  <2>3. /\ queue'[wait_queue] = Append(queue[wait_queue], Signal(CurrFenceVal))
        /\ \A r \in CmdQueues \ {wait_queue} : queue'[r] = queue[r]
    BY <1>1, <2>1
  <2>4. ASSUME NEW s \in Slots, NEW r \in CmdQueues
        PROVE  /\ ListsBefore(queue'[r], s, fence_vals[s])
               /\ NoListOf(queue[r], s) => NoListOf(queue'[r], s)
    <3>1. s \in Nat /\ fence_vals[s] \in Nat /\ queue[r] \in Seq(Entry)
          /\ ListsBefore(queue[r], s, fence_vals[s])
      BY <1>1, <1>2, <2>1
    <3>2. /\ ListsBefore(Append(queue[r], Signal(CurrFenceVal)), s, fence_vals[s])
          /\ NoListOf(queue[r], s) => NoListOf(Append(queue[r], Signal(CurrFenceVal)), s)
      BY <2>2, <3>1, ListsAppend
    <3> QED
      BY <2>3, <3>1, <3>2
  <2>5. \A s \in Slots : SomeQueueDone(s) => SomeQueueDone(s)'
    BY <2>4 DEF SomeQueueDone
  <2>6. /\ \A s \in Slots, r \in CmdQueues : ListsBefore(queue'[r], s, fence_vals'[s])
        /\ \A s \in Slots : fence >= fence_vals[s] => SomeQueueDone(s)'
    BY <1>2, <2>1, <2>4, <2>5
  <2>7. /\ fence' = fence /\ fence_vals' = fence_vals /\ frame_index' = frame_index
        /\ call' # "pace_await" /\ ~InPace'
        /\ \A q \in CmdQueues : open'[q] # NoSlot => open'[q] = frame_index
    BY <1>2, <2>1
  <2> QED
    BY <2>6, <2>7 DEF PaceInv
<1>12. CASE FlushWoken
  <2>1. /\ device /\ call = "await" /\ call' = "flush" /\ ~InPace /\ ~InPace'
        /\ UNCHANGED <<frame_index, fence, queue, open>>
    BY <1>12 DEF FlushWoken, DrainInv, InPace
  <2>2. /\ fence_vals'[frame_index] = fence_vals[frame_index] + 1
        /\ \A s \in Slots \ {frame_index} : fence_vals'[s] = fence_vals[s]
    BY <1>1, <1>12 DEF FlushWoken, CurrFenceVal
  <2>3. \A r \in CmdQueues : ListsBefore(queue[r], frame_index, fence_vals[frame_index] + 1)
    BY <1>1, <1>2, <2>1, ListsBelow
  <2>4. \A s \in Slots, r \in CmdQueues : ListsBefore(queue[r], s, fence_vals'[s])
    BY <1>2, <2>1, <2>2, <2>3
  <2>5. \A s \in Slots : fence >= fence_vals'[s] => SomeQueueDone(s)
    BY <1>1, <1>2, <1>3, <2>1, <2>2 DEF CurrFenceVal
  <2> QED
    BY <1>2, <2>1, <2>4, <2>5 DEF PaceInv, SomeQueueDone
<1>13. ASSUME NEW q \in CmdQueues, GpuStep(q) PROVE PaceInv'
  <2>1. /\ UNCHANGED <<device, frame_index, fence_vals, call, open>>
        /\ queue[q] # <<>> /\ queue'[q] = Tail(queue[q])
        /\ \A r \in CmdQueues \ {q} : queue'[r] = queue[r]
    BY <1>13, StepQueue DEF GpuStep, GpuWait, GpuExec, GpuSignal
  <2>2. (InPace' <=> InPace) /\ device /\ CurrFenceVal = fence_vals[frame_index]
    BY <2>1 DEF InPace, CurrFenceVal
  <2>3. ASSUME NEW s \in Slots
        PROVE  /\ \A r \in CmdQueues : ListsBefore(queue'[r], s, fence_vals[s])
               /\ SomeQueueDone(s) => SomeQueueDone(s)'
               /\ IsSignal(queue[q][1], fence_vals[s]) => SomeQueueDone(s)'
    <3>1. /\ s \in Nat /\ fence_vals[s] \in Nat /\ queue[q] \in Seq(Entry)
          /\ \A r \in CmdQueues : ListsBefore(queue[r], s, fence_vals[s])
      BY <1>1, <1>2, <2>2
    <3>2. /\ ListsBefore(Tail(queue[q]), s, fence_vals[s])
          /\ NoListOf(queue[q], s) => NoListOf(Tail(queue[q]), s)
          /\ IsSignal(queue[q][1], fence_vals[s]) => NoListOf(Tail(queue[q]), s)
      BY <2>1, <3>1, ListsPop
    <3> QED
      BY <2>1, <3>1, <3>2 DEF SomeQueueDone
  <2>4. ASSUME NEW s \in Slots, fence' >= fence_vals[s], ~(fence >= fence_vals[s])
        PROVE  IsSignal(queue[q][1], fence_vals[s])
    <3>1. Head(queue[q]) = queue[q][1] /\ queue[q][1] \in Entry
      BY <1>1, <2>1, Popped
    <3>2. CASE GpuSignal(q)
      <4>1. /\ queue[q][1].kind = "signal"
            /\ fence' = fence \/ fence' = queue[q][1].val
        BY <3>1, <3>2 DEF GpuSignal, HeadIs
      <4> QED
        BY <2>4, <4>1 DEF IsSignal
    <3>3. CASE GpuWait(q) \/ GpuExec(q)
      BY <2>4, <3>3 DEF GpuWait, GpuExec
    <3> QED
      BY <1>13, <3>2, <3>3 DEF GpuStep
  <2>5. \A s \in Slots : fence' >= fence_vals[s] => SomeQueueDone(s)'
    BY <1>2, <2>2, <2>3, <2>4
  <2>6. event' /\ call = "pace_await" => event \/ fence' >= CurrFenceVal
    BY <1>13, Zenon DEF GpuStep, GpuWait, GpuExec, GpuSignal
  <2>7. event' /\ call = "pace_await" => SomeQueueDone(frame_index)'
    <3>1. SomeQueueDone(frame_index) => SomeQueueDone(frame_index)'
      BY <1>1, <2>1, <2>3
    <3>2. fence' >= CurrFenceVal => SomeQueueDone(frame_index)'
      BY <1>1, <2>1, <2>2, <2>5
    <3> QED
      BY <1>2, <2>2, <2>6, <3>1, <3>2
  <2>8. /\ \A s \in Slots, r \in CmdQueues : ListsBefore(queue'[r], s, fence_vals[s])
        /\ \A r \in CmdQueues : open[r] # NoSlot => open[r] = frame_index /\ ~InPace
    BY <1>2, <2>2, <2>3
  <2> QED
    BY <2>1, <2>2, <2>5, <2>7, <2>8 DEF PaceInv
<1>14. CASE UNCHANGED gpu_vars
  BY <1>2, <1>14 DEF gpu_vars, PaceInv, InPace, SomeQueueDone
<1>15. ASSUME NEW q \in CmdQueues, NEW v \in 1 .. MaxFenceValue, NEW job \in Jobs \cup {NoJob},
              Execute(q, v, job) \/ ExecuteAndReset(q, v, job)
       PROVE  PaceInv'
  BY <1>6, <1>15 DEF Execute, ExecuteAndReset
<1> QED
  BY <1>5, <1>7, <1>8, <1>9, <1>10, <1>11, <1>12, <1>13, <1>14, <1>15
     DEF Next, CallStart, CallStep

\* MoveToNextFrame resets the allocators of a slot only when one of the queues has run
\* all it had of that slot, whatever the other queue does and however the fence moves.
THEOREM PacingHolds == Spec => PacedBySomeQueue
<1> DEFINE Inv == TypeOK /\ FenceOrder /\ DrainInv /\ PaceInv
<1>1. Init => Inv
  BY TypeInit, FenceInit, DrainInit, PaceInit
<1>2. Inv /\ [Next]_gpu_vars => Inv'
  BY TypeNext, FenceNext, DrainNext, PaceNext
<1>3. Inv /\ [Next]_gpu_vars =>
        [PaceDone => \E q \in CmdQueues : \A n \in 1 .. Len(queue[q]) :
           ~(queue[q][n].kind = "exec" /\ queue[q][n].val = frame_index)]_gpu_vars
  <2> SUFFICES ASSUME Inv, PaceDone PROVE SomeQueueDone(frame_index)
    BY DEF SomeQueueDone, NoListOf, IsList
  <2>1. device /\ frame_index \in Slots /\ InPace
    BY DEF PaceDone, DrainInv, TypeOK, InPace
  <2>2. fence >= CurrFenceVal \/ (event /\ call = "pace_await")
    BY Zenon DEF PaceDone
  <2> QED
    BY <2>1, <2>2 DEF PaceInv, CurrFenceVal
<1> QED
  BY <1>1, <1>2, <1>3, PTL DEF Spec, PacedBySomeQueue

=============================================================================
