---------------------------- MODULE ReaderProofs ----------------------------
(***************************************************************************)
(* Of the two readers: they give whole frames with their own timespans,    *)
(* and every image of a directory once and in order.                       *)
(***************************************************************************)
EXTENDS Readers, TLAPS

Loops == INSTANCE FreeListProofs

(***************************************************************************)
(* VideoReader: the surfaces between decoder, reader and compute queue     *)
(***************************************************************************)

Last == Len(Timestamps)

\* What the constants are.
LEMMA Stream ==
  /\ Last \in Nat /\ DOMAIN Timestamps = 1 .. Last
  /\ \A n \in 1 .. Last : Timestamps[n] \in Nat
  /\ Planes \in Nat \ {0} /\ FrameCount \in Nat \ {0} /\ GapBound \in Nat
  /\ None \notin Surfaces
<1>1. Timestamps \in Seq(Nat)
  BY ReadersAssumption DEF Video!VideoAssumption
<1> QED
  BY <1>1, ReadersAssumption DEF Video!VideoAssumption, Last

\* Where ReadFrame has queued a wait for the sample it holds; and where it has queued no
\* release yet.
Copying == {"copy", "queue_release"}
Held == {"queue_wait", "copy", "queue_release"}

\* A command is about a surface, a frame that was read and, if it copies, a plane.
CommandOK(c) ==
  /\ c.surface \in Surfaces
  /\ c.frame \in 1 .. curr_frame
  /\ c.op \in {"wait", "copy", "release"}
  /\ c.op = "copy" => c.plane \in 0 .. Planes - 1

QueueOK ==
  /\ queue \in Seq([op : {"wait", "copy", "release"}, surface : Surfaces, frame : Nat, plane : Nat])
  /\ \A i \in 1 .. Len(queue) : CommandOK(queue[i])

\* Up to the release ReadFrame holds a surface, which is filled with the newest frame.
SampleOK ==
  /\ pc \in {"caller", "read", "queue_wait", "copy", "queue_release", "return", "ended"}
  /\ pc \in {"caller", "read", "ended"} => sample = None
  /\ pc \in Held => /\ sample \in Surfaces /\ curr_frame > 0
                    /\ surfaces[sample].frame = curr_frame /\ ~surfaces[sample].queued
  /\ pc = "copy" => plane < Planes

\* As long as a command is left that is about a surface, the surface is not given back: the
\* release is the last of its commands, and the decoder gets it back with it.
SurfacesKept ==
  /\ \A i \in 1 .. Len(queue) :
       /\ surfaces[queue[i].surface].frame = queue[i].frame
       /\ surfaces[queue[i].surface].queued \/ (queue[i].surface = sample /\ pc \in Copying)
  /\ \A i, j \in 1 .. Len(queue) :
       i < j /\ queue[i].op = "release" => queue[j].surface # queue[i].surface
  /\ pc \in Held => \A i \in 1 .. Len(queue) : queue[i].op = "release" => queue[i].surface # sample
  /\ pc = "queue_wait" => \A i \in 1 .. Len(queue) : queue[i].surface # sample

\* A surface that is copied from is ready, or will be waited for before.
WaitsFirst(s, n) == surfaces[s].ready \/ \E j \in 1 .. n : queue[j].op = "wait" /\ queue[j].surface = s

CopiesWait ==
  /\ \A i \in 1 .. Len(queue) : queue[i].op = "copy" => WaitsFirst(queue[i].surface, i - 1)
  /\ pc = "copy" => WaitsFirst(sample, Len(queue))

TexturesOK == textures \in [1 .. Last -> [0 .. Planes - 1 -> 0 .. Last]]

\* A plane of a frame's texture is the frame's, or the queue or the reader will come to it.
PlaneComes(n, p) ==
  \/ textures[n][p] = n
  \/ \E i \in 1 .. Len(queue) : queue[i].op = "copy" /\ queue[i].frame = n /\ queue[i].plane = p
  \/ n = curr_frame /\ pc = "copy" /\ p >= plane

\* SlotsOfOneFrame, in these words.
SlotsComplete ==
  \A n \in 1 .. Last : (\E i \in 0 .. FrameCount - 1 : slots[i] = n) =>
    \A p \in 0 .. Planes - 1 : PlaneComes(n, p)

VideoInv ==
  /\ Video!TypeOK /\ QueueOK /\ SampleOK /\ SurfacesKept /\ CopiesWait /\ TexturesOK
  /\ SlotsComplete

\* The invariant holds at the start.
LEMMA VideoInit == Video!Init => VideoInv
<1> SUFFICES ASSUME Video!Init PROVE VideoInv
  OBVIOUS
<1>1. /\ surfaces \in [Surfaces -> [frame : 0 .. Last, ready : BOOLEAN, held : BOOLEAN, queued : BOOLEAN]]
  BY Stream DEF Video!Init, Video!Free
<1>2. Video!TypeOK
  BY <1>1, Stream DEF Video!Init, Video!TypeOK, Last
<1>3. queue = <<>> /\ Len(queue) = 0 /\ pc = "caller" /\ sample = None
  BY DEF Video!Init
<1>4. QueueOK
  BY <1>3 DEF QueueOK
<1>5. SampleOK /\ SurfacesKept /\ CopiesWait
  BY <1>3 DEF SampleOK, SurfacesKept, CopiesWait, Held, Copying
<1>6. TexturesOK
  BY Stream DEF TexturesOK, Video!Init, Video!Frames
<1>7. SlotsComplete
  BY Stream DEF SlotsComplete, Video!Init
<1> QED
  BY <1>2, <1>4, <1>5, <1>6, <1>7 DEF VideoInv

\* A call, a gap and the end change nothing that the invariant is about.
LEMMA CallStep ==
  ASSUME VideoInv, Video!CallReadFrame \/ Video!ReadGap \/ Video!ReadEnd
  PROVE  VideoInv'
<1>1. /\ UNCHANGED <<surfaces, sample, plane, curr_frame, last_timestamp, elapsed, queue, textures, slots>>
      /\ pc \in {"caller", "read"} /\ pc' \in {"read", "ended"}
      /\ gaps' \in 0 .. GapBound
  BY Stream DEF VideoInv, Video!TypeOK, Video!CallReadFrame, Video!ReadGap, Video!ReadEnd
<1>2. Video!TypeOK'
  BY <1>1 DEF VideoInv, Video!TypeOK
<1>3. QueueOK' /\ SampleOK' /\ SurfacesKept' /\ CopiesWait'
  BY <1>1 DEF VideoInv, QueueOK, CommandOK, SampleOK, SurfacesKept, CopiesWait, WaitsFirst, Held, Copying
<1>4. TexturesOK' /\ SlotsComplete'
  BY <1>1 DEF VideoInv, TexturesOK, SlotsComplete, PlaneComes
<1> QED
  BY <1>2, <1>3, <1>4 DEF VideoInv

\* What every sample does to the counters.
LEMMA Counted ==
  ASSUME VideoInv, curr_frame < Last, Video!CountFrame(Timestamps[curr_frame + 1])
  PROVE  /\ curr_frame' = curr_frame + 1 /\ curr_frame \in Nat /\ curr_frame' \in 1 .. Last
         /\ last_timestamp' \in Nat /\ elapsed' \in Int
<1>1. curr_frame \in 0 .. Last /\ last_timestamp \in Nat /\ elapsed \in Int
  BY DEF VideoInv, Video!TypeOK, Last
<1>2. curr_frame + 1 \in 1 .. Last
  BY <1>1, Stream
<1>3. Timestamps[curr_frame + 1] \in Nat
  BY <1>2, Stream
<1> QED
  BY <1>1, <1>2, <1>3 DEF Video!CountFrame, Video!Timespan

\* A sample on another buffer is counted, and nothing else.
LEMMA OtherStep ==
  ASSUME VideoInv, Video!ReadOther
  PROVE  VideoInv'
<1>1. /\ UNCHANGED <<surfaces, sample, plane, gaps, queue, textures, slots>>
      /\ pc = "read" /\ pc' = "return" /\ curr_frame < Last
      /\ Video!CountFrame(Timestamps[curr_frame + 1])
  BY DEF Video!ReadOther, Last
<1>2. curr_frame' = curr_frame + 1 /\ curr_frame \in Nat /\ curr_frame' \in 1 .. Last
      /\ last_timestamp' \in Nat /\ elapsed' \in Int
  BY <1>1, Counted
<1>3. Video!TypeOK'
  BY <1>1, <1>2 DEF VideoInv, Video!TypeOK, Last
<1>4. QueueOK' /\ SampleOK' /\ SurfacesKept' /\ CopiesWait'
  BY <1>1, <1>2 DEF VideoInv, QueueOK, CommandOK, SampleOK, SurfacesKept, CopiesWait, WaitsFirst, Held, Copying
<1>5. TexturesOK' /\ SlotsComplete'
  BY <1>1 DEF VideoInv, TexturesOK, SlotsComplete, PlaneComes
<1> QED
  BY <1>3, <1>4, <1>5 DEF VideoInv

\* A sample on a surface that is free: no command that is left is about it.
LEMMA SurfaceStep ==
  ASSUME VideoInv, NEW s \in Surfaces, Video!ReadSurface(s)
  PROVE  VideoInv'
<1> DEFINE new == [frame |-> curr_frame', ready |-> FALSE, held |-> TRUE, queued |-> FALSE]
<1>1. /\ UNCHANGED <<plane, gaps, queue, textures, slots>>
      /\ sample' = s /\ pc = "read" /\ pc' = "queue_wait" /\ curr_frame < Last
      /\ surfaces' = [surfaces EXCEPT ![s] = new]
      /\ Video!CountFrame(Timestamps[curr_frame + 1])
  BY DEF Video!ReadSurface, Last
<1>2. ~surfaces[s].queued
  BY DEF Video!ReadSurface, Video!Reusable
<1>3. curr_frame' = curr_frame + 1 /\ curr_frame \in Nat /\ curr_frame' \in 1 .. Last
      /\ last_timestamp' \in Nat /\ elapsed' \in Int
  BY <1>1, Counted
<1>4. surfaces \in [Surfaces -> [frame : 0 .. Last, ready : BOOLEAN, held : BOOLEAN, queued : BOOLEAN]]
  BY DEF VideoInv, Video!TypeOK, Last
<1>5. /\ surfaces' \in [Surfaces -> [frame : 0 .. Last, ready : BOOLEAN, held : BOOLEAN, queued : BOOLEAN]]
      /\ surfaces'[s] = new /\ \A t \in Surfaces : t # s => surfaces'[t] = surfaces[t]
  BY <1>1, <1>3, <1>4
<1>6. Video!TypeOK'
  BY <1>1, <1>3, <1>5, Stream DEF VideoInv, Video!TypeOK, Last
<1>7. \A i \in 1 .. Len(queue) : queue[i].surface \in Surfaces /\ queue[i].surface # s
  BY <1>1, <1>2 DEF VideoInv, QueueOK, CommandOK, SurfacesKept, Copying
<1>8. QueueOK'
  <2>1. \A i \in 1 .. Len(queue) : CommandOK(queue[i])
    BY DEF VideoInv, QueueOK
  <2>2. \A i \in 1 .. Len(queue) : CommandOK(queue[i])'
    BY <1>1, <1>3, <2>1 DEF CommandOK
  <2> QED
    BY <1>1, <2>2 DEF VideoInv, QueueOK
<1>9. SampleOK'
  BY <1>1, <1>3, <1>5 DEF VideoInv, SampleOK, Held
<1>10. SurfacesKept'
  BY <1>1, <1>5, <1>7 DEF VideoInv, SurfacesKept, Held, Copying
<1>11. CopiesWait'
  <2>1. ASSUME NEW i \in 1 .. Len(queue), queue[i].op = "copy"
        PROVE  surfaces'[queue[i].surface] = surfaces[queue[i].surface] /\ WaitsFirst(queue[i].surface, i - 1)
    BY <1>5, <1>7, <2>1 DEF VideoInv, CopiesWait
  <2> QED
    BY <1>1, <2>1 DEF CopiesWait, WaitsFirst
<1>12. TexturesOK' /\ SlotsComplete'
  BY <1>1 DEF VideoInv, TexturesOK, SlotsComplete, PlaneComes
<1> QED
  BY <1>6, <1>8, <1>9, <1>10, <1>11, <1>12 DEF VideoInv

\* A command is put behind those that are left.
LEMMA Enqueued ==
  ASSUME QueueOK, NEW op \in {"wait", "copy", "release"}, sample \in Surfaces, plane \in Nat,
         curr_frame \in Nat \ {0}, op = "copy" => plane < Planes,
         queue' = Append(queue, Video!Command(op)), curr_frame' = curr_frame
  PROVE  /\ QueueOK' /\ Len(queue) \in Nat /\ Len(queue') = Len(queue) + 1
         /\ \A i \in 1 .. Len(queue) : queue'[i] = queue[i]
         /\ queue'[Len(queue) + 1] = Video!Command(op)
         /\ Video!Command(op).op = op /\ Video!Command(op).surface = sample
         /\ Video!Command(op).frame = curr_frame /\ Video!Command(op).plane = plane
<1> DEFINE T == [op : {"wait", "copy", "release"}, surface : Surfaces, frame : Nat, plane : Nat]
           c == Video!Command(op)
<1>1. /\ c.op = op /\ c.surface = sample /\ c.frame = curr_frame /\ c.plane = plane
      /\ c \in T
  BY DEF Video!Command
<1>2. queue \in Seq(T)
  BY DEF QueueOK
<1> HIDE DEF T, c
<1>3. /\ queue' \in Seq(T) /\ Len(queue) \in Nat /\ Len(queue') = Len(queue) + 1
      /\ \A i \in 1 .. Len(queue) : queue'[i] = queue[i]
      /\ queue'[Len(queue) + 1] = c
  BY <1>1, <1>2 DEF c
<1>4. CommandOK(c)
  BY <1>1, Stream DEF CommandOK
<1>5. \A i \in 1 .. Len(queue) : CommandOK(queue[i])
  BY DEF QueueOK
<1>6. \A i \in 1 .. Len(queue') : CommandOK(queue'[i])
  <2> HIDE DEF CommandOK
  <2>1. \A i \in 1 .. Len(queue') : i \in 1 .. Len(queue) \/ i = Len(queue) + 1
    BY <1>3
  <2> QED
    BY <1>3, <1>4, <1>5, <2>1
<1>7. QueueOK'
  BY <1>3, <1>6 DEF QueueOK, CommandOK, T
<1> QED
  BY <1>1, <1>3, <1>7 DEF c

\* A wait is the first command about the sample's surface.
LEMMA WaitStep == ASSUME VideoInv, Video!QueueWait PROVE VideoInv'
<1> DEFINE L == Len(queue)
           slot == (curr_frame - 1) % FrameCount
<1>1. /\ UNCHANGED <<surfaces, sample, curr_frame, last_timestamp, elapsed, gaps, textures>>
      /\ pc = "queue_wait" /\ pc' = "copy" /\ plane' = 0
      /\ queue' = Append(queue, Video!Command("wait"))
      /\ slots' = [slots EXCEPT ![slot] = curr_frame]
  BY DEF Video!QueueWait
<1>2. sample \in Surfaces /\ surfaces[sample].frame = curr_frame /\ ~surfaces[sample].queued
      /\ curr_frame \in Nat \ {0} /\ curr_frame <= Last /\ plane \in Nat
  BY <1>1, Stream DEF VideoInv, SampleOK, Held, Video!TypeOK, Last
<1>3. /\ QueueOK' /\ L \in Nat /\ Len(queue') = L + 1
      /\ \A i \in 1 .. L : queue'[i] = queue[i]
      /\ queue'[L + 1].op = "wait" /\ queue'[L + 1].surface = sample /\ queue'[L + 1].frame = curr_frame
  BY <1>1, <1>2, Enqueued DEF VideoInv
<1> HIDE DEF L
<1>4. \A i \in 1 .. Len(queue') : i \in 1 .. L \/ i = L + 1
  BY <1>3
<1>5. \A i \in 1 .. L : queue[i].surface # sample
  BY <1>1 DEF VideoInv, SurfacesKept, L
<1>6. Video!TypeOK'
  BY <1>1, <1>2, Stream DEF VideoInv, Video!TypeOK, Last
<1>7. SampleOK'
  BY <1>1, <1>2, Stream DEF VideoInv, SampleOK, Held
<1>8. SurfacesKept'
  <2>1. \A i \in 1 .. L :
          /\ surfaces[queue[i].surface].frame = queue[i].frame
          /\ surfaces[queue[i].surface].queued
    BY <1>1, <1>5 DEF VideoInv, SurfacesKept, L
  <2>2. \A i, j \in 1 .. L : i < j /\ queue[i].op = "release" => queue[j].surface # queue[i].surface
    BY DEF VideoInv, SurfacesKept, L
  <2> QED
    BY <1>1, <1>2, <1>3, <1>4, <1>5, <2>1, <2>2 DEF SurfacesKept, Held, Copying
<1>9. CopiesWait'
  <2>1. \A i \in 1 .. L : queue[i].op = "copy" =>
          \/ surfaces[queue[i].surface].ready
          \/ \E j \in 1 .. i - 1 : queue[j].op = "wait" /\ queue[j].surface = queue[i].surface
    BY DEF VideoInv, CopiesWait, WaitsFirst, L
  <2>2. ASSUME NEW i \in 1 .. Len(queue'), queue'[i].op = "copy" PROVE WaitsFirst(queue[i].surface, i - 1)' 
    BY <1>1, <1>3, <1>4, <2>1, <2>2 DEF WaitsFirst
  <2>3. WaitsFirst(sample, Len(queue))'
    BY <1>1, <1>3 DEF WaitsFirst
  <2> QED
    BY <2>2, <2>3 DEF CopiesWait
<1>10. TexturesOK'
  BY <1>1 DEF VideoInv, TexturesOK
<1>11. SlotsComplete'
  <2> SUFFICES ASSUME NEW n \in 1 .. Last, NEW i \in 0 .. FrameCount - 1, slots'[i] = n,
                      NEW p \in 0 .. Planes - 1
               PROVE  PlaneComes(n, p)'
    BY DEF SlotsComplete
  <2>1. CASE n = curr_frame
    BY <1>1, <2>1, Stream DEF PlaneComes
  <2>2. CASE n # curr_frame
    <3>1. slots[i] = n
      BY <1>1, <2>2, Stream DEF VideoInv, Video!TypeOK
    <3>2. PlaneComes(n, p)
      BY <3>1 DEF VideoInv, SlotsComplete
    <3>3. CASE \E k \in 1 .. L : queue[k].op = "copy" /\ queue[k].frame = n /\ queue[k].plane = p
      BY <1>3, <3>3 DEF PlaneComes
    <3>4. CASE textures[n][p] = n
      BY <1>1, <3>4 DEF PlaneComes
    <3> QED
      BY <1>1, <3>2, <3>3, <3>4 DEF PlaneComes, L
  <2> QED
    BY <2>1, <2>2
<1> QED
  BY <1>3, <1>6, <1>7, <1>8, <1>9, <1>10, <1>11 DEF VideoInv

\* A copy has the wait before it; the plane that the slot still lacks is now on its way.
LEMMA CopyStep == ASSUME VideoInv, Video!QueueCopy PROVE VideoInv'
<1> DEFINE L == Len(queue)
<1>1. /\ UNCHANGED <<surfaces, sample, curr_frame, last_timestamp, elapsed, gaps, textures, slots>>
      /\ pc = "copy" /\ plane' = plane + 1
      /\ queue' = Append(queue, Video!Command("copy"))
      /\ pc' = IF plane' = Planes THEN "queue_release" ELSE "copy"
  BY DEF Video!QueueCopy
<1>2. sample \in Surfaces /\ surfaces[sample].frame = curr_frame /\ ~surfaces[sample].queued
      /\ curr_frame \in Nat \ {0} /\ curr_frame <= Last /\ plane \in Nat /\ plane < Planes
  BY <1>1, Stream DEF VideoInv, SampleOK, Held, Video!TypeOK, Last
<1>3. /\ QueueOK' /\ L \in Nat /\ Len(queue') = L + 1
      /\ \A i \in 1 .. L : queue'[i] = queue[i]
      /\ queue'[L + 1].op = "copy" /\ queue'[L + 1].surface = sample
      /\ queue'[L + 1].frame = curr_frame /\ queue'[L + 1].plane = plane
  BY <1>1, <1>2, Enqueued DEF VideoInv
<1> HIDE DEF L
<1>4. \A i \in 1 .. Len(queue') : i \in 1 .. L \/ i = L + 1
  BY <1>3
<1>6. Video!TypeOK'
  BY <1>1, <1>2, Stream DEF VideoInv, Video!TypeOK, Last
<1>7. SampleOK' /\ pc' \in Copying
  BY <1>1, <1>2, Stream DEF VideoInv, SampleOK, Held, Copying
<1>8. SurfacesKept'
  <2>1. \A i \in 1 .. L :
          /\ surfaces[queue[i].surface].frame = queue[i].frame
          /\ surfaces[queue[i].surface].queued \/ queue[i].surface = sample
    BY DEF VideoInv, SurfacesKept, L
  <2>2. \A i, j \in 1 .. L : i < j /\ queue[i].op = "release" => queue[j].surface # queue[i].surface
    BY DEF VideoInv, SurfacesKept, L
  <2>3. \A i \in 1 .. L : queue[i].op = "release" => queue[i].surface # sample
    BY <1>1 DEF VideoInv, SurfacesKept, L, Held
  <2> QED
    BY <1>1, <1>2, <1>3, <1>4, <1>7, <2>1, <2>2, <2>3 DEF SurfacesKept, Held, Copying
<1>9. CopiesWait'
  <2>1. \A i \in 1 .. L : queue[i].op = "copy" =>
          \/ surfaces[queue[i].surface].ready
          \/ \E j \in 1 .. i - 1 : queue[j].op = "wait" /\ queue[j].surface = queue[i].surface
    BY DEF VideoInv, CopiesWait, WaitsFirst, L
  <2>2. \/ surfaces[sample].ready
        \/ \E j \in 1 .. L : queue[j].op = "wait" /\ queue[j].surface = sample
    BY <1>1 DEF VideoInv, CopiesWait, WaitsFirst, L
  <2>3. ASSUME NEW i \in 1 .. Len(queue'), queue'[i].op = "copy" PROVE WaitsFirst(queue[i].surface, i - 1)'
    BY <1>1, <1>3, <1>4, <2>1, <2>2, <2>3 DEF WaitsFirst
  <2>4. WaitsFirst(sample, Len(queue))'
    BY <1>1, <1>3, <2>2 DEF WaitsFirst
  <2> QED
    BY <2>3, <2>4 DEF CopiesWait
<1>10. TexturesOK'
  BY <1>1 DEF VideoInv, TexturesOK
<1>11. SlotsComplete'
  <2> SUFFICES ASSUME NEW n \in 1 .. Last, \E i \in 0 .. FrameCount - 1 : slots[i] = n,
                      NEW p \in 0 .. Planes - 1
               PROVE  PlaneComes(n, p)'
    BY <1>1 DEF SlotsComplete
  <2>1. PlaneComes(n, p)
    BY DEF VideoInv, SlotsComplete
  <2>2. CASE textures[n][p] = n
    BY <1>1, <2>2 DEF PlaneComes
  <2>3. CASE \E k \in 1 .. L : queue[k].op = "copy" /\ queue[k].frame = n /\ queue[k].plane = p
    BY <1>3, <2>3 DEF PlaneComes
  <2>4. CASE n = curr_frame /\ p = plane
    BY <1>3, <2>4 DEF PlaneComes
  <2>5. CASE n = curr_frame /\ p >= plane /\ p # plane
    BY <1>1, <1>2, <2>5, Stream DEF PlaneComes
  <2> QED
    BY <2>1, <2>2, <2>3, <2>4, <2>5 DEF PlaneComes, L
<1> QED
  BY <1>3, <1>6, <1>7, <1>8, <1>9, <1>10, <1>11 DEF VideoInv

\* A release is the last command about the sample's surface, which it keeps from the decoder.
LEMMA ReleaseStep == ASSUME VideoInv, Video!QueueRelease PROVE VideoInv'
<1> DEFINE L == Len(queue)
<1>1. /\ UNCHANGED <<sample, plane, curr_frame, last_timestamp, elapsed, gaps, textures, slots>>
      /\ pc = "queue_release" /\ pc' = "return"
      /\ queue' = Append(queue, Video!Command("release"))
      /\ surfaces' = [surfaces EXCEPT ![sample].queued = TRUE]
  BY DEF Video!QueueRelease
<1>2. sample \in Surfaces /\ surfaces[sample].frame = curr_frame
      /\ curr_frame \in Nat \ {0} /\ curr_frame <= Last /\ plane \in Nat
  BY <1>1, Stream DEF VideoInv, SampleOK, Held, Video!TypeOK, Last
<1>3. /\ QueueOK' /\ L \in Nat /\ Len(queue') = L + 1
      /\ \A i \in 1 .. L : queue'[i] = queue[i]
      /\ queue'[L + 1].op = "release" /\ queue'[L + 1].surface = sample
      /\ queue'[L + 1].frame = curr_frame
  BY <1>1, <1>2, Enqueued DEF VideoInv
<1> HIDE DEF L
<1>4. \A i \in 1 .. Len(queue') : i \in 1 .. L \/ i = L + 1
  BY <1>3
<1>5. surfaces \in [Surfaces -> [frame : 0 .. Last, ready : BOOLEAN, held : BOOLEAN, queued : BOOLEAN]]
  BY DEF VideoInv, Video!TypeOK, Last
<1>6. /\ surfaces' \in [Surfaces -> [frame : 0 .. Last, ready : BOOLEAN, held : BOOLEAN, queued : BOOLEAN]]
      /\ surfaces'[sample].queued
      /\ \A s \in Surfaces : /\ surfaces'[s].frame = surfaces[s].frame /\ surfaces'[s].ready = surfaces[s].ready
                             /\ s # sample => surfaces'[s] = surfaces[s]
  BY <1>1, <1>2, <1>5
<1>7. Video!TypeOK'
  BY <1>1, <1>6 DEF VideoInv, Video!TypeOK, Last
<1>8. SampleOK'
  BY <1>1 DEF VideoInv, SampleOK, Held
<1>9. \A i \in 1 .. L : queue[i].surface \in Surfaces
  BY DEF VideoInv, QueueOK, CommandOK, L
<1>10. SurfacesKept'
  <2>1. \A i \in 1 .. L :
          /\ surfaces[queue[i].surface].frame = queue[i].frame
          /\ surfaces[queue[i].surface].queued \/ queue[i].surface = sample
    BY DEF VideoInv, SurfacesKept, L
  <2>2. \A i, j \in 1 .. L : i < j /\ queue[i].op = "release" => queue[j].surface # queue[i].surface
    BY DEF VideoInv, SurfacesKept, L
  <2>3. \A i \in 1 .. L : queue[i].op = "release" => queue[i].surface # sample
    BY <1>1 DEF VideoInv, SurfacesKept, L, Held
  <2>4. ASSUME NEW i \in 1 .. Len(queue')
        PROVE  surfaces'[queue'[i].surface].frame = queue'[i].frame /\ surfaces'[queue'[i].surface].queued
    <3>1. CASE i \in 1 .. L
      BY <1>3, <1>6, <1>9, <2>1, <3>1
    <3>2. CASE i = L + 1
      BY <1>2, <1>3, <1>6, <3>2
    <3> QED
      BY <1>4, <3>1, <3>2
  <2>5. ASSUME NEW i \in 1 .. Len(queue'), NEW j \in 1 .. Len(queue'), i < j, queue'[i].op = "release"
        PROVE  queue'[j].surface # queue'[i].surface
    <3>1. i \in 1 .. L
      BY <1>3, <2>5
    <3> QED
      BY <1>3, <1>4, <2>2, <2>3, <2>5, <3>1
  <2> QED
    BY <1>1, <2>4, <2>5 DEF SurfacesKept, Held
<1>11. CopiesWait'
  <2>1. \A i \in 1 .. L : queue[i].op = "copy" =>
          \/ surfaces[queue[i].surface].ready
          \/ \E j \in 1 .. i - 1 : queue[j].op = "wait" /\ queue[j].surface = queue[i].surface
    BY DEF VideoInv, CopiesWait, WaitsFirst, L
  <2>2. ASSUME NEW i \in 1 .. Len(queue'), queue'[i].op = "copy" PROVE WaitsFirst(queue[i].surface, i - 1)'
    <3>1. i \in 1 .. L /\ queue'[i] = queue[i] /\ queue[i].op = "copy"
      BY <1>3, <1>4, <2>2
    <3>2. CASE surfaces[queue[i].surface].ready
      BY <1>6, <1>9, <3>1, <3>2 DEF WaitsFirst
    <3>3. CASE \E j \in 1 .. i - 1 : queue[j].op = "wait" /\ queue[j].surface = queue[i].surface
      BY <1>3, <3>1, <3>3 DEF WaitsFirst
    <3> QED
      BY <2>1, <3>1, <3>2, <3>3
  <2> QED
    BY <1>1, <2>2 DEF CopiesWait
<1>12. TexturesOK'
  BY <1>1 DEF VideoInv, TexturesOK
<1>13. SlotsComplete'
  <2> SUFFICES ASSUME NEW n \in 1 .. Last, \E i \in 0 .. FrameCount - 1 : slots[i] = n,
                      NEW p \in 0 .. Planes - 1
               PROVE  PlaneComes(n, p)'
    BY <1>1 DEF SlotsComplete
  <2>1. PlaneComes(n, p)
    BY DEF VideoInv, SlotsComplete
  <2>2. CASE textures[n][p] = n
    BY <1>1, <2>2 DEF PlaneComes
  <2>3. CASE \E k \in 1 .. L : queue[k].op = "copy" /\ queue[k].frame = n /\ queue[k].plane = p
    BY <1>3, <2>3 DEF PlaneComes
  <2> QED
    BY <1>1, <2>1, <2>2, <2>3 DEF PlaneComes, L
<1> QED
  BY <1>3, <1>7, <1>8, <1>10, <1>11, <1>12, <1>13 DEF VideoInv

\* The sample is dropped, but the commands keep its surface.
LEMMA ReturnStep == ASSUME VideoInv, Video!Return PROVE VideoInv'
<1>1. /\ UNCHANGED <<plane, curr_frame, last_timestamp, elapsed, gaps, queue, textures, slots>>
      /\ pc = "return" /\ pc' = "caller" /\ sample' = None
      /\ surfaces' = [s \in Surfaces |-> [surfaces[s] EXCEPT !.held = @ /\ s # sample]]
  BY DEF Video!Return
<1>2. surfaces \in [Surfaces -> [frame : 0 .. Last, ready : BOOLEAN, held : BOOLEAN, queued : BOOLEAN]]
  BY DEF VideoInv, Video!TypeOK, Last
<1>3. /\ surfaces' \in [Surfaces -> [frame : 0 .. Last, ready : BOOLEAN, held : BOOLEAN, queued : BOOLEAN]]
      /\ \A s \in Surfaces : /\ surfaces'[s].frame = surfaces[s].frame /\ surfaces'[s].ready = surfaces[s].ready
                             /\ surfaces'[s].queued = surfaces[s].queued
  BY <1>1, <1>2
<1>4. Video!TypeOK'
  BY <1>1, <1>3 DEF VideoInv, Video!TypeOK, Last
<1>5. \A i \in 1 .. Len(queue) : queue[i].surface \in Surfaces
  BY DEF VideoInv, QueueOK, CommandOK
<1>6. QueueOK' /\ SampleOK'
  BY <1>1 DEF VideoInv, QueueOK, CommandOK, SampleOK, Held
<1>7. SurfacesKept'
  BY <1>1, <1>3, <1>5 DEF VideoInv, SurfacesKept, Held, Copying
<1>8. CopiesWait'
  BY <1>1, <1>3, <1>5 DEF VideoInv, CopiesWait, WaitsFirst
<1>9. TexturesOK' /\ SlotsComplete'
  BY <1>1 DEF VideoInv, TexturesOK, SlotsComplete, PlaneComes
<1> QED
  BY <1>4, <1>6, <1>7, <1>8, <1>9 DEF VideoInv

\* The decoder makes a surface ready, which takes nothing from a copy.
LEMMA FinishStep == ASSUME VideoInv, NEW s \in Surfaces, Video!DecoderFinishes(s) PROVE VideoInv'
<1>1. /\ UNCHANGED <<sample, plane, pc, curr_frame, last_timestamp, elapsed, gaps, queue, textures, slots>>
      /\ surfaces' = [surfaces EXCEPT ![s].ready = TRUE]
  BY DEF Video!DecoderFinishes
<1>2. surfaces \in [Surfaces -> [frame : 0 .. Last, ready : BOOLEAN, held : BOOLEAN, queued : BOOLEAN]]
  BY DEF VideoInv, Video!TypeOK, Last
<1>3. /\ surfaces' \in [Surfaces -> [frame : 0 .. Last, ready : BOOLEAN, held : BOOLEAN, queued : BOOLEAN]]
      /\ \A t \in Surfaces : /\ surfaces'[t].frame = surfaces[t].frame /\ surfaces'[t].queued = surfaces[t].queued
                             /\ surfaces[t].ready => surfaces'[t].ready
  BY <1>1, <1>2
<1>4. Video!TypeOK'
  BY <1>1, <1>3 DEF VideoInv, Video!TypeOK, Last
<1>5. \A i \in 1 .. Len(queue) : queue[i].surface \in Surfaces
  BY DEF VideoInv, QueueOK, CommandOK
<1>6. QueueOK' /\ SampleOK'
  BY <1>1, <1>3 DEF VideoInv, QueueOK, CommandOK, SampleOK, Held
<1>7. SurfacesKept'
  BY <1>1, <1>3, <1>5 DEF VideoInv, SurfacesKept, Held, Copying
<1>8. CopiesWait'
  <2>1. pc = "copy" => sample \in Surfaces
    BY DEF VideoInv, SampleOK, Held
  <2> QED
    BY <1>1, <1>3, <1>5, <2>1 DEF VideoInv, CopiesWait, WaitsFirst
<1>9. TexturesOK' /\ SlotsComplete'
  BY <1>1 DEF VideoInv, TexturesOK, SlotsComplete, PlaneComes
<1> QED
  BY <1>4, <1>6, <1>7, <1>8, <1>9 DEF VideoInv
\* The queue runs the command at its head.
LEMMA RunStep == ASSUME VideoInv, Video!QueueRuns PROVE VideoInv'
<1> DEFINE T == [op : {"wait", "copy", "release"}, surface : Surfaces, frame : Nat, plane : Nat]
           L == Len(queue)
           c == queue[1]
           s == c.surface
<1>1. /\ UNCHANGED <<sample, plane, pc, curr_frame, last_timestamp, elapsed, gaps, slots>>
      /\ queue # <<>> /\ queue' = Tail(queue)
      /\ \/ c.op = "wait" /\ surfaces[s].ready /\ UNCHANGED <<surfaces, textures>>
         \/ /\ c.op = "copy" /\ UNCHANGED surfaces
            /\ textures' = [textures EXCEPT ![c.frame][c.plane] = surfaces[s].frame]
         \/ /\ c.op = "release" /\ UNCHANGED textures
            /\ surfaces' = [surfaces EXCEPT ![s].queued = FALSE]
  <2>1. queue # <<>> => Head(queue) = c
    BY DEF VideoInv, QueueOK
  <2> HIDE DEF c
  <2>2. CASE Head(queue).op = "wait"
    BY <2>1, <2>2 DEF Video!QueueRuns
  <2>3. CASE Head(queue).op = "copy"
    BY <2>1, <2>3 DEF Video!QueueRuns
  <2>4. CASE Head(queue).op = "release"
    BY <2>1, <2>4 DEF Video!QueueRuns
  <2> QED
    BY <2>2, <2>3, <2>4 DEF Video!QueueRuns
<1>2. /\ queue \in Seq(T) /\ queue' \in Seq(T) /\ L \in Nat \ {0} /\ Len(queue') = L - 1
      /\ \A i \in 1 .. L - 1 : queue'[i] = queue[i + 1]
  <2>1. queue \in Seq(T)
    BY DEF VideoInv, QueueOK
  <2> HIDE DEF T
  <2> QED
    BY <1>1, <2>1
<1>3. \A i \in 1 .. L : CommandOK(queue[i])
  BY DEF VideoInv, QueueOK
<1>4. /\ s \in Surfaces /\ c.frame \in 1 .. curr_frame /\ surfaces[s].frame = c.frame
      /\ c.op = "copy" => c.plane \in 0 .. Planes - 1
      /\ curr_frame \in 0 .. Last
  <2>1. 1 \in 1 .. L
    BY <1>2
  <2>2. CommandOK(c)
    BY <1>3, <2>1
  <2>3. surfaces[s].frame = c.frame
    BY <2>1 DEF VideoInv, SurfacesKept
  <2>4. curr_frame \in 0 .. Last
    BY DEF VideoInv, Video!TypeOK, Last
  <2> HIDE DEF c
  <2> QED
    BY <2>2, <2>3, <2>4 DEF CommandOK
<1>5. surfaces \in [Surfaces -> [frame : 0 .. Last, ready : BOOLEAN, held : BOOLEAN, queued : BOOLEAN]]
  BY DEF VideoInv, Video!TypeOK, Last
<1> HIDE DEF T, c, s
<1>6. /\ surfaces' \in [Surfaces -> [frame : 0 .. Last, ready : BOOLEAN, held : BOOLEAN, queued : BOOLEAN]]
      /\ \A t \in Surfaces : /\ surfaces'[t].frame = surfaces[t].frame /\ surfaces'[t].ready = surfaces[t].ready
                             /\ ~surfaces[t].queued => ~surfaces'[t].queued
                             /\ c.op # "release" \/ t # s => surfaces'[t].queued = surfaces[t].queued
  <2>1. CASE c.op = "release" /\ surfaces' = [surfaces EXCEPT ![s].queued = FALSE]
    <3>1. \A t \in Surfaces : t # s => surfaces'[t] = surfaces[t]
      BY <1>5, <2>1
    <3>2. surfaces'[s] = [surfaces[s] EXCEPT !.queued = FALSE]
      BY <1>4, <1>5, <2>1
    <3>3. surfaces[s] \in [frame : 0 .. Last, ready : BOOLEAN, held : BOOLEAN, queued : BOOLEAN]
      BY <1>4, <1>5
    <3>4. /\ surfaces'[s] \in [frame : 0 .. Last, ready : BOOLEAN, held : BOOLEAN, queued : BOOLEAN]
          /\ surfaces'[s].frame = surfaces[s].frame /\ surfaces'[s].ready = surfaces[s].ready
          /\ ~surfaces'[s].queued
      BY <3>2, <3>3
    <3>5. surfaces' \in [Surfaces -> [frame : 0 .. Last, ready : BOOLEAN, held : BOOLEAN, queued : BOOLEAN]]
      BY <1>5, <2>1, <3>1, <3>4
    <3> QED
      BY <2>1, <3>1, <3>4, <3>5
  <2>2. CASE UNCHANGED surfaces
    BY <1>5, <2>2
  <2> QED
    BY <1>1, <2>1, <2>2
<1>7. Video!TypeOK'
  BY <1>1, <1>6 DEF VideoInv, Video!TypeOK, Last
<1>8. QueueOK'
  <2> HIDE DEF L
  <2>1. \A i \in 1 .. L - 1 : i + 1 \in 1 .. L
    BY <1>2
  <2>2. \A i \in 1 .. L - 1 : CommandOK(queue'[i])
    BY <1>2, <1>3, <2>1
  <2>3. \A i \in 1 .. Len(queue') : CommandOK(queue[i])'
    BY <1>1, <1>2, <2>2 DEF CommandOK
  <2> QED
    BY <1>2, <2>3 DEF QueueOK, T
<1>9. SampleOK'
  BY <1>1, <1>6 DEF VideoInv, SampleOK, Held
<1>10. \A i \in 1 .. L - 1 : i + 1 \in 1 .. L /\ queue[i + 1].surface \in Surfaces
  BY <1>2, <1>3 DEF CommandOK
<1>11. SurfacesKept'
  <2>1. ASSUME NEW i \in 1 .. Len(queue')
        PROVE  /\ surfaces'[queue'[i].surface].frame = queue'[i].frame
               /\ surfaces'[queue'[i].surface].queued \/ (queue'[i].surface = sample /\ pc \in Copying)
    <3>1. queue'[i] = queue[i + 1] /\ i + 1 \in 1 .. L /\ queue[i + 1].surface \in Surfaces
      BY <1>2, <1>10
    <3>2. /\ surfaces[queue[i + 1].surface].frame = queue[i + 1].frame
          /\ surfaces[queue[i + 1].surface].queued \/ (queue[i + 1].surface = sample /\ pc \in Copying)
      BY <3>1 DEF VideoInv, SurfacesKept, L
    <3>3. c.op = "release" => queue[i + 1].surface # s
      BY <1>2, <3>1 DEF VideoInv, SurfacesKept, L, c, s
    <3> QED
      BY <1>6, <3>1, <3>2, <3>3
  <2>2. \A i, j \in 1 .. L : i < j /\ queue[i].op = "release" => queue[j].surface # queue[i].surface
    BY DEF VideoInv, SurfacesKept, L
  <2>3. ASSUME NEW i \in 1 .. Len(queue'), NEW j \in 1 .. Len(queue'), i < j, queue'[i].op = "release"
        PROVE  queue'[j].surface # queue'[i].surface
    <3>1. /\ i + 1 \in 1 .. L /\ queue'[i] = queue[i + 1]
          /\ j + 1 \in 1 .. L /\ queue'[j] = queue[j + 1] /\ i + 1 < j + 1
      BY <1>2, <1>10, <2>3
    <3> QED
      BY <2>2, <2>3, <3>1
  <2>4. /\ pc \in Held => \A i \in 1 .. L : queue[i].op = "release" => queue[i].surface # sample
        /\ pc = "queue_wait" => \A i \in 1 .. L : queue[i].surface # sample
    BY DEF VideoInv, SurfacesKept, L
  <2>5. ASSUME NEW i \in 1 .. Len(queue')
        PROVE  /\ pc \in Held /\ queue'[i].op = "release" => queue'[i].surface # sample
               /\ pc = "queue_wait" => queue'[i].surface # sample
    BY <1>2, <1>10, <2>4
  <2> QED
    BY <1>1, <2>1, <2>3, <2>5 DEF SurfacesKept
<1>12. CopiesWait'
  <2>1. ASSUME NEW t \in Surfaces, NEW n \in Nat, n < L, WaitsFirst(t, n + 1)
        PROVE  \/ surfaces'[t].ready
               \/ \E j \in 1 .. n : queue'[j].op = "wait" /\ queue'[j].surface = t
    <3>1. CASE surfaces[t].ready
      BY <1>6, <3>1
    <3>2. ASSUME NEW j \in 1 .. n + 1, queue[j].op = "wait", queue[j].surface = t
          PROVE  \/ surfaces'[t].ready
                 \/ \E k \in 1 .. n : queue'[k].op = "wait" /\ queue'[k].surface = t
      <4>1. CASE j = 1
        BY <1>1, <1>6, <3>2, <4>1 DEF c, s
      <4>2. CASE j > 1
        <5>1. j - 1 \in 1 .. n /\ j - 1 \in 1 .. L - 1 /\ queue'[j - 1] = queue[j]
          BY <1>2, <2>1, <4>2
        <5> QED
          BY <3>2, <5>1
      <4> QED
        BY <4>1, <4>2
    <3> QED
      BY <2>1, <3>1, <3>2 DEF WaitsFirst
  <2>2. ASSUME NEW i \in 1 .. Len(queue'), queue'[i].op = "copy"
        PROVE  \/ surfaces'[queue'[i].surface].ready
               \/ \E j \in 1 .. i - 1 : queue'[j].op = "wait" /\ queue'[j].surface = queue'[i].surface
    <3>1. /\ queue'[i] = queue[i + 1] /\ i + 1 \in 1 .. L /\ queue'[i].surface \in Surfaces
          /\ i - 1 \in Nat /\ i - 1 < L /\ (i + 1) - 1 = i /\ (i - 1) + 1 = i
      <4>1. i \in 1 .. L - 1
        BY <1>2
      <4>2. /\ queue'[i] = queue[i + 1] /\ i + 1 \in 1 .. L /\ queue[i + 1].surface \in Surfaces
        BY <1>2, <1>10, <4>1
      <4> QED
        BY <1>2, <4>1, <4>2
    <3>2. queue[i + 1].op = "copy" => WaitsFirst(queue[i + 1].surface, (i + 1) - 1)
      BY <3>1 DEF VideoInv, CopiesWait, L
    <3>3. WaitsFirst(queue'[i].surface, (i - 1) + 1)
      BY <2>2, <3>1, <3>2
    <3> QED
      BY <2>1, <3>1, <3>3
  <2>3. ASSUME pc = "copy"
        PROVE  \/ surfaces'[sample].ready
               \/ \E j \in 1 .. Len(queue') : queue'[j].op = "wait" /\ queue'[j].surface = sample
    <3>1. sample \in Surfaces /\ WaitsFirst(sample, L) /\ L - 1 \in Nat /\ L - 1 < L /\ (L - 1) + 1 = L
      BY <1>2, <2>3 DEF VideoInv, SampleOK, Held, CopiesWait, L
    <3> QED
      BY <1>2, <2>1, <3>1
  <2>4. \A i \in 1 .. Len(queue') : queue'[i].op = "copy" => WaitsFirst(queue[i].surface, i - 1)'
    BY <2>2 DEF WaitsFirst
  <2>5. pc' = "copy" => WaitsFirst(sample, Len(queue))'
    BY <1>1, <2>3 DEF WaitsFirst
  <2> QED
    BY <2>4, <2>5 DEF CopiesWait
<1>13. TexturesOK'
  <2>1. CASE c.op = "copy" /\ textures' = [textures EXCEPT ![c.frame][c.plane] = surfaces[s].frame]
    <3>1. textures[c.frame] \in [0 .. Planes - 1 -> 0 .. Last] /\ surfaces[s].frame \in 0 .. Last
      <4>1. c.frame \in 1 .. Last
        BY <1>4, Stream
      <4>2. textures[c.frame] \in [0 .. Planes - 1 -> 0 .. Last]
        BY <4>1 DEF VideoInv, TexturesOK
      <4>3. surfaces[s].frame \in 0 .. Last
        BY <1>4, <1>5
      <4> QED
        BY <4>2, <4>3
    <3>2. [textures[c.frame] EXCEPT ![c.plane] = surfaces[s].frame] \in [0 .. Planes - 1 -> 0 .. Last]
      BY <3>1
    <3> QED
      BY <2>1, <3>2 DEF VideoInv, TexturesOK
  <2>2. CASE UNCHANGED textures
    BY <2>2 DEF VideoInv, TexturesOK
  <2> QED
    BY <1>1, <2>1, <2>2
<1>14. SlotsComplete'
  <2> SUFFICES ASSUME NEW n \in 1 .. Last, \E i \in 0 .. FrameCount - 1 : slots[i] = n,
                      NEW p \in 0 .. Planes - 1
               PROVE  PlaneComes(n, p)'
    BY <1>1 DEF SlotsComplete
  <2>1. PlaneComes(n, p)
    BY DEF VideoInv, SlotsComplete
  <2>2. \/ textures'[n][p] = textures[n][p] /\ ~(c.op = "copy" /\ c.frame = n /\ c.plane = p)
        \/ textures'[n][p] = n
    <3>1. /\ textures \in [1 .. Last -> [0 .. Planes - 1 -> 0 .. Last]]
          /\ textures[n] \in [0 .. Planes - 1 -> 0 .. Last]
      BY DEF VideoInv, TexturesOK
    <3>2. CASE c.op = "copy" /\ textures' = [textures EXCEPT ![c.frame][c.plane] = c.frame]
      <4>1. CASE c.frame = n
        <5>1. textures'[n] = [textures[n] EXCEPT ![c.plane] = n]
          BY <3>1, <3>2, <4>1
        <5> QED
          BY <3>1, <4>1, <5>1
      <4>2. CASE c.frame # n
        BY <3>1, <3>2, <4>2
      <4> QED
        BY <4>1, <4>2
    <3>3. CASE UNCHANGED textures /\ c.op # "copy"
      BY <3>3
    <3> QED
      BY <1>1, <1>4, <3>2, <3>3
  <2>3. ASSUME NEW k \in 1 .. L, queue[k].op = "copy", queue[k].frame = n, queue[k].plane = p
        PROVE  PlaneComes(n, p)'
    <3>1. CASE k = 1
      BY <2>2, <2>3, <3>1 DEF PlaneComes, c
    <3>2. CASE k > 1
      <4>1. k - 1 \in 1 .. L - 1 /\ queue'[k - 1] = queue[k]
        BY <1>2, <3>2
      <4> QED
        BY <1>2, <2>3, <4>1 DEF PlaneComes
    <3> QED
      BY <3>1, <3>2
  <2> QED
    BY <1>1, <2>1, <2>2, <2>3 DEF PlaneComes, L
<1> QED
  BY <1>7, <1>8, <1>9, <1>11, <1>12, <1>13, <1>14 DEF VideoInv

\* Every step keeps the invariant.
LEMMA VideoStep == ASSUME VideoInv, Video!Next PROVE VideoInv'
BY CallStep, OtherStep, SurfaceStep, WaitStep, CopyStep, ReleaseStep, ReturnStep, FinishStep, RunStep
   DEF Video!Next, Video!Reader, Video!Decoder

\* What the invariant is for: the head of the queue, and the slots.
LEMMA Whole == VideoInv => Video!TypeOK /\ Video!CopiesFindFrame /\ Video!SlotsOfOneFrame
<1> SUFFICES ASSUME VideoInv PROVE Video!CopiesFindFrame /\ Video!SlotsOfOneFrame
  BY DEF VideoInv
<1>1. /\ Len(queue) \in Nat /\ DOMAIN queue = 1 .. Len(queue)
      /\ queue # <<>> => 1 \in 1 .. Len(queue) /\ Head(queue) = queue[1]
  BY DEF VideoInv, QueueOK
<1>2. Video!CopiesFindFrame
  <2> SUFFICES ASSUME queue # <<>>, queue[1].op = "copy"
               PROVE  surfaces[queue[1].surface].frame = queue[1].frame /\ surfaces[queue[1].surface].ready
    BY <1>1 DEF Video!CopiesFindFrame
  <2>1. surfaces[queue[1].surface].frame = queue[1].frame
    BY <1>1 DEF VideoInv, SurfacesKept
  <2>2. WaitsFirst(queue[1].surface, 1 - 1)
    BY <1>1 DEF VideoInv, CopiesWait
  <2> QED
    BY <2>1, <2>2 DEF WaitsFirst
<1>3. Video!SlotsOfOneFrame
  <2>1. DOMAIN slots = 0 .. FrameCount - 1
    BY DEF VideoInv, Video!TypeOK
  <2>2. ASSUME NEW n \in 1 .. Last, NEW i \in DOMAIN slots, slots[i] = n, NEW p \in 0 .. Planes - 1
        PROVE  \/ textures[n][p] = n
               \/ \E j \in DOMAIN queue : queue[j].op = "copy" /\ queue[j].frame = n /\ queue[j].plane = p
               \/ n = curr_frame /\ pc = "copy" /\ p >= plane
    <3>1. PlaneComes(n, p)
      BY <2>1, <2>2 DEF VideoInv, SlotsComplete
    <3> QED
      BY <1>1, <3>1 DEF PlaneComes
  <2> QED
    BY <2>2, Stream DEF Video!SlotsOfOneFrame, Video!Frames
<1> QED
  BY <1>2, <1>3

\* The timespans up to now, from the first sample on.
TimesOK == /\ curr_frame = 0 => elapsed = 0
           /\ curr_frame > 0 => elapsed = last_timestamp - Timestamps[1]

\* A sample adds its distance from the one before; nothing else counts time.
LEMMA TimesStep == ASSUME VideoInv, TimesOK, Video!Next PROVE TimesOK'
<1>1. curr_frame \in 0 .. Last /\ last_timestamp \in Nat /\ elapsed \in Int
  BY DEF VideoInv, Video!TypeOK, Last
<1>2. CASE curr_frame < Last /\ Video!CountFrame(Timestamps[curr_frame + 1])
  <2>1. curr_frame + 1 \in 1 .. Last /\ 1 \in 1 .. Last
    BY <1>1, <1>2, Stream
  <2>2. Timestamps[curr_frame + 1] \in Nat /\ Timestamps[1] \in Nat
    BY <2>1, Stream
  <2> QED
    BY <1>1, <1>2, <2>2 DEF TimesOK, Video!CountFrame, Video!Timespan
<1>3. CASE UNCHANGED <<curr_frame, last_timestamp, elapsed>>
  BY <1>3 DEF TimesOK
<1> QED
  BY <1>2, <1>3 DEF Video!Next, Video!Reader, Video!Decoder, Video!QueueRuns, Video!CallReadFrame,
    Video!ReadGap, Video!ReadEnd, Video!ReadOther, Video!ReadSurface, Video!QueueWait, Video!QueueCopy,
    Video!QueueRelease, Video!Return, Video!DecoderFinishes, Last

(***************************************************************************)
(* ImageSeqReader: a directory's files and the slots that show them        *)
(***************************************************************************)

\* The files that went to a slot with the frames so far and can be decoded.
Went(i) == {k \in 1 .. curr_frame : (k - 1) % FrameCount = i /\ Images!Decodes(k)}

\* A slot holds the latest of them, in its size.
SlotLatest(i) ==
  /\ slots[i].file = 0 => Went(i) = {}
  /\ slots[i].file # 0 => /\ slots[i].file \in Went(i)
                          /\ \A k \in Went(i) : k <= slots[i].file
                          /\ slots[i].size = dir[files[slots[i].file]].size

\* A frame shows the latest of its candidates.
ShownOK(n) ==
  /\ shown[n] = 0 => Images!Candidates(n) = {}
  /\ shown[n] # 0 => shown[n] \in Images!Candidates(n) /\ \A k \in Images!Candidates(n) : k <= shown[n]

ImageInv ==
  /\ Images!TypeOK
  /\ files \in Seq(DOMAIN dir) /\ shown \in Seq(Nat)
  /\ pc = "list" => curr_frame = 0
  /\ curr_frame = 0 => shown = <<>> /\ \A i \in 0 .. FrameCount - 1 : slots[i].file = 0
  /\ pc = "add" => curr_frame > 0 /\ Len(shown) = curr_frame - 1
  /\ pc = "caller" => Len(shown) = curr_frame
  /\ \A i \in 0 .. FrameCount - 1 : SlotLatest(i)
  /\ \A n \in 1 .. Len(shown) : ShownOK(n)

Texture == [size : Sizes \cup {None}, file : 0 .. Len(files)]

\* What the constants are.
LEMMA ImageConstants ==
  /\ FrameCount \in Nat \ {0} /\ None \notin Sizes
  /\ \A d \in Directories : \A name \in DOMAIN d : d[name].size \in Sizes \cup {None}
  BY ReadersAssumption DEF Images!ImageAssumption, Images!Entry

\* Division with remainder.
LEMMA Division ==
  ASSUME NEW n \in Int, NEW unit \in Nat \ {0}
  PROVE  /\ n \div unit \in Int /\ n % unit \in 0 .. unit - 1
         /\ n = unit * (n \div unit) + (n % unit)
OBVIOUS

\* A remainder is a slot.
LEMMA SlotNumber == ASSUME NEW n \in Nat PROVE n % FrameCount \in 0 .. FrameCount - 1
<1>1. FrameCount \in Nat \ {0} /\ n \in Int
  BY ImageConstants
<1> QED
  BY <1>1, Division

\* There is one remainder only.
LEMMA Remainder ==
  ASSUME NEW unit \in Nat \ {0}, NEW q \in Int, NEW r \in 0 .. unit - 1
  PROVE  (unit * q + r) % unit = r
<1> DEFINE n == unit * q + r
           p == n \div unit
           t == n % unit
<1>1. n \in Int /\ n = unit * q + r
  OBVIOUS
<1>2. p \in Int /\ t \in 0 .. unit - 1 /\ n = unit * p + t
  BY <1>1, Division
<1> HIDE DEF n, p, t
<1>3. unit * (q - p) = t - r
  <2>1. unit * (q - p) = unit * q - unit * p
    BY <1>2
  <2>2. unit * q \in Int /\ unit * p \in Int
    BY <1>2
  <2> QED
    BY <1>1, <1>2, <2>1, <2>2
<1>4. CASE q - p >= 1
  <2>1. unit * (q - p - 1) \in Nat
    BY <1>2, <1>4
  <2>2. unit * (q - p) = unit * (q - p - 1) + unit
    BY <1>2
  <2> QED
    BY <1>2, <1>3, <2>1, <2>2
<1>5. CASE q - p <= -1
  <2>1. unit * (p - q - 1) \in Nat
    BY <1>2, <1>5
  <2>2. unit * (q - p) = 0 - (unit * (p - q - 1) + unit)
    BY <1>2
  <2> QED
    BY <1>2, <1>3, <2>1, <2>2
<1>6. CASE q - p = 0
  BY <1>2, <1>3, <1>6 DEF n, t
<1> QED
  BY <1>2, <1>4, <1>5, <1>6

\* The remainder of the number before.
LEMMA Before ==
  ASSUME NEW unit \in Nat \ {0}, NEW a \in Nat \ {0}
  PROVE  /\ a % unit \in 0 .. unit - 1
         /\ (a - 1) % unit = IF a % unit = 0 THEN unit - 1 ELSE (a % unit) - 1
<1> DEFINE q == a \div unit
           r == a % unit
<1>1. q \in Int /\ r \in 0 .. unit - 1 /\ a = unit * q + r
  BY Division
<1> HIDE DEF q, r
<1>2. CASE r = 0
  <2>1. a - 1 = unit * (q - 1) + (unit - 1)
    BY <1>1, <1>2
  <2>2. (unit * (q - 1) + (unit - 1)) % unit = unit - 1
    BY <1>1, Remainder
  <2> QED
    BY <1>1, <1>2, <2>1, <2>2 DEF r
<1>3. CASE r # 0
  <2>1. a - 1 = unit * q + (r - 1) /\ r - 1 \in 0 .. unit - 1
    BY <1>1, <1>3
  <2>2. (unit * q + (r - 1)) % unit = r - 1
    BY <1>1, <2>1, Remainder
  <2> QED
    BY <1>1, <1>3, <2>1, <2>2 DEF r
<1> QED
  BY <1>2, <1>3

\* Two frames have the same slot whether they are counted from one or from zero.
LEMMA SameSlot ==
  ASSUME NEW unit \in Nat \ {0}, NEW a \in Nat \ {0}, NEW b \in Nat \ {0}
  PROVE  a % unit = b % unit <=> (a - 1) % unit = (b - 1) % unit
<1> DEFINE r == a % unit
           s == b % unit
<1>1. r \in 0 .. unit - 1 /\ (a - 1) % unit = IF r = 0 THEN unit - 1 ELSE r - 1
  BY Before
<1>2. s \in 0 .. unit - 1 /\ (b - 1) % unit = IF s = 0 THEN unit - 1 ELSE s - 1
  BY Before
<1> HIDE DEF r, s
<1>3. (a - 1) % unit = (b - 1) % unit <=> r = s
  BY <1>1, <1>2
<1> QED
  BY <1>3 DEF r, s

\* As long as no frame is read, nothing is in a slot.
LEMMA NoFrames ==
  ASSUME Images!TypeOK, files \in Seq(DOMAIN dir), curr_frame = 0, shown = <<>>,
         \A i \in 0 .. FrameCount - 1 : slots[i].file = 0, pc # "add"
  PROVE  ImageInv
<1>1. \A i \in 0 .. FrameCount - 1 : SlotLatest(i)
  BY DEF SlotLatest, Went
<1> QED
  BY <1>1 DEF ImageInv

\* The invariant holds at the start.
LEMMA ImageInit == Images!Init => ImageInv
<1> SUFFICES ASSUME Images!Init PROVE ImageInv
  OBVIOUS
<1>1. /\ dir \in Directories /\ unseen = DOMAIN dir /\ pc = "list" /\ files = <<>> /\ curr_frame = 0
      /\ shown = <<>> /\ frame_size = None
      /\ slots = [i \in 0 .. FrameCount - 1 |-> [size |-> None, file |-> 0]]
  BY DEF Images!Init, Images!NoTexture
<1>2. Len(files) = 0 /\ files \in Seq(DOMAIN dir) /\ Len(shown) = 0 /\ Images!ToSet(files) = {}
  BY <1>1 DEF Images!ToSet
<1>3. slots \in [0 .. FrameCount - 1 -> Texture]
  BY <1>1, <1>2 DEF Texture
<1>4. Images!TypeOK
  BY <1>1, <1>2, <1>3 DEF Images!TypeOK, Texture
<1> QED
  BY <1>1, <1>2, <1>4, NoFrames

\* The constructor, which reads no frame: the list it leaves is of the names of the directory.
LEMMA ListTypes ==
  ASSUME ImageInv, curr_frame = 0, files' \in Seq(DOMAIN dir), Len(files) <= Len(files'),
         unseen' \subseteq DOMAIN dir, pc' \in {"list", "caller", "thrown"},
         UNCHANGED <<dir, curr_frame, slots, shown, frame_size>>
  PROVE  ImageInv'
<1>1. Images!ToSet(files') \subseteq DOMAIN dir
  BY DEF Images!ToSet
<1>2. Len(files) \in Nat /\ Len(files') \in Nat /\ shown = <<>> /\ Len(shown) = 0
  BY DEF ImageInv
<1>3. slots \in [0 .. FrameCount - 1 -> [size : Sizes \cup {None}, file : 0 .. Len(files)]]
  BY DEF ImageInv, Images!TypeOK
<1>4. slots \in [0 .. FrameCount - 1 -> [size : Sizes \cup {None}, file : 0 .. Len(files')]]
  BY <1>2, <1>3, ImageConstants
<1>5. Images!TypeOK'
  <2>1. dir' \in Directories /\ unseen' \subseteq DOMAIN dir' /\ frame_size' \in Sizes \cup {None}
        /\ curr_frame' \in 0 .. Len(files') /\ Len(shown') <= curr_frame'
    BY <1>2 DEF ImageInv, Images!TypeOK
  <2>2. Images!ToSet(files)' \subseteq DOMAIN dir'
    BY <1>1 DEF Images!ToSet
  <2> QED
    BY <1>4, <2>1, <2>2 DEF Images!TypeOK
<1>6. \A i \in 0 .. FrameCount - 1 : slots'[i].file = 0
  BY DEF ImageInv
<1>7. \A i \in 0 .. FrameCount - 1 : SlotLatest(i)'
  BY <1>6 DEF SlotLatest, Went
<1> QED
  BY <1>2, <1>5, <1>6, <1>7 DEF ImageInv

\* Listing and sorting change the list of files alone.
LEMMA ListStep ==
  ASSUME ImageInv, (\E name \in unseen : Images!ListEntry(name)) \/ Images!SortFiles
  PROVE  ImageInv'
<1>1. pc = "list" /\ curr_frame = 0 /\ files \in Seq(DOMAIN dir) /\ unseen \subseteq DOMAIN dir
  BY DEF Images!ListEntry, Images!SortFiles, ImageInv, Images!TypeOK
<1>2. ASSUME NEW name \in unseen, Images!ListEntry(name) PROVE ImageInv'
  <2>1. name \in DOMAIN dir
    BY <1>1
  <2>2. \/ files' = files
        \/ files' = Append(files, name)
    BY <1>2 DEF Images!ListEntry
  <2>3. files' \in Seq(DOMAIN dir) /\ Len(files) <= Len(files')
    BY <1>1, <2>1, <2>2
  <2>4. /\ UNCHANGED <<dir, curr_frame, slots, shown, frame_size>>
        /\ unseen' \subseteq DOMAIN dir /\ pc' \in {"list", "caller", "thrown"}
    BY <1>1, <1>2 DEF Images!ListEntry
  <2> QED
    BY <1>1, <2>3, <2>4, ListTypes
<1>3. CASE Images!SortFiles
  <2>1. files' \in [1 .. Len(files) -> DOMAIN dir]
    <3>1. Images!ToSet(files) \subseteq DOMAIN dir
      BY <1>1 DEF Images!ToSet
    <3>2. files' \in [1 .. Len(files) -> Images!ToSet(files)]
      BY <1>3 DEF Images!SortFiles, Images!Sorted
    <3> QED
      BY <3>1, <3>2
  <2>2. files' \in Seq(DOMAIN dir) /\ Len(files') = Len(files) /\ Len(files) \in Nat
    BY <1>1, <2>1
  <2>3. /\ UNCHANGED <<dir, curr_frame, slots, shown, frame_size>>
        /\ unseen' \subseteq DOMAIN dir /\ pc' \in {"list", "caller", "thrown"}
    BY <1>1, <1>3 DEF Images!SortFiles
  <2> QED
    BY <1>1, <2>2, <2>3, ListTypes
<1> QED
  BY <1>2, <1>3

\* A frame is read into the slot whose turn it is.
LEMMA ReadStep == ASSUME ImageInv, Images!ReadFrame PROVE ImageInv'
<1> DEFINE n == curr_frame + 1
           i == curr_frame % FrameCount
<1>1. /\ pc = "caller" /\ pc' = "add" /\ curr_frame < Len(files) /\ curr_frame' = n
      /\ slots' = [slots EXCEPT ![i] = Images!LoadTexture(slots[i], n)]
      /\ UNCHANGED <<dir, unseen, files, shown, frame_size>>
  BY DEF Images!ReadFrame, Images!Slot
<1>2. /\ curr_frame \in Nat /\ n \in 1 .. Len(files) /\ Len(files) \in Nat /\ Len(shown) = curr_frame
      /\ i \in 0 .. FrameCount - 1 /\ n - 1 = curr_frame
      /\ slots \in [0 .. FrameCount - 1 -> Texture]
  <2>1. curr_frame \in Nat /\ n \in 1 .. Len(files) /\ Len(files) \in Nat /\ Len(shown) = curr_frame
    BY <1>1 DEF ImageInv, Images!TypeOK
  <2>2. i \in 0 .. FrameCount - 1
    BY <2>1, SlotNumber
  <2>3. slots \in [0 .. FrameCount - 1 -> Texture]
    BY DEF ImageInv, Images!TypeOK, Texture
  <2> QED
    BY <2>1, <2>2, <2>3
<1>3. dir[files[n]].size \in Sizes \cup {None}
  <2>1. files[n] \in DOMAIN dir /\ dir \in Directories
    BY <1>2 DEF ImageInv, Images!TypeOK
  <2> QED
    BY <2>1, ImageConstants
<1>4. /\ Images!Decodes(n) => Images!LoadTexture(slots[i], n) = [size |-> dir[files[n]].size, file |-> n]
      /\ ~Images!Decodes(n) => Images!LoadTexture(slots[i], n) = slots[i]
  BY DEF Images!LoadTexture, Images!Decodes
<1>5. Images!LoadTexture(slots[i], n) \in Texture
  BY <1>2, <1>3, <1>4 DEF Texture
<1>6. \A k : Images!Decodes(k)' = Images!Decodes(k)
  BY <1>1 DEF Images!Decodes
<1> HIDE DEF n, i
<1>7. /\ slots' \in [0 .. FrameCount - 1 -> Texture] /\ slots'[i] = Images!LoadTexture(slots[i], n)
      /\ \A j \in 0 .. FrameCount - 1 : j # i => slots'[j] = slots[j]
  BY <1>1, <1>2, <1>5
<1>8. Images!TypeOK'
  <2>1. Images!ToSet(files)' = Images!ToSet(files)
    BY <1>1 DEF Images!ToSet
  <2> QED
    BY <1>1, <1>2, <1>7, <2>1 DEF ImageInv, Images!TypeOK, Texture, n
<1>9. \A j \in 0 .. FrameCount - 1 :
        Went(j)' = IF j = i /\ Images!Decodes(n) THEN Went(j) \cup {n} ELSE Went(j)
  <2> SUFFICES ASSUME NEW j \in 0 .. FrameCount - 1, NEW k
               PROVE  k \in Went(j)' <=> k \in Went(j) \/ (k = n /\ j = i /\ Images!Decodes(n))
    BY SMTT(20)
  <2>1. k \in 1 .. curr_frame' <=> k \in 1 .. curr_frame \/ k = n
    BY <1>1, <1>2 DEF n
  <2>2. (n - 1) % FrameCount = i /\ n \notin 1 .. curr_frame
    BY <1>2 DEF i, n
  <2> QED
    BY <1>6, <2>1, <2>2 DEF Went
<1>10. ASSUME NEW j \in 0 .. FrameCount - 1 PROVE SlotLatest(j)'
  <2>0. SlotLatest(j) /\ \A k \in Went(j) : k \in 1 .. curr_frame
    BY DEF ImageInv, Went
  <2>1. CASE j = i /\ Images!Decodes(n)
    <3>1. slots'[j].file = n /\ slots'[j].size = dir[files[n]].size /\ n # 0
      BY <1>2, <1>4, <1>7, <2>1
    <3>2. Went(j)' = Went(j) \cup {n}
      BY <1>9, <2>1
    <3>3. \A k \in Went(j) : k <= n
      BY <1>2, <2>0
    <3> QED
      BY <1>1, <1>2, <3>1, <3>2, <3>3 DEF SlotLatest
  <2>2. CASE ~(j = i /\ Images!Decodes(n))
    <3>1. slots'[j] = slots[j] /\ Went(j)' = Went(j)
      BY <1>4, <1>7, <1>9, <2>2
    <3> QED
      BY <1>1, <2>0, <3>1 DEF SlotLatest
  <2> QED
    BY <2>1, <2>2
<1>11. \A m \in 1 .. Len(shown') : ShownOK(m)'
  <2>1. \A m : Images!Candidates(m)' = Images!Candidates(m)
    BY <1>6 DEF Images!Candidates
  <2> QED
    BY <1>1, <2>1 DEF ImageInv, ShownOK
<1> QED
  BY <1>1, <1>2, <1>8, <1>10, <1>11 DEF ImageInv, n

\* AddFrame shows what the slot of the frame holds.
LEMMA AddStep == ASSUME ImageInv, Images!AddFrame PROVE ImageInv'
<1> DEFINE i == (curr_frame - 1) % FrameCount
           L == Len(shown)
<1>1. /\ pc = "add" /\ pc' \in {"caller", "thrown", "asserted"}
      /\ shown' = Append(shown, slots[i].file)
      /\ frame_size' \in {slots[i].size, frame_size}
      /\ UNCHANGED <<dir, unseen, files, curr_frame, slots>>
  BY DEF Images!AddFrame
<1>2. /\ curr_frame \in Nat \ {0} /\ L = curr_frame - 1 /\ L \in Nat
      /\ i \in 0 .. FrameCount - 1
      /\ slots \in [0 .. FrameCount - 1 -> Texture] /\ slots[i] \in Texture /\ Len(files) \in Nat
      /\ shown \in Seq(Nat)
  <2>1. curr_frame \in Nat \ {0} /\ L = curr_frame - 1 /\ L \in Nat /\ shown \in Seq(Nat)
        /\ Len(files) \in Nat
    BY <1>1 DEF ImageInv, Images!TypeOK
  <2>2. i \in 0 .. FrameCount - 1
    <3>1. curr_frame - 1 \in Nat
      BY <2>1
    <3> QED
      BY <3>1, SlotNumber
  <2>3. slots \in [0 .. FrameCount - 1 -> Texture]
    BY DEF ImageInv, Images!TypeOK, Texture
  <2> HIDE DEF i, L
  <2> QED
    BY <2>1, <2>2, <2>3
<1>3. slots[i].file \in Nat /\ slots[i].size \in Sizes \cup {None}
  BY <1>2 DEF Texture
<1> HIDE DEF i, L
<1>4. /\ shown' \in Seq(Nat) /\ Len(shown') = curr_frame
      /\ shown'[curr_frame] = slots[i].file /\ \A m \in 1 .. L : shown'[m] = shown[m]
  BY <1>1, <1>2, <1>3 DEF L
<1>5. Images!TypeOK'
  <2>1. Images!ToSet(files)' = Images!ToSet(files)
    BY <1>1 DEF Images!ToSet
  <2>2. frame_size' \in Sizes \cup {None}
    BY <1>1, <1>3 DEF ImageInv, Images!TypeOK
  <2> QED
    BY <1>1, <1>2, <1>4, <2>1, <2>2 DEF ImageInv, Images!TypeOK
<1>6. \A k : Images!Decodes(k)' = Images!Decodes(k)
  BY <1>1 DEF Images!Decodes
<1>7. \A j : Went(j)' = Went(j)
  BY <1>1, <1>6 DEF Went
<1>8. \A m : Images!Candidates(m)' = Images!Candidates(m)
  BY <1>6 DEF Images!Candidates
<1>9. \A j \in 0 .. FrameCount - 1 : SlotLatest(j)'
  BY <1>1, <1>7 DEF ImageInv, SlotLatest
<1>10. Images!Candidates(curr_frame) = Went(i)
  <2> SUFFICES ASSUME NEW k \in 1 .. curr_frame
               PROVE  k % FrameCount = curr_frame % FrameCount <=> (k - 1) % FrameCount = i
    BY DEF Images!Candidates, Went
  <2>1. k \in Nat \ {0}
    BY <1>2
  <2> QED
    BY <1>2, <2>1, SameSlot, ImageConstants DEF i
<1>11. ShownOK(curr_frame)'
  <2>1. SlotLatest(i)
    BY <1>2 DEF ImageInv
  <2> QED
    BY <1>1, <1>4, <1>8, <1>10, <2>1 DEF SlotLatest, ShownOK
<1>12. ASSUME NEW m \in 1 .. L PROVE ShownOK(m)'
  BY <1>4, <1>8 DEF ImageInv, ShownOK, L
<1>13. \A m \in 1 .. Len(shown') : m \in 1 .. L \/ m = curr_frame
  BY <1>2, <1>4
<1>14. \A m \in 1 .. Len(shown') : ShownOK(m)'
  BY <1>1, <1>11, <1>12, <1>13
<1> QED
  BY <1>1, <1>2, <1>4, <1>5, <1>9, <1>14 DEF ImageInv

\* The end changes nothing.
LEMMA EndStep == ASSUME ImageInv, Images!ReadNothing PROVE ImageInv'
<1>1. /\ pc' = "ended"
      /\ UNCHANGED <<dir, unseen, files, curr_frame, slots, shown, frame_size>>
  BY DEF Images!ReadNothing
<1> QED
  BY <1>1 DEF ImageInv, Images!TypeOK, SlotLatest, ShownOK, Went, Images!Candidates, Images!Decodes, Images!ToSet

\* Every step keeps the invariant.
LEMMA ImageStep == ASSUME ImageInv, Images!Next PROVE ImageInv'
  BY ListStep, ReadStep, AddStep, EndStep DEF Images!Next

\* What the invariant is for: the largest of a frame's candidates is what it shows.
LEMMA Latest == ImageInv => Images!TypeOK /\ Images!ShownFromSlot
<1> SUFFICES ASSUME ImageInv PROVE Images!ShownFromSlot
  BY DEF ImageInv
<1>1. DOMAIN shown = 1 .. Len(shown) /\ DOMAIN slots = 0 .. FrameCount - 1
  BY DEF ImageInv, Images!TypeOK
<1>2. ASSUME NEW n \in 1 .. Len(shown)
      PROVE  shown[n] = IF Images!Candidates(n) = {} THEN 0 ELSE Images!Max(Images!Candidates(n))
  <2> DEFINE S == Images!Candidates(n)
  <2>1. shown[n] = 0 => S = {}
    BY DEF ImageInv, ShownOK
  <2>2. shown[n] # 0 => shown[n] \in S /\ \A k \in S : k <= shown[n]
    BY DEF ImageInv, ShownOK
  <2>3. S \subseteq Nat
    BY DEF Images!Candidates
  <2> HIDE DEF S
  <2>4. ASSUME shown[n] # 0 PROVE shown[n] = Images!Max(S)
    <3> DEFINE x == shown[n]
               y == CHOOSE m \in S : \A k \in S : m >= k
    <3>1. x \in S /\ \A k \in S : x >= k
      BY <2>2, <2>3, <2>4
    <3> HIDE DEF x
    <3>2. y \in S /\ \A k \in S : y >= k
      BY <3>1
    <3> HIDE DEF y
    <3>3. x = y
      BY <2>3, <3>1, <3>2
    <3> QED
      BY <3>3 DEF x, y, Images!Max
  <2>5. shown[n] # 0 => S # {}
    BY <2>2
  <2> QED
    BY <2>1, <2>4, <2>5 DEF S
<1>3. ASSUME NEW i \in 0 .. FrameCount - 1, slots[i].file # 0
      PROVE  slots[i].size = dir[files[slots[i].file]].size
  BY <1>3 DEF ImageInv, SlotLatest
<1> QED
  BY <1>1, <1>2, <1>3 DEF Images!ShownFromSlot

\* Once the directory is listed, every file of it is a frame, and once, whatever its extension:
\* what the code does, which is more than SupportedFilesOnce asks for.
FilesListed ==
  pc \notin {"list", "thrown"} =>
    /\ Images!ToSet(files) = {name \in DOMAIN dir : ~dir[name].is_directory}
    /\ \A i, j \in DOMAIN files : files[i] = files[j] => i = j

\* What is listed so far, and how it is sorted when that is done.
Listed ==
  /\ pc = "list" => Images!ToSet(files) = {name \in DOMAIN dir \ unseen : ~dir[name].is_directory}
  /\ FilesListed
  /\ pc \notin {"list", "thrown"} =>
       \A i, j \in 1 .. Len(files) : i < j => Images!TextBefore(files[i], files[j])

\* Nothing is listed at the start.
LEMMA ListedInit == Images!Init => Listed
  BY DEF Images!Init, Listed, Images!ToSet, FilesListed

\* No name is before itself.
LEMMA NotBefore == ASSUME NEW a \in Seq(Nat) PROVE ~Images!TextBefore(a, a)
  BY DEF Images!TextBefore

\* Every entry is taken once, and sorting keeps what is there.
LEMMA ListedStep == ASSUME ImageInv, Listed, Images!Next PROVE Listed'
<1>1. dir \in Directories /\ files \in Seq(DOMAIN dir) /\ unseen \subseteq DOMAIN dir
  BY DEF ImageInv, Images!TypeOK
<1>2. \A name \in DOMAIN dir : name \in Seq(Nat)
  BY <1>1, ReadersAssumption DEF Images!ImageAssumption
<1>3. ASSUME NEW name \in unseen, Images!ListEntry(name) PROVE Listed'
  <2>1. /\ pc = "list" /\ pc' \in {"list", "thrown"} /\ unseen' = unseen \ {name} /\ dir' = dir
        /\ name \in DOMAIN dir
    BY <1>1, <1>3 DEF Images!ListEntry
  <2>2. CASE dir[name].is_directory
    <3>1. files' = files
      BY <1>3, <2>2 DEF Images!ListEntry
    <3> QED
      BY <2>1, <2>2, <3>1 DEF Listed, FilesListed, Images!ToSet
  <2>3. CASE ~dir[name].is_directory
    <3>1. pc' = "list" => files' = Append(files, name)
      BY <1>3, <2>3 DEF Images!ListEntry
    <3>2. ASSUME pc' = "list" PROVE Images!ToSet(files') = Images!ToSet(files) \cup {name}
      <4>1. /\ files' = Append(files, name) /\ Len(files') = Len(files) + 1 /\ Len(files) \in Nat
            /\ DOMAIN files' = 1 .. Len(files) + 1 /\ DOMAIN files = 1 .. Len(files)
            /\ \A i \in 1 .. Len(files) : files'[i] = files[i]
            /\ files'[Len(files) + 1] = name
        BY <1>1, <2>1, <3>1, <3>2
      <4> QED
        BY <4>1 DEF Images!ToSet
    <3> QED
      BY <2>1, <2>3, <3>2 DEF Listed, FilesListed, Images!ToSet
  <2> QED
    BY <2>2, <2>3
<1>4. CASE Images!SortFiles
  <2>1. /\ pc = "list" /\ pc' = "caller" /\ unseen = {} /\ dir' = dir
        /\ files' \in [1 .. Len(files) -> Images!ToSet(files)] /\ Images!ToSet(files') = Images!ToSet(files)
        /\ \A i, j \in 1 .. Len(files) : i < j => Images!TextBefore(files'[i], files'[j])
    BY <1>4 DEF Images!SortFiles, Images!Sorted
  <2>2. Images!ToSet(files) = {name \in DOMAIN dir : ~dir[name].is_directory}
    BY <2>1 DEF Listed
  <2>3. \A i \in 1 .. Len(files) : files'[i] \in Seq(Nat)
    BY <1>2, <2>1, <2>2
  <2>4. ASSUME NEW i \in 1 .. Len(files), NEW j \in 1 .. Len(files), files'[i] = files'[j] PROVE i = j
    <3>1. ~Images!TextBefore(files'[i], files'[j]) /\ ~Images!TextBefore(files'[j], files'[i])
      BY <2>3, <2>4, NotBefore
    <3>2. Len(files) \in Nat
      BY <1>1
    <3> QED
      BY <2>1, <3>1, <3>2
  <2>5. DOMAIN files' = 1 .. Len(files)
    BY <2>1
  <2>6. Len(files') = Len(files)
    BY <1>1, <2>1
  <2> QED
    BY <2>1, <2>2, <2>4, <2>5, <2>6 DEF Listed, FilesListed, Images!ToSet
<1>5. CASE UNCHANGED <<dir, files>> /\ pc \notin {"list", "thrown"} /\ pc' # "list"
  BY <1>5 DEF Listed, FilesListed, Images!ToSet
<1> QED
  BY <1>3, <1>4, <1>5 DEF Images!Next, Images!ReadFrame, Images!ReadNothing, Images!AddFrame

(***************************************************************************)
(* Padded names: what comes first as text is the smaller number            *)
(***************************************************************************)

\* The number of a name, from the digits before it on.
ValuesOf(f, name) ==
  /\ f \in [0 .. Len(name) -> Nat]
  /\ f[0] = 0
  /\ \A n \in 1 .. Len(name) : f[n] = 10 * f[n - 1] + name[n]

\* The number of a name is the last of these values.
LEMMA NumberValue ==
  ASSUME NEW name \in Seq(0 .. 9)
  PROVE  \E f : ValuesOf(f, name) /\ Images!Number(name) = f[Len(name)]
<1> DEFINE N == Len(name)
           step == [p \in (1 .. N) \X Nat |-> 10 * p[2] + name[p[1]]]
           Rec(f) == [n \in 0 .. N |-> IF n = 0 THEN 0 ELSE 10 * f[n - 1] + name[n]]
           value == CHOOSE f : f = Rec(f)
<1>1. N \in Nat /\ \A n \in 1 .. N : name[n] \in Nat
  OBVIOUS
<1>2. step \in [(1 .. N) \X Nat -> Nat]
  BY <1>1
<1>3. PICK f \in [0 .. N -> Nat] : Loops!Iterates(f, N, 0, step)
  <2> HIDE DEF N, step
  <2> QED
    BY <1>1, <1>2, Loops!Iteration
<1>4. ASSUME NEW n \in 1 .. N PROVE f[n] = 10 * f[n - 1] + name[n]
  <2>1. n - 1 \in 0 .. N
    BY <1>1
  <2>2. f[n - 1] \in Nat
    BY <2>1
  <2>3. f[n] = step[<<n, f[n - 1]>>]
    BY <1>3 DEF Loops!Iterates
  <2> QED
    BY <2>2, <2>3
<1>5. f = Rec(f)
  BY <1>3, <1>4 DEF Loops!Iterates
<1>6. value = Rec(value)
  BY <1>5, Zenon
<1> HIDE DEF value, step
<1>7. value[0] = 0 /\ \A n \in 1 .. N : value[n] = 10 * value[n - 1] + name[n]
  BY <1>1, <1>6
<1> DEFINE Typed == {n \in Nat : n <= N => value[n] \in Nat}
<1>8. N \in Typed /\ \A n \in 0 .. N : n \in Typed
  <2>1. 0 \in Typed
    BY <1>7
  <2>2. ASSUME NEW n \in Nat, n \in Typed PROVE n + 1 \in Typed
    <3> SUFFICES ASSUME n + 1 <= N PROVE value[n + 1] \in Nat
      OBVIOUS
    <3>1. n + 1 \in 1 .. N /\ (n + 1) - 1 = n /\ value[n] \in Nat
      BY <1>1, <2>2
    <3>2. value[n + 1] = 10 * value[n] + name[n + 1]
      BY <1>7, <3>1
    <3> QED
      BY <1>1, <3>1, <3>2
  <2>3. \A n \in Nat : n \in Typed
    <3> HIDE DEF Typed
    <3> QED
      BY <2>1, <2>2, Loops!NatSetInduction
  <2> QED
    BY <1>1, <2>3
<1>9. value \in [0 .. N -> Nat]
  <2>1. \A n \in 0 .. N : value[n] \in Nat
    BY <1>1, <1>8
  <2>2. value = [n \in 0 .. N |-> value[n]]
    BY <1>6, Zenon
  <2> QED
    BY <2>1, <2>2
<1>10. Images!Number(name) = value[N]
  BY Zenon DEF Images!Number, value
<1> QED
  BY <1>7, <1>9, <1>10 DEF ValuesOf

\* From the digit on in which they differ, the values of two names keep their order.
LEMMA PaddedOrder ==
  ASSUME NEW a \in Seq(0 .. 9), NEW b \in Seq(0 .. 9), Len(a) = Len(b), Images!TextBefore(a, b)
  PROVE  Images!Number(a) < Images!Number(b)
<1>1. PICK f : ValuesOf(f, a) /\ Images!Number(a) = f[Len(a)]
  BY NumberValue
<1>2. PICK g : ValuesOf(g, b) /\ Images!Number(b) = g[Len(b)]
  BY NumberValue
<1> DEFINE N == Len(a)
<1>3. N \in Nat /\ Len(b) = N /\ \A n \in 1 .. N : a[n] \in 0 .. 9 /\ b[n] \in 0 .. 9
  OBVIOUS
<1>4. PICK i \in 1 .. N : (\A j \in 1 .. i - 1 : a[j] = b[j]) /\ a[i] < b[i]
  BY <1>3 DEF Images!TextBefore
<1>5. /\ \A n \in 0 .. N : f[n] \in Nat /\ g[n] \in Nat
      /\ f[0] = 0 /\ g[0] = 0
      /\ \A n \in 1 .. N : f[n] = 10 * f[n - 1] + a[n] /\ g[n] = 10 * g[n - 1] + b[n]
  BY <1>1, <1>2 DEF ValuesOf
<1> HIDE DEF N
<1> DEFINE Ordered == {n \in Nat : n <= N => (n < i => f[n] = g[n]) /\ (n >= i => f[n] < g[n])}
<1>6. 0 \in Ordered
  BY <1>4, <1>5
<1>7. ASSUME NEW n \in Nat, n \in Ordered PROVE n + 1 \in Ordered
  <2> SUFFICES ASSUME n + 1 <= N
               PROVE  (n + 1 < i => f[n + 1] = g[n + 1]) /\ (n + 1 >= i => f[n + 1] < g[n + 1])
    OBVIOUS
  <2>1. n + 1 \in 1 .. N /\ (n + 1) - 1 = n /\ n \in 0 .. N /\ i \in Nat
    BY <1>3, <1>4
  <2> DEFINE x == f[n]
             y == g[n]
             c == a[n + 1]
             d == b[n + 1]
  <2>2. f[n + 1] = 10 * x + c /\ g[n + 1] = 10 * y + d
    BY <1>5, <2>1
  <2>3. x \in Nat /\ y \in Nat /\ c \in 0 .. 9 /\ d \in 0 .. 9
    BY <1>3, <1>5, <2>1
  <2>4. (n < i => x = y) /\ (n >= i => x < y)
    BY <1>3, <1>7, <2>1
  <2>5. (n + 1 < i => c = d) /\ (n + 1 = i => c < d)
    BY <1>4, <2>1
  <2> HIDE DEF x, y, c, d
  <2>6. CASE n + 1 < i
    BY <2>1, <2>2, <2>3, <2>4, <2>5, <2>6
  <2>7. CASE n + 1 = i
    BY <2>1, <2>2, <2>3, <2>4, <2>5, <2>7
  <2>8. CASE n >= i
    BY <2>1, <2>2, <2>3, <2>4, <2>8
  <2> QED
    BY <2>1, <2>6, <2>7, <2>8
<1>8. N \in Ordered
  <2> HIDE DEF Ordered
  <2> QED
    BY <1>3, <1>6, <1>7, Loops!NatSetInduction
<1> QED
  BY <1>1, <1>2, <1>3, <1>4, <1>8 DEF N

\* Once they are sorted, padded names come in the order of their numbers.
LEMMA InOrder == ASSUME ImageInv, Listed PROVE Images!PaddedNamesInOrder
<1>1. Images!SupportedFilesOnce
  <2>1. FilesListed
    BY DEF Listed
  <2> QED
    BY <2>1 DEF FilesListed, Images!SupportedFilesOnce, Images!ToSet
<1>2. ASSUME pc \notin {"list", "thrown"}, Images!Padded(DOMAIN dir), NEW i \in 1 .. Len(files) - 1
      PROVE  Images!Number(files[i]) < Images!Number(files[i + 1])
  <2>1. files \in Seq(DOMAIN dir)
    BY DEF ImageInv
  <2>2. i \in 1 .. Len(files) /\ i + 1 \in 1 .. Len(files) /\ i < i + 1
    BY <2>1
  <2>3. files[i] \in DOMAIN dir /\ files[i + 1] \in DOMAIN dir
    BY <2>1, <2>2
  <2>4. /\ files[i] \in Seq(0 .. 9) /\ files[i + 1] \in Seq(0 .. 9)
        /\ Len(files[i]) = Len(files[i + 1])
    BY <1>2, <2>3 DEF Images!Padded
  <2>5. Images!TextBefore(files[i], files[i + 1])
    BY <1>2, <2>2 DEF Listed
  <2> QED
    BY <2>4, <2>5, PaddedOrder
<1> QED
  BY <1>1, <1>2 DEF Images!PaddedNamesInOrder

(***************************************************************************)
(* The reader that main has made                                           *)
(***************************************************************************)

\* Only one of the two is there.
ReadersInv ==
  /\ source = "video" => VideoInv /\ TimesOK
  /\ source = "images" => ImageInv /\ Listed

\* It holds of either reader at the start.
LEMMA ReadersStart == ReadersInit => ReadersInv
<1>1. Video!Init => TimesOK
  BY DEF Video!Init, TimesOK
<1> QED
  BY <1>1, VideoInit, ImageInit, ListedInit
  DEF ReadersInit, CreateVideoReader, CreateImageSeqReader, ReadersInv

\* Every step is of the reader that was made, and keeps it.
LEMMA ReadersStep == ReadersInv /\ [ReadersNext]_reader_vars => ReadersInv'
<1> SUFFICES ASSUME ReadersInv, [ReadersNext]_reader_vars PROVE ReadersInv'
  OBVIOUS
<1>1. CASE UNCHANGED reader_vars
  <2>1. UNCHANGED <<source, pc, curr_frame, slots, kinds, surfaces, sample, plane, last_timestamp,
                    elapsed, gaps, queue, textures, dir, unseen, files, shown, frame_size>>
    BY <1>1 DEF reader_vars, video_only, image_only
  <2>2. VideoInv /\ TimesOK => (VideoInv /\ TimesOK)'
    BY <2>1 DEF VideoInv, Video!TypeOK, QueueOK, CommandOK, SampleOK, SurfacesKept, CopiesWait,
       WaitsFirst, TexturesOK, SlotsComplete, PlaneComes, TimesOK, Held, Copying
  <2>3. ImageInv => ImageInv'
    BY <2>1 DEF ImageInv, Images!TypeOK, SlotLatest, ShownOK, Went, Images!Candidates,
       Images!Decodes, Images!ToSet
  <2>4. Listed => Listed'
    BY <2>1 DEF Listed, FilesListed, Images!ToSet
  <2> QED
    BY <2>1, <2>2, <2>3, <2>4 DEF ReadersInv
<1>2. CASE source = "video" /\ Video!Next /\ UNCHANGED source
  BY <1>2, VideoStep, TimesStep DEF ReadersInv
<1>3. CASE source = "images" /\ Images!Next /\ UNCHANGED source
  BY <1>3, ImageStep, ListedStep DEF ReadersInv
<1> QED
  BY <1>1, <1>2, <1>3 DEF ReadersNext, FromVideo, Decoder, QueueRuns, FromImages, OfVideo, Video!Next

\* No slot ever holds parts of two frames, and what a queued copy comes to is the frame it was
\* recorded for, for any surfaces, planes, stream and slots: the reader may drop a sample as
\* soon as its copies are queued, since the release behind them is what gives the surface back.
THEOREM FramesWhole == ReadersSpec => []VideoFramesWhole
<1>1. ReadersInv => VideoFramesWhole
  BY Whole DEF ReadersInv, VideoFramesWhole
<1> QED
  BY <1>1, ReadersStart, ReadersStep, PTL DEF ReadersSpec

\* The timespans that the caller has got add up to the time between the first sample and the
\* last, for every stream and whatever gaps and other buffers it has.
THEOREM TimespansSum == ReadersSpec => []TimespansAddUp
<1>1. ReadersInv => TimespansAddUp
  BY DEF ReadersInv, TimesOK, TimespansAddUp, Video!TimespansAddUp
<1> QED
  BY <1>1, ReadersStart, ReadersStep, PTL DEF ReadersSpec

\* Whatever a directory has, a frame shows its own picture or, where that cannot be decoded,
\* the latest before it that its slot got.
THEOREM LatestShown == ReadersSpec => []ShownFromSlot
<1>1. ReadersInv => ShownFromSlot
  BY Latest DEF ReadersInv, ShownFromSlot
<1> QED
  BY <1>1, ReadersStart, ReadersStep, PTL DEF ReadersSpec

\* Every file of SupportedExts is a frame once, no directory is one, and files whose names are padded numbers come in
\* the order of the numbers, for names of every length (ImageSeqReader's constructor).
THEOREM FilesInOrder == ReadersSpec => []PaddedNamesInOrder
<1>1. ReadersInv => PaddedNamesInOrder
  BY InOrder DEF ReadersInv, PaddedNamesInOrder
<1> QED
  BY <1>1, ReadersStart, ReadersStep, PTL DEF ReadersSpec

=============================================================================
