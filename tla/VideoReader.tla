---------------------------- MODULE VideoReader ----------------------------
(***************************************************************************)
(* ReadFrame of the VideoReader: three parties share the surfaces of the   *)
(* decoder. The decoder fills them on its own time, the reader hands the   *)
(* copies of a sample to the compute queue without waiting for either, and *)
(* the queue runs them between a wait for the decoder and a release to it. *)
(***************************************************************************)
EXTENDS Integers, Sequences

CONSTANTS
    Surfaces,       \* of the decoder
    Timestamps,     \* of the samples of the stream
    Planes,         \* of a surface
    FrameCount,
    GapBound,       \* how often the source has no sample yet
    None

Frames == DOMAIN Timestamps

VideoAssumption ==
    /\ Timestamps \in Seq(Nat)
    /\ Planes \in Nat \ {0} /\ FrameCount \in Nat \ {0} /\ GapBound \in Nat
    /\ None \notin Surfaces /\ None \notin Nat

VARIABLES
    kinds,          \* of the samples: with a decoder's surface, or with another buffer
    surfaces,       \* what each holds: a frame, if it is ready, and who still needs it
    sample,         \* that ReadFrame holds: its surface or None, for a buffer of another kind
    plane,          \* the next that it copies
    pc,             \* "caller", "read", "queue_wait", "copy", "queue_release", "return", "ended"
    curr_frame,     \* curr_frame_
    last_timestamp, \* last_timestamp_
    elapsed,        \* the sum of the time spans that the caller has got
    gaps,
    queue,          \* what the compute queue has not run yet
    textures,       \* the frame that each plane of the texture of a frame holds
    slots           \* the frame whose texture each slot of the caller holds

video_vars == <<kinds, surfaces, sample, plane, pc, curr_frame, last_timestamp, elapsed, gaps,
                queue, textures, slots>>

Free == [frame |-> 0, ready |-> FALSE, held |-> FALSE, queued |-> FALSE]

Init ==
    /\ kinds \in [Frames -> {"surface", "other"}]
    /\ surfaces = [s \in Surfaces |-> Free]
    /\ sample = None
    /\ plane = 0
    /\ pc = "caller"
    /\ curr_frame = 0
    /\ last_timestamp = 0
    /\ elapsed = 0
    /\ gaps = 0
    /\ queue = <<>>
    /\ textures = [n \in Frames |-> [p \in 0 .. Planes - 1 |-> 0]]
    /\ slots = [i \in 0 .. FrameCount - 1 |-> 0]

(***************************************************************************)
(* The decoder. A surface is its own again when the sample is dropped and  *)
(* no release of it is still queued.                                       *)
(***************************************************************************)
Reusable(s) == ~surfaces[s].held /\ ~surfaces[s].queued

DecoderFinishes(s) ==
    /\ surfaces[s].frame # 0 /\ ~surfaces[s].ready
    /\ surfaces' = [surfaces EXCEPT ![s].ready = TRUE]
    /\ UNCHANGED <<kinds, sample, plane, pc, curr_frame, last_timestamp, elapsed, gaps, queue, textures, slots>>

(***************************************************************************)
(* The reader                                                              *)
(***************************************************************************)
\* The caller asks for another frame.
CallReadFrame ==
    /\ pc = "caller"
    /\ pc' = "read"
    /\ UNCHANGED <<kinds, surfaces, sample, plane, curr_frame, last_timestamp, elapsed, gaps, queue, textures, slots>>

\* ReadSample without a sample: the loop asks again.
ReadGap ==
    /\ pc = "read"
    /\ gaps < GapBound
    /\ gaps' = gaps + 1
    /\ UNCHANGED <<kinds, surfaces, sample, plane, pc, curr_frame, last_timestamp, elapsed, queue, textures, slots>>

\* ReadSample at the end of the stream: ReadFrame returns false.
ReadEnd ==
    /\ pc = "read"
    /\ curr_frame = Len(Timestamps)
    /\ pc' = "ended"
    /\ UNCHANGED <<kinds, surfaces, sample, plane, curr_frame, last_timestamp, elapsed, gaps, queue, textures, slots>>

\* The timestamp of the first sample has nothing before it.
Timespan(timestamp) == IF curr_frame = 0 THEN 0 ELSE timestamp - last_timestamp

CountFrameTooEarly(timestamp) ==
    /\ elapsed' = elapsed + (timestamp - last_timestamp)
    /\ last_timestamp' = timestamp
    /\ curr_frame' = curr_frame + 1

CountFrame(timestamp) ==
    /\ elapsed' = elapsed + Timespan(timestamp)
    /\ last_timestamp' = timestamp
    /\ curr_frame' = curr_frame + 1

\* ReadSample with a sample on a surface, which the decoder has begun to fill.
ReadSurface(s) ==
    /\ pc = "read"
    /\ curr_frame < Len(Timestamps)
    /\ kinds[curr_frame + 1] = "surface"
    /\ Reusable(s)
    /\ CountFrame(Timestamps[curr_frame + 1])
    /\ surfaces' = [surfaces EXCEPT ![s] = [frame |-> curr_frame', ready |-> FALSE,
                                            held |-> TRUE, queued |-> FALSE]]
    /\ sample' = s
    /\ pc' = "queue_wait"
    /\ UNCHANGED <<kinds, plane, gaps, queue, textures, slots>>

\* ReadSample with a sample whose buffer is no texture: the slot keeps what it has.
ReadOther ==
    /\ pc = "read"
    /\ curr_frame < Len(Timestamps)
    /\ kinds[curr_frame + 1] = "other"
    /\ CountFrame(Timestamps[curr_frame + 1])
    /\ pc' = "return"
    /\ UNCHANGED <<kinds, surfaces, sample, plane, gaps, queue, textures, slots>>

Command(op) == [op |-> op, surface |-> sample, frame |-> curr_frame, plane |-> plane]

\* EnqueueResourceReadyWait, and the slot gets a new texture.
QueueWait ==
    /\ pc = "queue_wait"
    /\ queue' = Append(queue, Command("wait"))
    /\ slots' = [slots EXCEPT ![(curr_frame - 1) % FrameCount] = curr_frame]
    /\ plane' = 0
    /\ pc' = "copy"
    /\ UNCHANGED <<kinds, surfaces, sample, curr_frame, last_timestamp, elapsed, gaps, textures>>

\* CopyFrom for one plane, which hands its list to the queue.
QueueCopy ==
    /\ pc = "copy"
    /\ queue' = Append(queue, Command("copy"))
    /\ plane' = plane + 1
    /\ pc' = IF plane' = Planes THEN "queue_release" ELSE pc
    /\ UNCHANGED <<kinds, surfaces, sample, curr_frame, last_timestamp, elapsed, gaps, textures, slots>>

SkipRelease ==
    /\ pc = "queue_release"
    /\ pc' = "return"
    /\ UNCHANGED <<kinds, surfaces, sample, plane, curr_frame, last_timestamp, elapsed, gaps, queue, textures, slots>>

\* EnqueueResourceRelease.
QueueRelease ==
    /\ pc = "queue_release"
    /\ queue' = Append(queue, Command("release"))
    /\ surfaces' = [surfaces EXCEPT ![sample].queued = TRUE]
    /\ pc' = "return"
    /\ UNCHANGED <<kinds, sample, plane, curr_frame, last_timestamp, elapsed, gaps, textures, slots>>

KeepSample ==
    /\ pc = "return"
    /\ sample' = None
    /\ pc' = "caller"
    /\ UNCHANGED <<kinds, surfaces, plane, curr_frame, last_timestamp, elapsed, gaps, queue, textures, slots>>

\* ReadFrame returns true and drops the sample.
Return ==
    /\ pc = "return"
    /\ surfaces' = [s \in Surfaces |-> [surfaces[s] EXCEPT !.held = @ /\ s # sample]]
    /\ sample' = None
    /\ pc' = "caller"
    /\ UNCHANGED <<kinds, plane, curr_frame, last_timestamp, elapsed, gaps, queue, textures, slots>>

(***************************************************************************)
(* The compute queue                                                       *)
(***************************************************************************)
QueueRuns ==
    /\ queue # <<>>
    /\ LET command == Head(queue)
           surface == surfaces[command.surface]
       IN  \/ /\ command.op = "wait" /\ surface.ready
              /\ UNCHANGED <<kinds, surfaces, textures>>
           \/ /\ command.op = "copy"
              /\ textures' = [textures EXCEPT ![command.frame][command.plane] = surface.frame]
              /\ UNCHANGED surfaces
           \/ /\ command.op = "release"
              /\ surfaces' = [surfaces EXCEPT ![command.surface].queued = FALSE]
              /\ UNCHANGED textures
    /\ queue' = Tail(queue)
    /\ UNCHANGED <<kinds, sample, plane, pc, curr_frame, last_timestamp, elapsed, gaps, slots>>

Reader ==
    \/ CallReadFrame \/ ReadGap \/ ReadEnd \/ ReadOther
    \/ \E s \in Surfaces : ReadSurface(s)
    \/ QueueWait \/ QueueCopy \/ QueueRelease \/ Return

Decoder == \E s \in Surfaces : DecoderFinishes(s)

Next == Reader \/ Decoder \/ QueueRuns

\* The reader's thread, the decoder and the queue each go on.
Spec == /\ Init /\ [][Next]_video_vars
        /\ WF_video_vars(Reader) /\ WF_video_vars(Decoder) /\ WF_video_vars(QueueRuns)

(***************************************************************************)
(* Properties                                                              *)
(***************************************************************************)

TypeOK ==
    /\ surfaces \in [Surfaces -> [frame : 0 .. Len(Timestamps), ready : BOOLEAN,
                                  held : BOOLEAN, queued : BOOLEAN]]
    /\ sample \in Surfaces \cup {None}
    /\ plane \in 0 .. Planes
    /\ curr_frame \in 0 .. Len(Timestamps)
    /\ last_timestamp \in Nat /\ elapsed \in Int
    /\ gaps \in 0 .. GapBound
    /\ slots \in [0 .. FrameCount - 1 -> 0 .. Len(Timestamps)]
    /\ pc \in {"queue_wait", "copy", "queue_release"} => sample # None

\* A copy that the queue comes to finds the frame it was recorded for, whole, although the
\* reader has dropped the sample long before and the decoder may want the surface.
CopiesFindFrame ==
    queue # <<>> /\ Head(queue).op = "copy" =>
        LET surface == surfaces[Head(queue).surface]
        IN  surface.frame = Head(queue).frame /\ surface.ready

\* What a slot holds is never in part of another frame: every plane of its texture is of the
\* frame it was made for, or its copy is still queued.
SlotsOfOneFrame ==
    \A n \in Frames : (\E i \in DOMAIN slots : slots[i] = n) =>
        \A p \in 0 .. Planes - 1 :
            \/ textures[n][p] = n
            \/ \E i \in DOMAIN queue :
                 queue[i].op = "copy" /\ queue[i].frame = n /\ queue[i].plane = p
            \/ n = curr_frame /\ pc = "copy" /\ p >= plane

\* The time spans add up to the time between the first sample and the last, whatever kinds
\* of samples and gaps were between: no frame's time is lost or counted twice.
TimespansAddUp == curr_frame > 0 => elapsed = last_timestamp - Timestamps[1]

=============================================================================
