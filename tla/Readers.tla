------------------------------ MODULE Readers ------------------------------
(***************************************************************************)
(* The two readers behind one interface: main makes one of them, by what   *)
(* the command line names, and calls ReadFrame until it returns false.     *)
(* The slots, the counter of frames and where the caller is are common.    *)
(***************************************************************************)
EXTENDS Integers, Sequences

CONSTANTS
    Surfaces, Timestamps, Planes, GapBound,     \* of VideoReader
    Directories, Sizes,                         \* of ImageSeqReader
    FrameCount, None

VARIABLES
    source,         \* "video" or "images"
    pc, curr_frame, slots

VARIABLES kinds, surfaces, sample, plane, last_timestamp, elapsed, gaps, queue, textures

VARIABLES dir, unseen, files, shown, frame_size

Video == INSTANCE VideoReader
Images == INSTANCE ImageSeqReader

ASSUME ReadersAssumption == Video!VideoAssumption /\ Images!ImageAssumption

video_only == <<kinds, surfaces, sample, plane, last_timestamp, elapsed, gaps, queue, textures>>
image_only == <<dir, unseen, files, shown, frame_size>>
reader_vars == <<source, pc, curr_frame, slots, video_only, image_only>>

\* CreateVideoReader or CreateImageSeqReader: the other reader is not there.
CreateVideoReader ==
    /\ source = "video"
    /\ Video!Init
    /\ dir = None /\ unseen = None /\ files = None /\ shown = None /\ frame_size = None

CreateImageSeqReader ==
    /\ source = "images"
    /\ Images!Init
    /\ kinds = None /\ surfaces = None /\ sample = None /\ plane = None /\ last_timestamp = None
    /\ elapsed = None /\ gaps = None /\ queue = None /\ textures = None

ReadersInit == CreateVideoReader \/ CreateImageSeqReader

OfVideo(step) == source = "video" /\ step /\ UNCHANGED <<source, image_only>>

FromVideo == OfVideo(Video!Reader)
Decoder == OfVideo(Video!Decoder)
QueueRuns == OfVideo(Video!QueueRuns)
FromImages == source = "images" /\ Images!Next /\ UNCHANGED <<source, video_only>>

ReadersNext == FromVideo \/ Decoder \/ QueueRuns \/ FromImages

\* The reader's thread, the decoder and the queue each go on.
ReadersSpec ==
    /\ ReadersInit /\ [][ReadersNext]_reader_vars
    /\ WF_reader_vars(FromVideo) /\ WF_reader_vars(Decoder) /\ WF_reader_vars(QueueRuns)
    /\ WF_reader_vars(FromImages)

(***************************************************************************)
(* Properties                                                              *)
(***************************************************************************)

\* A slot never holds parts of two frames. A copy that the queue comes to finds the frame it
\* was recorded for, whole, although the reader has dropped the sample long before and the
\* decoder may want the surface; and every plane of a slot's texture is of the frame it was
\* made for, or its copy is still queued.
VideoFramesWhole ==
    source = "video" => Video!TypeOK /\ Video!CopiesFindFrame /\ Video!SlotsOfOneFrame

\* The time spans add up to the time between the first sample and the last, whatever kinds
\* of samples and gaps were between: no frame's time is lost or counted twice.
TimespansAddUp == source = "video" => Video!TimespansAddUp

\* A frame shows its own picture if that can be decoded, and otherwise the latest that the
\* slot got: an older one, never one of another slot, and in its own size.
ShownFromSlot == source = "images" => Images!TypeOK /\ Images!ShownFromSlot

\* Where names have one length, as numbers that are padded, frames come in their order, and
\* every file of SupportedExts is a frame once.
PaddedNamesInOrder == source = "images" => Images!PaddedNamesInOrder

\* Either input comes to its end: the decoder never runs out of surfaces for good, and a
\* directory of pictures of one size is read to its end, each shown once and in order.
InputEnds ==
    /\ source = "video" ~> source = "video" /\ pc = "ended"
    /\ source = "images" /\ Images!Uniform ~> source = "images" /\ Images!AllShown

=============================================================================
