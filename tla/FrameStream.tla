---------------------------- MODULE FrameStream ----------------------------
(***************************************************************************)
(* What the program promises, with no GPU in it: it takes the frames of    *)
(* the input one by one, runs at most Depth frames ahead of what it saves, *)
(* saves the pictures of the frames in order, and writes each of them to   *)
(* the file of its frame, in any order.                                    *)
(***************************************************************************)
EXTENDS Integers, Sequences

CONSTANTS
    Depth,          \* how many frames may be on their way
    Sources,        \* subset of {"images", "video"}
    FrameNums,      \* how many frames the input may hold
    Unreadables,    \* which of them may give no picture: sets of their numbers
    VariableRate    \* do the frames of a video differ in timespan?

ASSUME StreamAssumption ==
    /\ Depth \in Nat \ {0}
    /\ FrameNums \subseteq Nat
    /\ Unreadables \subseteq SUBSET Nat

VARIABLES
    input,          \* the command line, -L, and what is at the input: its kind and frames
    taken,          \* frames read
    saved,          \* pictures given to be written, in order
    file            \* per frame, the picture in its file

stream_vars == <<input, taken, saved, file>>

Inputs == [source : Sources, frames : FrameNums, unreadable : Unreadables, overlay : BOOLEAN]

\* A frame that gives no picture shows that of the latest frame before it that came
\* Depth frames, or a multiple, earlier and did.
ShownFrom(k) == {n \in 1 .. k : n % Depth = k % Depth /\ n \notin input.unreadable}
Shown(k) == CHOOSE n \in ShownFrom(k) : \A m \in ShownFrom(k) : m <= n

\* The timespan that comes with frame k: an image has the one of -F, a frame of a video
\* its distance from the frame before.
Timespan(k) == IF input.source = "video" /\ VariableRate THEN k ELSE 1

\* A picture is the sequence of what it is made of: frame k, blurred along the motion
\* from frame k - 1 over the timespan of k, and with -L the motion once more on top.
\* The first frame has no motion.
Picture(k) ==
    LET motion == <<Shown(k - 1), Shown(k), Timespan(k)>>
    IN  IF k = 1 THEN <<k>>
                 ELSE <<Shown(k)>> \o motion \o (IF input.overlay THEN motion ELSE <<>>)

NoPicture == <<>>

Init ==
    /\ input \in Inputs
    /\ input.unreadable \subseteq 1 .. input.frames
    /\ taken = 0
    /\ saved = <<>>
    /\ file = [k \in 1 .. input.frames |-> NoPicture]

\* With a frame that shows nothing at all it gives up.
Goes == \A k \in 1 .. taken : ShownFrom(k) # {}

Take ==
    /\ Goes
    /\ taken < input.frames
    /\ taken - Len(saved) < Depth
    /\ taken' = taken + 1
    /\ UNCHANGED <<input, saved, file>>

SaveOnlyWhenFull ==
    /\ Goes
    /\ taken - Len(saved) = Depth
    /\ saved' = Append(saved, Picture(Len(saved) + 1))
    /\ UNCHANGED <<input, taken, file>>

Save ==
    /\ Goes
    /\ Len(saved) < taken
    /\ taken = input.frames \/ taken - Len(saved) = Depth
    /\ saved' = Append(saved, Picture(Len(saved) + 1))
    /\ UNCHANGED <<input, taken, file>>

WriteFile(k) ==
    /\ k \in DOMAIN saved
    /\ file[k] = NoPicture
    /\ file' = [file EXCEPT ![k] = saved[k]]
    /\ UNCHANGED <<input, taken, saved>>

Next == Take \/ Save \/ \E k \in 1 .. input.frames : WriteFile(k)

Spec == Init /\ [][Next]_stream_vars

LiveSpec ==
    /\ Spec
    /\ WF_stream_vars(Take \/ Save)
    /\ \A k \in UNION {1 .. n : n \in FrameNums} :
         WF_stream_vars(k <= input.frames /\ WriteFile(k))

\* Every frame of the input ends as its picture in its file, also when the input ends
\* before Depth frames are on their way, unless there is one that shows nothing.
AllWritten ==
    (\A k \in 1 .. input.frames : ShownFrom(k) # {}) =>
        <>(\A k \in 1 .. input.frames : file[k] = Picture(k))

=============================================================================
