--------------------------- MODULE ImageSeqReader ---------------------------
(***************************************************************************)
(* The reader of image sequences with the caller's slots and the checks    *)
(* that AddFrame makes of them: how the entries of a directory become      *)
(* frames, whatever they are.                                              *)
(***************************************************************************)
EXTENDS Integers, Sequences, SequencesExt

CONSTANTS
    Directories,    \* functions from names, sequences of characters, to entries
    Sizes,          \* of pictures
    FrameCount,
    None

\* The extension of a file is one of SupportedExts, another or missing; the size is None
\* where the contents are no picture that can be decoded.
Entry == [is_directory : BOOLEAN, ext : {"supported", "other", "missing"}, size : Sizes \cup {None}]

ImageAssumption ==
    /\ \A dir \in Directories : \A name \in DOMAIN dir : name \in Seq(Nat) /\ dir[name] \in Entry
    /\ FrameCount \in Nat \ {0}
    /\ None \notin Sizes

VARIABLES
    dir,            \* dir_
    unseen,         \* entries that directory_iterator has not given yet
    pc,             \* "list", "caller", "add", "ended", "thrown" or "asserted"
    files,          \* files_
    curr_frame,     \* curr_frame_
    slots,          \* the texture of each slot of the caller: its size and whose picture it has
    shown,          \* the file whose picture each frame has shown
    frame_size      \* the size that the generator has made its textures for

image_vars == <<dir, unseen, pc, files, curr_frame, slots, shown, frame_size>>

NoTexture == [size |-> None, file |-> 0]

Init ==
    /\ dir \in Directories
    /\ unseen = DOMAIN dir
    /\ pc = "list"
    /\ files = <<>>
    /\ curr_frame = 0
    /\ slots = [i \in 0 .. FrameCount - 1 |-> NoTexture]
    /\ shown = <<>>
    /\ frame_size = None

\* The constructor, for the next entry. A name without an extension throws; what the search
\* for the extension finds is taken for true, so that every other file is listed.
ListEntry(name) ==
    /\ pc = "list" /\ name \in unseen
    /\ unseen' = unseen \ {name}
    /\ files' = IF dir[name].is_directory \/ dir[name].ext = "missing" THEN files
                ELSE Append(files, name)
    /\ pc' = IF ~dir[name].is_directory /\ dir[name].ext = "missing" THEN "thrown" ELSE pc
    /\ UNCHANGED <<dir, curr_frame, slots, shown, frame_size>>

\* Names are compared character by character.
TextBefore(a, b) ==
    \E i \in 1 .. Len(b) :
        /\ \A j \in 1 .. i - 1 : j <= Len(a) /\ a[j] = b[j]
        /\ i <= Len(a) => a[i] < b[i]

Unsorted(names) == {names}

\* What std::sort may leave: the names, which are distinct, each before the next.
Sorted(names) ==
    {s \in [1 .. Len(names) -> ToSet(names)] :
        /\ ToSet(s) = ToSet(names)
        /\ \A i, j \in 1 .. Len(names) : i < j => TextBefore(s[i], s[j])}

\* The end of the constructor.
SortFiles ==
    /\ pc = "list" /\ unseen = {}
    /\ files' \in Sorted(files)
    /\ pc' = "caller"
    /\ UNCHANGED <<dir, unseen, curr_frame, slots, shown, frame_size>>

LoadTextureOnce(texture, n) ==
    LET size == dir[files[n]].size
    IN  IF size = None THEN texture
        ELSE [size |-> IF texture = NoTexture THEN size ELSE texture.size, file |-> n]

\* A picture that cannot be decoded is skipped; another size needs another texture.
LoadTexture(texture, n) ==
    LET size == dir[files[n]].size
    IN  IF size = None THEN texture ELSE [size |-> size, file |-> n]

Slot == curr_frame % FrameCount

Decodes(n) == dir[files[n]].size # None

\* ReadFrame, which returns true whatever LoadTexture did.
ReadFrame ==
    /\ pc = "caller" /\ curr_frame < Len(files)
    /\ slots' = [slots EXCEPT ![Slot] = LoadTexture(@, curr_frame + 1)]
    /\ curr_frame' = curr_frame + 1
    /\ pc' = "add"
    /\ UNCHANGED <<dir, unseen, files, shown, frame_size>>

ReadNothing ==
    /\ pc = "caller" /\ curr_frame = Len(files)
    /\ pc' = "ended"
    /\ UNCHANGED <<dir, unseen, files, curr_frame, slots, shown, frame_size>>

\* AddFrame: the first frame gives the size, and no textures can be made for an empty slot;
\* later frames are asserted to have that size, which an empty slot has not.
AddFrame ==
    /\ pc = "add"
    /\ LET texture == slots[(curr_frame - 1) % FrameCount]
       IN  /\ shown' = Append(shown, texture.file)
           /\ frame_size' = IF curr_frame = 1 THEN texture.size ELSE frame_size
           /\ pc' = IF curr_frame = 1 /\ texture = NoTexture THEN "thrown"
                    ELSE IF texture.size # frame_size' THEN "asserted"
                    ELSE "caller"
    /\ UNCHANGED <<dir, unseen, files, curr_frame, slots>>

Next ==
    \/ \E name \in unseen : ListEntry(name)
    \/ SortFiles \/ ReadFrame \/ ReadNothing \/ AddFrame

Spec == Init /\ [][Next]_image_vars /\ WF_image_vars(Next)

(***************************************************************************)
(* Properties                                                              *)
(***************************************************************************)

TypeOK ==
    /\ dir \in Directories /\ unseen \subseteq DOMAIN dir
    /\ pc \in {"list", "caller", "add", "ended", "thrown", "asserted"}
    /\ ToSet(files) \subseteq DOMAIN dir
    /\ curr_frame \in 0 .. Len(files)
    /\ slots \in [0 .. FrameCount - 1 -> [size : Sizes \cup {None}, file : 0 .. Len(files)]]
    /\ Len(shown) <= curr_frame
    /\ frame_size \in Sizes \cup {None}

\* Files that went to the slot of frame n, up to it, and can be decoded.
Candidates(n) == {k \in 1 .. n : k % FrameCount = n % FrameCount /\ Decodes(k)}

\* A frame shows its own picture if that can be decoded, and otherwise the latest that the
\* slot got: an older one, never one of another slot, and in its own size.
ShownFromSlot ==
    /\ \A n \in DOMAIN shown :
         shown[n] = IF Candidates(n) = {} THEN 0 ELSE Max(Candidates(n))
    /\ \A i \in DOMAIN slots :
         slots[i].file # 0 => slots[i].size = dir[files[slots[i].file]].size

\* The number that a name of digits is written for.
Number(name) ==
    LET value[n \in 0 .. Len(name)] == IF n = 0 THEN 0 ELSE 10 * value[n - 1] + name[n]
    IN  value[Len(name)]

\* Once the directory is listed, its files of SupportedExts are frames, no directory is one, and
\* nothing is a frame twice. Whether a file of another extension is one is left open: the code
\* takes it, for all that SupportedExts is there to tell it apart.
SupportedFilesOnce ==
    pc \notin {"list", "thrown"} =>
        /\ \A name \in DOMAIN dir :
             ~dir[name].is_directory /\ dir[name].ext = "supported" => name \in ToSet(files)
        /\ \A i \in DOMAIN files : ~dir[files[i]].is_directory
        /\ \A i, j \in DOMAIN files : files[i] = files[j] => i = j

\* Names that are numbers, padded to one length.
Padded(names) ==
    /\ names \subseteq Seq(0 .. 9)
    /\ \A a, b \in names : Len(a) = Len(b)

\* Every supported file is a frame once, and where names are padded numbers frames come in
\* their order.
PaddedNamesInOrder ==
    /\ SupportedFilesOnce
    /\ pc \notin {"list", "thrown"} /\ Padded(DOMAIN dir) =>
         \A i \in 1 .. Len(files) - 1 : Number(files[i]) < Number(files[i + 1])

Uniform == \E size \in Sizes : \A name \in DOMAIN dir :
    dir[name].is_directory \/ (dir[name].size = size /\ dir[name].ext # "missing")

AllShown == pc = "ended" /\ shown = [n \in 1 .. Len(files) |-> n]

=============================================================================
