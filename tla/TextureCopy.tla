---------------------------- MODULE TextureCopy ----------------------------
(***************************************************************************)
(* What GpuTexture2D::Upload and Readback move, texel by texel: a picture  *)
(* is written to a block of an upload page, copied to a texture, copied to *)
(* a block of a readback page and read from there.  The processor and the  *)
(* GPU each have their own idea of where a row of a block begins.          *)
(***************************************************************************)
EXTENDS Integers

CONSTANTS
    Shapes,         \* of the sub-resource that is copied
    BlockOffsets,   \* of the blocks in their pages
    RowAlignment,   \* of the rows that the GPU copies, in texels: 256 bytes
    PageSize        \* in texels

Positive == Nat \ {0}

\* GetCopyableFootprints: how far the rows are apart and how much they take. The size of a
\* row, which it gives too, is the width of the sub-resource.
RowPitch(shape) == ((shape.width + RowAlignment - 1) \div RowAlignment) * RowAlignment

TightSize(shape) == shape.width * shape.height

RequiredSize(shape) == RowPitch(shape) * (shape.height - 1) + shape.width

ASSUME CopyAssumption ==
    /\ RowAlignment \in Positive
    /\ PageSize \in Nat
    /\ Shapes \subseteq [width : Positive, height : Positive]
    /\ BlockOffsets \subseteq Nat
    /\ \A shape \in Shapes, offset \in BlockOffsets : offset + RequiredSize(shape) <= PageSize

VARIABLES
    shape,
    offset,     \* of either block
    step,       \* "fill", "copy in", "copy out", "read" or "done"
    y,          \* the next row that the processor moves
    upload,     \* the upload page
    texture,
    readback,   \* the readback page
    picture     \* what Readback returns

copy_vars == <<shape, offset, step, y, upload, texture, readback, picture>>

Page == 0 .. PageSize - 1
Texels == (0 .. shape.width - 1) \X (0 .. shape.height - 1)

\* A texel of the picture is named by its place in it; a block holds leftovers of its last
\* use, and the rest of a page belongs to others.
Stale == <<-1, 0>>
Others == <<-1, -1>>
Blank(s, o) == [a \in Page |-> IF a \in o .. o + RequiredSize(s) - 1 THEN Stale ELSE Others]

CopyInit ==
    /\ shape \in Shapes
    /\ offset \in BlockOffsets
    /\ step = "fill"
    /\ y = 0
    /\ upload = Blank(shape, offset)
    /\ readback = Blank(shape, offset)
    /\ texture = [t \in Texels |-> Stale]
    /\ picture = [t \in Texels |-> Stale]

\* The loops of both operations: rows of the picture lie in the block without a gap.
RowStart(row) == offset + row * shape.width

CopiedRow ==
    [a \in Page |-> IF a \in RowStart(y) .. RowStart(y) + shape.width - 1
                       THEN <<a - RowStart(y), y>> ELSE upload[a]]

\* The memcpy of one row in Upload.
FillRow ==
    /\ step = "fill" /\ y < shape.height
    /\ upload' = CopiedRow
    /\ y' = y + 1
    /\ step' = IF y' = shape.height THEN "copy in" ELSE step
    /\ UNCHANGED <<shape, offset, texture, readback, picture>>

\* Where the GPU has a texel of the block: the footprint is placed at the block.
Placed(t) == offset + t[2] * RowPitch(shape) + t[1]

CopyInFromPage ==
    /\ step = "copy in"
    /\ texture' = [t \in Texels |-> upload[Placed(t) - offset]]
    /\ step' = "copy out"
    /\ UNCHANGED <<shape, offset, y, upload, readback, picture>>

\* The GPU copies the block to the texture.
CopyIn ==
    /\ step = "copy in"
    /\ texture' = [t \in Texels |-> upload[Placed(t)]]
    /\ step' = "copy out"
    /\ UNCHANGED <<shape, offset, y, upload, readback, picture>>

\* The GPU copies the texture to the block of Readback, which waits for that.
CopyOut ==
    /\ step = "copy out"
    /\ readback' = [a \in Page |->
                      LET column == (a - offset) % RowPitch(shape)
                          row == (a - offset) \div RowPitch(shape)
                      IN  IF a >= offset /\ <<column, row>> \in Texels
                            THEN texture[<<column, row>>] ELSE readback[a]]
    /\ step' = "read"
    /\ y' = 0
    /\ UNCHANGED <<shape, offset, upload, texture, picture>>

\* The memcpy of one row in Readback.
ReadRow ==
    /\ step = "read" /\ y < shape.height
    /\ picture' = [t \in Texels |->
                     IF t[2] = y THEN readback[RowStart(y) + t[1]] ELSE picture[t]]
    /\ y' = y + 1
    /\ step' = IF y' = shape.height THEN "done" ELSE step
    /\ UNCHANGED <<shape, offset, upload, texture, readback>>

CopyNext == FillRow \/ CopyIn \/ CopyOut \/ ReadRow

CopySpec == CopyInit /\ [][CopyNext]_copy_vars

(***************************************************************************)
(* Properties                                                              *)
(***************************************************************************)

Block == offset .. offset + RequiredSize(shape) - 1

\* The rows are moved one after the other, and every texel has a value.
CopyTypeOK ==
    /\ shape \in Shapes /\ offset \in BlockOffsets
    /\ step \in {"fill", "copy in", "copy out", "read", "done"}
    /\ y \in 0 .. shape.height
    /\ step \in {"copy in", "copy out", "done"} => y = shape.height
    /\ DOMAIN upload = Page /\ DOMAIN readback = Page
    /\ DOMAIN texture = Texels /\ DOMAIN picture = Texels

\* Whatever the width, neither the processor nor the GPU leaves the block: what others have
\* in the pages is neither written nor read.
OthersKept ==
    /\ \A a \in Page \ Block : upload[a] = Others /\ readback[a] = Others
    /\ \A t \in Texels : texture[t] # Others /\ picture[t] # Others

IsWhole(value) == \A t \in Texels : value[t] = t

\* A picture with rows of a multiple of the alignment (or with one row) comes back as it was.
AlignedRoundTrip ==
    step = "done" /\ (shape.width % RowAlignment = 0 \/ shape.height = 1) => IsWhole(picture)

=============================================================================
