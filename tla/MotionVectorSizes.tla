------------------------- MODULE MotionVectorSizes -------------------------
(***************************************************************************)
(* The sizes that MotionBlurGenerator works with: the limits it takes from *)
(* the motion estimator when it is made, and the textures that AddFrame    *)
(* makes when it gets the first frame.  Products of sides and limits stay  *)
(* within 32 bits, and ratios that the code compares as floats are         *)
(* compared exactly.                                                       *)
(***************************************************************************)
EXTENDS Integers

CONSTANTS
    SizeRanges,     \* what a motion estimator may support
    Widths, Heights \* of the first frame

\* Two sides of no more than this have a product of 32 bits.
SideBound == 65535

\* An estimator that stays below 512 pixels is not made: the constructor asks for more.
SizeRange == [MaxWidth : 512 .. SideBound, MaxHeight : 1 .. SideBound,
              MinWidth : 1 .. SideBound, MinHeight : 1 .. SideBound]

ASSUME SizesAssumption ==
    /\ SizeRanges \subseteq SizeRange
    /\ Widths \subseteq 1 .. SideBound
    /\ Heights \subseteq 1 .. SideBound

Larger(a, b) == IF a < b THEN b ELSE a
Smaller(a, b) == IF a < b THEN a ELSE b
DivUp(a, b) == (a + b - 1) \div b

Even(a) == a - (a % 2)

\* AddFrame scales a side by the ratio of the other.
Scaled(side, limit, other) == (side * limit) \div other

\* Both limits of the height are made from the limits of the width.
Limits(range) ==
    [max_width  |-> Smaller(1920, range.MaxWidth),
     max_height |-> Smaller(1080, range.MaxWidth),
     min_width  |-> Larger(512, range.MinWidth),
     min_height |-> Larger(384, range.MinWidth)]

Size(width, height) == [width |-> width, height |-> height]

FitNarrowSide(size, limit_width, limit_height) ==
    IF limit_width * size.height > limit_height * size.width
      THEN Size(limit_width, Scaled(size.height, limit_width, size.width))
      ELSE Size(Scaled(size.width, limit_height, size.height), limit_height)

\* The side that is scaled less takes its limit and the other follows, by the same ratio.
Fit(size, limit_width, limit_height) ==
    IF limit_width * size.height < limit_height * size.width
      THEN Size(limit_width, Scaled(size.height, limit_width, size.width))
      ELSE Size(Scaled(size.width, limit_height, size.height), limit_height)

Above(size, limits) == size.width > limits.max_width \/ size.height > limits.max_height
Below(size, limits) == size.width < limits.min_width \/ size.height < limits.min_height

\* What the minimum asks for replaces what the maximum asked for.
ScaledSize(size, limits) ==
    LET fit == IF Below(size, limits) THEN Fit(size, limits.min_width, limits.min_height)
               ELSE IF Above(size, limits) THEN Fit(size, limits.max_width, limits.max_height)
               ELSE size
    IN  Size(Even(fit.width), Even(fit.height))

BlocksOf8(size, block) == Size(DivUp(size.width, 8), DivUp(size.height, 8))

BlockCount(size, block) == Size(DivUp(size.width, block), DivUp(size.height, block))

VARIABLES
    range,          \* of the motion estimator
    limits,         \* max_mv_width_ to min_mv_height_
    mv_block_size,  \* mv_block_size_
    frame,          \* the size of the first frame
    scaled,         \* of scaled_frame_nv12_tex
    raw_mv,         \* of raw_motion_vector_tex
    mv              \* of motion_vector_tex

size_vars == <<range, limits, mv_block_size, frame, scaled, raw_mv, mv>>

NoSize == Size(0, 0)

SizesInit ==
    /\ range \in SizeRanges
    /\ limits = [max_width |-> 0, max_height |-> 0, min_width |-> 0, min_height |-> 0]
    /\ mv_block_size = 0
    /\ frame = NoSize /\ scaled = NoSize /\ raw_mv = NoSize /\ mv = NoSize

\* The constructor. Blocks of 16 pixels are used where they are supported.
Construct ==
    /\ mv_block_size = 0
    /\ limits' = Limits(range)
    /\ mv_block_size' \in {8, 16}
    /\ UNCHANGED <<range, frame, scaled, raw_mv, mv>>

AddFirstFrame(width, height) ==
    /\ mv_block_size # 0
    /\ frame = NoSize
    /\ frame' = Size(width, height)
    /\ scaled' = ScaledSize(frame', limits)
    /\ raw_mv' = BlockCount(scaled', mv_block_size)
    /\ mv' = BlockCount(frame', 16)
    /\ UNCHANGED <<range, limits, mv_block_size>>

SizesNext ==
    \/ Construct
    \/ \E width \in Widths, height \in Heights : AddFirstFrame(width, height)

SizesSpec == SizesInit /\ [][SizesNext]_size_vars

(***************************************************************************)
(* Properties                                                              *)
(***************************************************************************)

Made == frame # NoSize

SizesTypeOK ==
    /\ range \in SizeRanges
    /\ mv_block_size \in {0, 8, 16}
    /\ \A size \in {frame, scaled, raw_mv, mv} : size \in [width : Nat, height : Nat]
    /\ limits \in [max_width : Nat, max_height : Nat, min_width : Nat, min_height : Nat]

\* A frame with no side below the minimum is scaled to fit the maximum in both sides,
\* although only one side is compared and the other is rounded.
FitsMaximum ==
    Made /\ ~Below(frame, limits) =>
        scaled.width <= limits.max_width /\ scaled.height <= limits.max_height

\* A frame with a side below the minimum is scaled to the minimum in one side and to no more
\* than it in the other: it can end below what the estimator was made for.
FitsMinimum ==
    Made /\ Below(frame, limits) =>
        /\ scaled.width <= limits.min_width /\ scaled.height <= limits.min_height
        /\ \/ scaled.width = Even(limits.min_width)
           \/ scaled.height = Even(limits.min_height)

Distance(a, b) == IF a < b THEN b - a ELSE a - b

\* The scaled frame has the aspect of the frame, up to the rounding of one side to a whole
\* and of each to an even number: one size_scale, made from the widths, serves both
\* components of a motion vector.
AspectKept ==
    Made => Distance(scaled.width * frame.height, scaled.height * frame.width)
              <= 2 * Larger(frame.width, frame.height)

\* No texture gets an empty side, unless the frame is so long that its short side scales
\* to less than two pixels.
SidesPositive ==
    Made =>
        LET limit == IF Below(frame, limits) THEN Size(limits.min_width, limits.min_height)
                     ELSE Size(limits.max_width, limits.max_height)
        IN  /\ 2 * frame.width <= frame.height * limit.width
            /\ 2 * frame.height <= frame.width * limit.height
            => /\ scaled.width > 0 /\ scaled.height > 0
               /\ raw_mv.width > 0 /\ raw_mv.height > 0

\* The sizes that AddFrame makes keep the limits it makes them for.
SizesInLimits == FitsMaximum /\ FitsMinimum /\ SidesPositive

\* Threads come in groups of 16 and each writes some pixels of each side.
Covers(threads, pixels, side) == DivUp(threads, 16) * 16 * pixels >= side

\* RgbToNv12 writes two by two pixels with every thread and is given half as many threads
\* as the sides have pixels: it misses none.
ConvertCovers ==
    Made => /\ Covers(scaled.width \div 2, 2, scaled.width)
            /\ Covers(scaled.height \div 2, 2, scaled.height)

\* What the neighbour-max shader reads for a block of the frame is a raw vector from no
\* farther than one such block and one and a half of the estimator's, on both axes, although
\* the two grids are rounded up each by itself. (Twice the distance, in pixels of the frame
\* times the scaled side.)
RawCell(cell, cells, raw_cells) == ((2 * cell + 1) * raw_cells) \div (2 * cells)

Nearby(cell, cells, raw_cells, side, scaled_side) ==
    LET raw_centre == (2 * RawCell(cell, cells, raw_cells) + 1) * mv_block_size * side
        centre == (2 * cell + 1) * 16 * scaled_side
    IN  Distance(raw_centre, centre) <= 2 * 16 * scaled_side + 3 * mv_block_size * side

VectorsFromNearby ==
    Made /\ scaled.width > 0 /\ scaled.height > 0 =>
        /\ \A cell \in 0 .. mv.width - 1 :
             Nearby(cell, mv.width, raw_mv.width, frame.width, scaled.width)
        /\ \A cell \in 0 .. mv.height - 1 :
             Nearby(cell, mv.height, raw_mv.height, frame.height, scaled.height)

\* A pixel of the frame is blurred along the motion of its own place: the scaled picture is
\* whole and has the frame's aspect, and the vectors are looked up nearby.
VectorsMatchPlaces == SizesTypeOK /\ AspectKept /\ ConvertCovers /\ VectorsFromNearby

=============================================================================
