---------------------------- MODULE NeighborMax ----------------------------
(***************************************************************************)
(* One group of threads of MotionBlurNeighborMaxCs.hlsl: together they     *)
(* load a tile of motion vectors, a block with a margin around it, into    *)
(* memory of the group, meet at a barrier, and then each takes the largest *)
(* vector that moves along the line between its block and a neighbour's.   *)
(* A vector is what the shader makes of the estimator's: scaling it is     *)
(* left out.                                                               *)
(***************************************************************************)
EXTENDS Integers, Sequences

CONSTANTS
    BlockDim,       \* a group has BlockDim * BlockDim threads
    KernelRadius,
    Grids,          \* sizes of the textures: the vectors' and the estimator's
    RawVectors(_)   \* for a grid, what the estimator may have written

RawCells(g) == (0 .. g.raw_width - 1) \X (0 .. g.raw_height - 1)

ASSUME GroupAssumption ==
    /\ BlockDim \in Nat \ {0} /\ KernelRadius \in Nat
    /\ Grids \subseteq [width : Nat \ {0}, height : Nat \ {0},
                        raw_width : Nat \ {0}, raw_height : Nat \ {0}]
    /\ \A g \in Grids : RawVectors(g) \subseteq [RawCells(g) -> Int \X Int]

VARIABLES
    grid,
    gid,                    \* the group, by its place in the grid of groups
    raw,                    \* raw_motion_vector_tex
    next,                   \* per thread, the next cell of the tile that it loads
    sh_mv_tile,
    motion_vector_tex,      \* what the group has written of it
    neighbor_max_tex        \* of motion_vector_neighbor_max_tex

group_vars == <<grid, gid, raw, next, sh_mv_tile, motion_vector_tex, neighbor_max_tex>>

Zero == <<0, 0>>
Leftover == <<-7, 7>>   \* what memory of the group has before it is written
Threads == 0 .. BlockDim * BlockDim - 1
TileDim == BlockDim + KernelRadius * 2
TileCells == TileDim * TileDim
Tile == (0 .. TileDim - 1) \X (0 .. TileDim - 1)
Blocks == (0 .. grid.width - 1) \X (0 .. grid.height - 1)

Groups(g) == (0 .. (g.width - 1) \div BlockDim) \X (0 .. (g.height - 1) \div BlockDim)

GroupInit ==
    /\ grid \in Grids
    /\ gid \in Groups(grid)
    /\ raw \in RawVectors(grid)
    /\ next = [gi \in Threads |-> gi]
    /\ sh_mv_tile = [cell \in Tile |-> Leftover]
    /\ motion_vector_tex = [block \in {} |-> Zero]
    /\ neighbor_max_tex = [block \in {} |-> Zero]

(***************************************************************************)
(* Loading                                                                 *)
(***************************************************************************)

\* The cell of the estimator's texture for a coordinate. A coordinate left of the texture or
\* above it wraps to a huge one.
InputCoord(coord, side, raw_side) ==
    IF coord < 0 THEN raw_side ELSE ((2 * coord + 1) * raw_side) \div (2 * side)

\* No vector comes from the cells at the edge of the estimator's texture or from outside.
LoadVector(coord) ==
    LET x == InputCoord(coord[1], grid.width, grid.raw_width)
        y == InputCoord(coord[2], grid.height, grid.raw_height)
    IN  IF x = 0 \/ y = 0 \/ x >= grid.raw_width - 1 \/ y >= grid.raw_height - 1 THEN Zero
        ELSE raw[<<x, y>>]

StartCoord == <<gid[1] * BlockDim - KernelRadius, gid[2] * BlockDim - KernelRadius>>
TileCell(i) == <<i % TileDim, i \div TileDim>>
CoordOf(cell) == <<StartCoord[1] + cell[1], StartCoord[2] + cell[2]>>

\* One round of the loop of a thread.
LoadRound(gi) ==
    /\ next' = [next EXCEPT ![gi] = @ + BlockDim * BlockDim]
    /\ sh_mv_tile' = [sh_mv_tile EXCEPT ![TileCell(next[gi])] = LoadVector(CoordOf(TileCell(next[gi])))]
    /\ UNCHANGED <<grid, gid, raw, motion_vector_tex, neighbor_max_tex>>

Load(gi) == next[gi] < TileCells /\ LoadRound(gi)

OwnLoadsDone(gi) == next[gi] >= TileCells

AllAtEnd(gi) == \A other \in Threads : next[other] = TileCells

\* GroupMemoryBarrierWithGroupSync
PastBarrier(gi) == \A other \in Threads : next[other] >= TileCells

(***************************************************************************)
(* The largest vector around                                               *)
(***************************************************************************)

MagnitudeSquared(mv) == mv[1] * mv[1] + mv[2] * mv[2]
Sign(a) == IF a > 0 THEN 1 ELSE IF a < 0 THEN -1 ELSE 0
Abs(a) == IF a < 0 THEN -a ELSE a

\* The vector of the neighbour at <<s, t>> points along the way there or back.
Along(s, t, mv) == Abs(Sign(s * mv[1]) + Sign(t * mv[2])) = Abs(s) + Abs(t)

\* The two loops, from left to right and in each column downwards.
KernelDim == 2 * KernelRadius + 1
Offsets == [n \in 1 .. KernelDim * KernelDim |->
              <<((n - 1) \div KernelDim) - KernelRadius, ((n - 1) % KernelDim) - KernelRadius>>]

Neighbor(tile, cell, offset) == tile[<<cell[1] + offset[1], cell[2] + offset[2]>>]

\* What one round leaves of max_mv.
LargerOf(tile, cell, offset, max_mv) ==
    LET mv == Neighbor(tile, cell, offset)
        larger == MagnitudeSquared(max_mv) < MagnitudeSquared(mv)
    IN  IF larger /\ Along(offset[1], offset[2], mv) THEN mv ELSE max_mv

\* max_mv after so many rounds.
MaxMv(tile, cell) ==
    LET round == [p \in (1 .. Len(Offsets)) \X (Int \X Int) |->
                    LargerOf(tile, cell, Offsets[p[1]], p[2])]
        max_mv[n \in 0 .. Len(Offsets)] == IF n = 0 THEN Zero ELSE round[<<n, max_mv[n - 1]>>]
    IN  max_mv[Len(Offsets)]

\* What a thread writes behind the barrier. What it writes outside of a texture is lost.
Written(tex, block, mv) ==
    [b \in DOMAIN tex \cup ({block} \cap Blocks) |-> IF b = block THEN mv ELSE tex[b]]

Gtid(gi) == <<gi % BlockDim, gi \div BlockDim>>
Dtid(gi) == <<gid[1] * BlockDim + Gtid(gi)[1], gid[2] * BlockDim + Gtid(gi)[2]>>
Center(gi) == <<Gtid(gi)[1] + KernelRadius, Gtid(gi)[2] + KernelRadius>>

Write(gi) ==
    /\ PastBarrier(gi)
    /\ Dtid(gi) \in Blocks => Dtid(gi) \notin DOMAIN neighbor_max_tex
    /\ motion_vector_tex' = Written(motion_vector_tex, Dtid(gi), sh_mv_tile[Center(gi)])
    /\ neighbor_max_tex' = Written(neighbor_max_tex, Dtid(gi), MaxMv(sh_mv_tile, Center(gi)))
    /\ UNCHANGED <<grid, gid, raw, next, sh_mv_tile>>

GroupNext == \E gi \in Threads : Load(gi) \/ Write(gi)

GroupSpec == GroupInit /\ [][GroupNext]_group_vars

(***************************************************************************)
(* Properties                                                              *)
(***************************************************************************)

Within(block) == block[1] \div BlockDim = gid[1] /\ block[2] \div BlockDim = gid[2]

\* The tile gets vectors only, and the group writes its own blocks only.
GroupTypeOK ==
    /\ next \in [Threads -> 0 .. TileCells + BlockDim * BlockDim - 1]
    /\ DOMAIN sh_mv_tile = Tile
    /\ \A cell \in Tile : sh_mv_tile[cell] \in {Leftover, Zero} \cup {raw[c] : c \in DOMAIN raw}
    /\ DOMAIN motion_vector_tex \subseteq {block \in Blocks : Within(block)}
    /\ DOMAIN neighbor_max_tex = DOMAIN motion_vector_tex

\* A block gets the vector of its own place, whichever thread has loaded it.
OwnVector ==
    \A block \in DOMAIN motion_vector_tex : motion_vector_tex[block] = LoadVector(block)

\* The vectors that count for a block, on the whole texture as if there were no groups.
Neighbors(block) ==
    LET at(offset) == LoadVector(<<block[1] + offset[1], block[2] + offset[2]>>)
    IN  {at(Offsets[n]) : n \in {m \in DOMAIN Offsets : Along(Offsets[m][1], Offsets[m][2], at(Offsets[m]))}}

\* A block gets one of the largest of the vectors that count around it, its own included,
\* also where they belong to other groups.
LargestAlong ==
    \A block \in DOMAIN neighbor_max_tex :
        /\ neighbor_max_tex[block] \in Neighbors(block) \cup {Zero}
        /\ \A mv \in Neighbors(block) :
             MagnitudeSquared(mv) <= MagnitudeSquared(neighbor_max_tex[block])

\* The groups leave no seams, in whatever order their threads load and write.
NoSeams == GroupTypeOK /\ OwnVector /\ LargestAlong

\* Although some threads load a cell more than others and some have no block to write, nobody
\* is left at the barrier: until the group has written all its blocks, a thread can go on.
AllWritten == \A block \in Blocks : Within(block) => block \in DOMAIN neighbor_max_tex

GroupGoesOn ==
    AllWritten \/ \E gi \in Threads : ENABLED Load(gi) \/ ENABLED <<Write(gi)>>_group_vars

=============================================================================
