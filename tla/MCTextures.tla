----------------------------- MODULE MCTextures -----------------------------
(***************************************************************************)
(* Textures for TLC: their states, the bytes that are copied, and the      *)
(* shader whose groups of threads work on them together. A behaviour is    *)
(* one of these parts, and the variables of the others stay as they are.   *)
(***************************************************************************)
EXTENDS GpuTexture2D, TextureCopy, NeighborMax

VARIABLE part

\* Pictures of one to three rows, narrower and wider than the alignment.
SmallShapes == [width : 1 .. 9, height : 1 .. 3]

\* One texture of four groups, none of which is full on all sides, and a finer one of the
\* estimator, with vectors on both sides of the seams: along the axes, off them and none in
\* turn. Those at its edge, which no block may get, are larger than all others.
SmallGrids == {[width |-> 5, height |-> 5, raw_width |-> 6, raw_height |-> 6]}
Edge == <<9, 9>>
InTurn == <<<<0, 0>>, <<2, 0>>, <<1, -2>>>>
Fields(g) ==
    LET inside == (1 .. g.raw_width - 2) \X (1 .. g.raw_height - 2)
    IN  {[c \in RawCells(g) |-> IF c \in inside THEN InTurn[((c[1] + 2 * c[2]) % 3) + 1] ELSE Edge]}

\* What the parts that stay as they are begin with.
OneShape == shape = [width |-> 1, height |-> 1] /\ offset = 0
OneGroup == gid = <<0, 0>>

\* The first group, with a margin outside of the texture, and the last, which is not full: they
\* have seams on opposite sides, and the two others are like them in one direction each.
OppositeGroups == gid[1] = gid[2]

TexturesInit ==
    /\ part \in {"states", "bytes", "group"}
    /\ Init
    /\ CopyInit /\ (part # "bytes" => OneShape)
    /\ GroupInit /\ (part # "group" => OneGroup) /\ OppositeGroups

TexturesNext ==
    \/ part = "states" /\ Next /\ UNCHANGED <<part, copy_vars, group_vars>>
    \/ part = "bytes" /\ CopyNext /\ UNCHANGED <<part, vars, group_vars>>
    \/ part = "group" /\ GroupNext /\ UNCHANGED <<part, vars, copy_vars>>

TexturesSpec == TexturesInit /\ [][TexturesNext]_<<part, vars, copy_vars, group_vars>>
=============================================================================
