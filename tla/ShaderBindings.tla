--------------------------- MODULE ShaderBindings ---------------------------
(***************************************************************************)
(* How the compute shaders of MotionBlurGenerator find their textures.     *)
(* Each shader has a block of descriptors with a part for each slot.       *)
(* RunComputeShader writes the views of a dispatch into the part of the    *)
(* current slot while the GPU may still read other parts, and binds two    *)
(* tables of it: the views the shader reads and those it writes.           *)
(***************************************************************************)
EXTENDS MotionToGo

Free == INSTANCE FreeList

CONSTANT HeapSize       \* descriptors in the heap that the blocks come from

\* It has room for all of them: 16 views for each slot, in a heap of 32 * 1024.
ASSUME BindingAssumption == HeapSize \in Nat /\ 16 * FrameCount <= HeapSize

VARIABLE descriptors    \* the view in each place of the heap

NoView == [tex |-> "none", slot |-> 0, plane |-> 0]

(***************************************************************************)
(* What the generator's functions pass: per shader the textures it reads   *)
(* and those it writes, with their subresources. Only one texture has no   *)
(* slot, the table of random numbers.                                      *)
(***************************************************************************)

\* A view that is read is of the whole texture unless it names a subresource; one that is
\* written is of subresource 0.
AllSubResources == -1

Part(name, sub_resource) == [tex |-> name, sub_resource |-> sub_resource]
Whole(name) == Part(name, AllSubResources)

Srvs(shader) ==
    CASE shader = "to_nv12"   -> <<Whole("rgb")>>
      [] shader = "to_rgb"    -> <<Part("nv12", 0), Part("nv12", 1)>>
      [] shader = "propagate" -> <<Whole("raw_mv")>>
      [] shader = "gather"    -> <<Whole("rgb"), Whole("mv"), Whole("neighbor_max"), Whole("random")>>
      [] shader = "overlay"   -> <<Whole("mv")>>

Uavs(shader) ==
    CASE shader = "to_nv12"   -> <<Part("scaled", 0), Part("scaled", 1)>>
      [] shader = "to_rgb"    -> <<Part("rgb", 0)>>
      [] shader = "propagate" -> <<Part("mv", 0), Part("neighbor_max", 0)>>
      [] shader = "gather"    -> <<Part("blurred", 0)>>
      [] shader = "overlay"   -> <<Part("blurred", 0)>>

\* The shaders, with num_srvs and num_uavs.
ShaderSet == {"to_nv12", "to_rgb", "propagate", "gather", "overlay"}
NumSrvs == [shader \in ShaderSet |->
              CASE shader = "to_rgb" -> 2 [] shader = "gather" -> 4 [] OTHER -> 1]
NumUavs == [shader \in ShaderSet |-> IF shader \in {"to_nv12", "propagate"} THEN 2 ELSE 1]

(***************************************************************************)
(* CreateComputeShader's blocks, cut from the heap one after the other.    *)
(***************************************************************************)

BlockSize(shader) == (NumSrvs[shader] + NumUavs[shader]) * FrameCount

CreateComputeShader(made, shader) ==
    LET n == Free!RoomFor(made.free, BlockSize(shader))
    IN  [free |-> Free!TakeFrom(made.free, n, BlockSize(shader)),
         desc_block |-> [made.desc_block EXCEPT ![shader] = made.free[n].first]]

\* The constructor's order.
Constructed ==
    LET heap == [free |-> <<Free!Span(0, HeapSize)>>,
                 desc_block |-> [shader \in ShaderSet |-> HeapSize]]
        with_to_nv12 == CreateComputeShader(heap, "to_nv12")
        with_to_rgb == CreateComputeShader(with_to_nv12, "to_rgb")
        with_propagate == CreateComputeShader(with_to_rgb, "propagate")
        with_gather == CreateComputeShader(with_propagate, "gather")
    IN  CreateComputeShader(with_gather, "overlay")

DescBlock == Constructed.desc_block

(***************************************************************************)
(* RunComputeShader                                                        *)
(***************************************************************************)

TableOfAllSlots(shader, slot) == DescBlock[shader]

\* Where the part of a slot starts: first the views that are read, then the others.
SrvTable(shader, slot) == DescBlock[shader] + (NumSrvs[shader] + NumUavs[shader]) * slot
UavTable(shader, slot) == SrvTable(shader, slot) + NumSrvs[shader]

Place(shader, slot) ==
    SrvTable(shader, slot) .. SrvTable(shader, slot) + NumSrvs[shader] + NumUavs[shader] - 1

\* SubResourceToMipLevelPlane, for the one mip level of every texture.
MipLevels == 1
PlaneOf(sub_resource) == sub_resource \div MipLevels

View(name, slot, p) ==
    [tex |-> name, slot |-> IF name = "random" THEN 0 ELSE slot, plane |-> p]

ShaderResourceView(helper, slot) ==
    View(helper.tex, slot,
         IF helper.sub_resource = AllSubResources THEN 0 ELSE PlaneOf(helper.sub_resource))
UnorderedAccessView(helper, slot) == View(helper.tex, slot, PlaneOf(helper.sub_resource))

WithViews(shader, slot) ==
    LET srv(d) == d - SrvTable(shader, slot) + 1
        uav(d) == d - UavTable(shader, slot) + 1
        written == [d \in Place(shader, slot) |->
                      IF d < UavTable(shader, slot) THEN ShaderResourceView(Srvs(shader)[srv(d)], slot)
                        ELSE UnorderedAccessView(Uavs(shader)[uav(d)], slot)]
    IN  [d \in DOMAIN descriptors |-> IF d \in DOMAIN written THEN written[d] ELSE descriptors[d]]

BindingInit == descriptors = [d \in 0 .. HeapSize - 1 |-> NoView]

\* RunComputeShader writes the views and then makes its list.
WritesViews ==
    /\ pc \in ShaderSet
    /\ open[Compute] = Gpu!NoSlot
    /\ open'[Compute] # Gpu!NoSlot

RunComputeShader ==
    /\ WritesViews
    /\ descriptors' = WithViews(pc, Slot)

\* What a step of the program does to the heap.
BindingStep == RunComputeShader \/ (~WritesViews /\ UNCHANGED descriptors)

(***************************************************************************)
(* The shaders, by the registers that their HLSL files declare.            *)
(***************************************************************************)

Luma(name) == [tex |-> name, plane |-> 0]
Chroma(name) == [tex |-> name, plane |-> 1]
Texel(name) == [tex |-> name, plane |-> 0]

\* t0, t1, ... and u0, u1, ...
Registers(shader) ==
    CASE shader = "to_nv12"   -> [t |-> <<Texel("rgb")>>, u |-> <<Luma("scaled"), Chroma("scaled")>>]
      [] shader = "to_rgb"    -> [t |-> <<Luma("nv12"), Chroma("nv12")>>, u |-> <<Texel("rgb")>>]
      [] shader = "propagate" -> [t |-> <<Texel("raw_mv")>>, u |-> <<Texel("mv"), Texel("neighbor_max")>>]
      [] shader = "gather"    -> [t |-> <<Texel("rgb"), Texel("mv"), Texel("neighbor_max"), Texel("random")>>,
                                  u |-> <<Texel("blurred")>>]
      [] shader = "overlay"   -> [t |-> <<Texel("mv")>>, u |-> <<Texel("blurred")>>]

(***************************************************************************)
(* Properties                                                              *)
(***************************************************************************)

Dispatches == {n \in DOMAIN queue[Compute] :
                 /\ queue[Compute][n].kind = "exec"
                 /\ queue[Compute][n].job # NoJob
                 /\ queue[Compute][n].job.op \in ShaderSet}

Finds(table, registers, slot) ==
    \A n \in DOMAIN registers :
        LET view == descriptors[table + n - 1]
        IN  /\ view.tex = registers[n].tex
            /\ view.plane = registers[n].plane
            /\ view.slot = IF view.tex = "random" THEN 0 ELSE slot

\* When the GPU reaches a dispatch, every register of the shader names the texture, the
\* plane and the slot that the pass is about, however many frames the CPU has recorded
\* since and whichever shaders it has bound.
ShadersFindTheirTextures ==
    \A n \in Dispatches :
        LET job == queue[Compute][n].job
        IN  n = 1 => /\ Finds(SrvTable(job.op, job.slot), Registers(job.op).t, job.slot)
                     /\ Finds(UavTable(job.op, job.slot), Registers(job.op).u, job.slot)

=============================================================================
