----------------------- MODULE GpuDescriptorAllocator -----------------------
(***************************************************************************)
(* GpuDescriptorAllocator (src/Source/Gpu/GpuDescriptorAllocator.cpp) for  *)
(* one type of descriptors: blocks of descriptors cut from heaps of one    *)
(* size. Its lists are those of GpuMemoryAllocator, but a block occupies   *)
(* just what was asked for and there are no large pages. The offsets are   *)
(* 16 bits wide, and the heaps have at most 32 K descriptors, so no sum of *)
(* two of them overflows.                                                  *)
(***************************************************************************)
EXTENDS FreeList, FiniteSets

CONSTANTS
    PageSize,       \* descriptors in a heap (DescriptorPageSize[type_])
    Sizes,          \* sizes of blocks that callers ask for
    MaxPages,       \* bound on the heaps
    MaxBlocks,      \* bound on the blocks that are held or stall
    FenceBound      \* bound on the fence values

\* Allocate asserts that a block fits into a heap.
ASSUME DescriptorAssumption ==
    /\ PageSize \in 1 .. 32 * 1024
    /\ Sizes \subseteq 1 .. PageSize
    /\ MaxPages \in Nat /\ FenceBound \in Nat \ {0}

VARIABLES
    pages,          \* pages_: per heap its free and its stalled ranges
    blocks,         \* the blocks that callers hold
    signal_value,   \* the value that the next submission signals
    completed,      \* the value that the fence has reached
    named           \* history: descriptors given back, which lists on their way still name

descriptor_vars == <<pages, blocks, signal_value, completed, named>>

Block(page, offset, size) == [page |-> page, offset |-> offset, size |-> size]

Occupied(block) == Span(block.offset, block.offset + block.size)

Init ==
    /\ pages = <<>>
    /\ blocks = {}
    /\ signal_value = 1
    /\ completed = 0
    /\ named = {}

\* The first heap whose free list the search finds room in, or a new heap.
Placement(ps, size) ==
    LET fitting == {p \in DOMAIN ps : HasRoom(ps[p].free, size)}
        p == Min(fitting)
        n == RoomFor(ps[p].free, size)
    IN  IF fitting # {}
          THEN [pages |-> [ps EXCEPT ![p].free = TakeFrom(@, n, size)],
                block |-> Block(p, ps[p].free[n].first, size)]
          ELSE [pages |-> Append(ps, NewPage(<<Span(size, PageSize)>>)),
                block |-> Block(Len(ps) + 1, 0, size)]

Place(placement, others) ==
    /\ Len(placement.pages) <= MaxPages
    /\ pages' = placement.pages
    /\ blocks' = others \cup {placement.block}
    /\ UNCHANGED <<signal_value, completed>>

\* Lists may be recorded with a block until it is given back. The last of them is the list
\* that is being recorded, which the value signalled next stands for. No guard reads this.
GivenBack(block) ==
    named' = named \cup {[page |-> block.page, range |-> Occupied(block), fence_value |-> signal_value]}

Stalled == SumFunction([p \in DOMAIN pages |-> Len(pages[p].stall)])

Allocate(size) ==
    /\ Cardinality(blocks) + Stalled < MaxBlocks
    /\ Place(Placement(pages, size), blocks)
    /\ UNCHANGED named

\* A block goes onto the stall list of its heap, with the value that GpuSystem signals
\* next.
Released(block) ==
    [pages EXCEPT ![block.page] = Stall(@, Occupied(block), signal_value)]

Deallocate(block) ==
    /\ pages' = Released(block)
    /\ blocks' = blocks \ {block}
    /\ GivenBack(block)
    /\ UNCHANGED <<signal_value, completed>>

Reallocate(block, size) ==
    /\ Cardinality(blocks) + Stalled < MaxBlocks
    /\ Place(Placement(Released(block), size), blocks \ {block})
    /\ GivenBack(block)

ClearStallPages(fence_value) ==
    /\ pages' = [p \in DOMAIN pages |-> ClearStalls(pages[p], fence_value)]
    /\ UNCHANGED <<blocks, signal_value, completed, named>>

\* When the device is lost. The blocks and the lists go with the heaps: a block freed after
\* this would reach the GO_MOTION_UNREACHABLE of Deallocate.
Clear ==
    /\ pages' = <<>>
    /\ blocks' = {}
    /\ named' = {}
    /\ UNCHANGED <<signal_value, completed>>

\* GpuSystem signals the value, and the GPU gets there.
Submit ==
    /\ signal_value < FenceBound
    /\ signal_value' = signal_value + 1
    /\ UNCHANGED <<pages, blocks, completed, named>>

Complete ==
    /\ completed < signal_value - 1
    /\ completed' = completed + 1
    /\ named' = {n \in named : n.fence_value > completed'}
    /\ UNCHANGED <<pages, blocks, signal_value>>

Next ==
    \/ \E size \in Sizes : Allocate(size)
    \/ \E block \in blocks : Deallocate(block)
    \/ \E block \in blocks, size \in Sizes : Reallocate(block, size)
    \/ ClearStallPages(completed)
    \/ Clear
    \/ Submit
    \/ Complete

Spec == Init /\ [][Next]_descriptor_vars

(***************************************************************************)
(* Properties                                                              *)
(***************************************************************************)

Ranges == [first : 0 .. PageSize, last : 0 .. PageSize]

TypeOK ==
    /\ pages \in Seq([free : Seq(Ranges), stall : Seq([range : Ranges, fence_value : Nat])])
    /\ blocks \subseteq [page : 1 .. MaxPages, offset : 0 .. PageSize, size : Sizes]
    /\ signal_value \in 1 .. FenceBound
    /\ completed \in Nat

BlocksOf(p) == {block \in blocks : block.page = p}
LiveUnits(p) == UNION {Units(Occupied(block)) : block \in BlocksOf(p)}
Disjoint(S, T) == S \cap T = {}

\* Each descriptor of a heap is in one block, or stalls, or is free, and never two of
\* these: the tables of two shaders never overlap and no descriptor is lost.
HeapPartition ==
    /\ TypeOK
    /\ \A p \in DOMAIN pages :
        /\ LiveUnits(p) \cup StalledUnits(pages[p]) \cup FreeUnits(pages[p]) = 0 .. PageSize - 1
        /\ Disjoint(LiveUnits(p), StalledUnits(pages[p]) \cup FreeUnits(pages[p]))
        /\ Disjoint(StalledUnits(pages[p]), FreeUnits(pages[p]))
        /\ \A b, c \in BlocksOf(p) : b # c => Disjoint(Units(Occupied(b)), Units(Occupied(c)))

\* As long as a list on its way may name the descriptors of a block that was given back,
\* they are neither free nor in another block, whatever else is freed, asked for in another
\* size, or given back to the free lists meanwhile.
DescriptorsStayPut ==
    \A n \in named :
        Disjoint(Units(n.range), FreeUnits(pages[n.page]) \cup LiveUnits(n.page))

=============================================================================
