------------------------- MODULE GpuMemoryAllocator -------------------------
(***************************************************************************)
(* GpuMemoryAllocator (src/Source/Gpu/GpuMemoryAllocator.cpp): blocks of   *)
(* upload or readback memory cut from pages, freed blocks kept until the   *)
(* GPU has passed a fence value, and a page of its own for a block that is *)
(* too large. Each operation holds allocation_mutex_ throughout, so it is  *)
(* one step.                                                               *)
(***************************************************************************)
EXTENDS FreeList, FiniteSets

CONSTANTS
    SegmentSize,    \* what allocations are rounded up to (512)
    PageSize,       \* size of a page (2 MB)
    Sizes,          \* sizes of blocks that callers ask for
    Alignments,     \* alignments that callers ask for
    MaxPages,       \* bound on the pages
    MaxBlocks,      \* bound on the blocks that are held or stall
    FenceBound      \* bound on the fence values

ASSUME MemoryAssumption ==
    /\ SegmentSize \in Nat \ {0}
    /\ PageSize \in Nat \ {0} /\ PageSize % SegmentSize = 0
    /\ Sizes \subseteq Nat \ {0}
    /\ Alignments \subseteq {a \in 1 .. SegmentSize : SegmentSize % a = 0}
    /\ MaxPages \in Nat /\ FenceBound \in Nat \ {0}

VARIABLES
    pages,          \* pages_: per page its free and its stalled ranges
    large_pages,    \* large_pages_: how many there are
    blocks,         \* the blocks that callers hold
    signal_value,   \* the value that the next submission signals
    completed       \* the value that the fence has reached

memory_vars == <<pages, large_pages, blocks, signal_value, completed>>

RoundUp(n, unit) == ((n + unit - 1) \div unit) * unit
RoundDown(n, unit) == (n \div unit) * unit

NoPage == 0
Block(page, offset, size) == [page |-> page, offset |-> offset, size |-> size]

Init ==
    /\ pages = <<>>
    /\ large_pages = 0
    /\ blocks = {}
    /\ signal_value = 1
    /\ completed = 0

AlignedToAlignmentOnly(size_in_bytes, alignment) == RoundUp(size_in_bytes, alignment)

AlignedSize(size_in_bytes, alignment) ==
    RoundUp(RoundUp(size_in_bytes, alignment), SegmentSize)

\* Where Allocate puts a block, given the pages ps: a page of its own if it is too large,
\* the first page whose free list the search finds room in, or a new page. The block
\* starts at the front of a free range, which shrinks by the aligned size.
Placement(ps, size_in_bytes, alignment) ==
    LET aligned_size == AlignedSize(size_in_bytes, alignment)
        fitting == {p \in DOMAIN ps : HasRoom(ps[p].free, aligned_size)}
        p == Min(fitting)
        n == RoomFor(ps[p].free, aligned_size)
    IN  CASE aligned_size > PageSize ->
               [pages |-> ps, large_pages |-> large_pages + 1,
                block |-> Block(NoPage, 0, size_in_bytes)]
          [] aligned_size <= PageSize /\ fitting # {} ->
               [pages |-> [ps EXCEPT ![p].free = TakeFrom(@, n, aligned_size)],
                large_pages |-> large_pages,
                block |-> Block(p, RoundUp(ps[p].free[n].first, alignment), size_in_bytes)]
          [] OTHER ->
               [pages |-> Append(ps, NewPage(<<Span(aligned_size, PageSize)>>)),
                large_pages |-> large_pages,
                block |-> Block(Len(ps) + 1, 0, size_in_bytes)]

Place(placement, others) ==
    /\ Len(placement.pages) <= MaxPages
    /\ placement.large_pages <= MaxPages
    /\ pages' = placement.pages
    /\ large_pages' = placement.large_pages
    /\ blocks' = others \cup {placement.block}
    /\ UNCHANGED <<signal_value, completed>>

Stalled == SumFunction([p \in DOMAIN pages |-> Len(pages[p].stall)])

Allocate(size_in_bytes, alignment) ==
    /\ Cardinality(blocks) + Stalled < MaxBlocks
    /\ Place(Placement(pages, size_in_bytes, alignment), blocks)

\* The range that a block occupies, computed back from its offset and its size.
Occupied(block) ==
    LET offset == RoundDown(block.offset, SegmentSize)
    IN  Span(offset, offset + RoundUp(block.offset + block.size - offset, SegmentSize))

\* A block goes onto the stall list of its page, with the value that GpuSystem signals
\* next. A large one stays where it is.
Released(block) ==
    IF block.size <= PageSize
      THEN [pages EXCEPT ![block.page] = Stall(@, Occupied(block), signal_value)]
      ELSE pages

Deallocate(block) ==
    /\ pages' = Released(block)
    /\ blocks' = blocks \ {block}
    /\ UNCHANGED <<large_pages, signal_value, completed>>

\* Both under one lock; the old block's range only stalls, so the new one is elsewhere.
Reallocate(block, size_in_bytes, alignment) ==
    /\ Cardinality(blocks) + Stalled < MaxBlocks
    /\ Place(Placement(Released(block), size_in_bytes, alignment), blocks \ {block})

\* All that stalls until fence_value is free again; all large pages are released.
ClearStallPages(fence_value) ==
    /\ pages' = [p \in DOMAIN pages |-> ClearStalls(pages[p], fence_value)]
    /\ large_pages' = 0
    /\ UNCHANGED <<blocks, signal_value, completed>>

\* The blocks go with the pages: a block freed after this would reach the
\* GO_MOTION_UNREACHABLE of Deallocate.
Clear ==
    /\ pages' = <<>>
    /\ large_pages' = 0
    /\ blocks' = {}
    /\ UNCHANGED <<signal_value, completed>>

\* GpuSystem signals the value, and the GPU gets there.
Submit ==
    /\ signal_value < FenceBound
    /\ signal_value' = signal_value + 1
    /\ UNCHANGED <<pages, large_pages, blocks, completed>>

Complete ==
    /\ completed < signal_value - 1
    /\ completed' = completed + 1
    /\ UNCHANGED <<pages, large_pages, blocks, signal_value>>

Next ==
    \/ \E size \in Sizes, alignment \in Alignments : Allocate(size, alignment)
    \/ \E block \in blocks : Deallocate(block)
    \/ \E block \in blocks, size \in Sizes, alignment \in Alignments :
         Reallocate(block, size, alignment)
    \/ ClearStallPages(completed)
    \/ Clear
    \/ Submit
    \/ Complete

Spec == Init /\ [][Next]_memory_vars

(***************************************************************************)
(* Properties                                                              *)
(***************************************************************************)

Ranges == [first : 0 .. PageSize, last : 0 .. PageSize]

TypeOK ==
    /\ pages \in Seq([free : Seq(Ranges), stall : Seq([range : Ranges, fence_value : Nat])])
    /\ large_pages \in 0 .. MaxPages
    /\ blocks \subseteq [page : 0 .. MaxPages, offset : 0 .. PageSize, size : Sizes]
    /\ signal_value \in 1 .. FenceBound
    /\ completed \in Nat

BlocksOf(p) == {block \in blocks : block.page = p}
LiveUnits(p) == UNION {Units(Occupied(block)) : block \in BlocksOf(p)}
Disjoint(S, T) == S \cap T = {}

\* Each byte of a page is in one block, or stalls, or is free, and never two of these:
\* no two blocks overlap, no byte is lost, no block leaves its page, and the range that
\* Deallocate computes back from a block is the range that Allocate took for it.
PagePartition ==
    /\ TypeOK
    /\ \A p \in DOMAIN pages :
        /\ LiveUnits(p) \cup StalledUnits(pages[p]) \cup FreeUnits(pages[p]) = 0 .. PageSize - 1
        /\ Disjoint(LiveUnits(p), StalledUnits(pages[p]) \cup FreeUnits(pages[p]))
        /\ Disjoint(StalledUnits(pages[p]), FreeUnits(pages[p]))
        /\ \A b, c \in BlocksOf(p) : b # c => Disjoint(Units(Occupied(b)), Units(Occupied(c)))

\* Whatever the order in which blocks come back, free neighbours are always one range,
\* so a page in which nothing lives or stalls is one range again.
FreeListsCoalesced == \A p \in DOMAIN pages : Coalesced(pages[p].free)

\* Memory that a list may still read, because the fence has not reached the value it was
\* freed with, is given to nobody.
StalledUntilCompleted ==
    [][\A p \in DOMAIN pages : \A n \in DOMAIN pages[p].stall :
         pages[p].stall[n].fence_value > completed /\ pages' # <<>> =>
            Units(pages[p].stall[n].range) \subseteq StalledUnits(pages'[p])]_memory_vars

=============================================================================
