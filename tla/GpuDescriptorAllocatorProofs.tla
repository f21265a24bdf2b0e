-------------------- MODULE GpuDescriptorAllocatorProofs --------------------
(***************************************************************************)
(* What GpuDescriptorAllocator keeps, proved for heaps of every size: each *)
(* descriptor is in one block, or stalls, or is free, and those of a block *)
(* that is given back stall as long as a list on its way may name them.    *)
(***************************************************************************)
EXTENDS GpuDescriptorAllocator, FreeListProofs, TLAPS

\* A range may end after any descriptor.
Places == 0 .. PageSize

Blocks == [page : 1 .. MaxPages, offset : 0 .. PageSize, size : Sizes]
RangeOfBlock == [block \in Blocks |-> Occupied(block)]

\* The heaps ps are divided between the blocks bs, and each block is on a heap.
Whole(ps, bs) ==
    /\ Partitioned(ps, bs, RangeOfBlock, Places, PageSize)
    /\ Len(ps) <= MaxPages
    /\ bs \subseteq Blocks
    /\ \A block \in bs : block.page \in 1 .. Len(ps)

\* What lists on their way name, and is given back, waits for them on the heaps ps: on a
\* stall list, with a value that the fence has not reached.
NamedRanges == [page : 1 .. MaxPages, range : Spans(Places), fence_value : Nat]
Entry(n) == [range |-> n.range, fence_value |-> n.fence_value]
Awaited(ps, ns) ==
    \A n \in ns : n.page \in 1 .. Len(ps) /\ Waits(PageAt(ps, n.page), Entry(n))

\* The inductive invariant.
NamedInv ==
    /\ named \subseteq NamedRanges
    /\ Awaited(pages, named)
    /\ \A n \in named : n.fence_value > completed

IInv ==
    /\ Whole(pages, blocks)
    /\ signal_value \in 1 .. FenceBound
    /\ completed \in Nat

(***************************************************************************)
(* The parts of a step                                                     *)
(***************************************************************************)

\* Ranges of a heap begin and end anywhere in it.
LEMMA HeapPlaces ==
    /\ Ends(Places, PageSize)
    /\ 0 \in Places /\ PageSize \in Places
    /\ \A size \in Sizes : size \in Nat \ {0} /\ size \in Places /\ Steps(Places, PageSize, size)
    /\ MaxPages \in Nat /\ FenceBound \in Nat \ {0}
BY DescriptorAssumption DEF Ends, Places, Steps

\* The range of a block.
LEMMA BlockRange ==
    ASSUME NEW page \in 1 .. MaxPages, NEW offset \in 0 .. PageSize, NEW size \in Sizes
    PROVE  /\ Block(page, offset, size) \in Blocks
           /\ Block(page, offset, size).page = page
           /\ RangeOf(RangeOfBlock, Block(page, offset, size)) = Span(offset, offset + size)
<1>1. /\ Block(page, offset, size) \in Blocks
      /\ Block(page, offset, size).page = page
      /\ Block(page, offset, size).offset = offset
      /\ Block(page, offset, size).size = size
  BY DEF Block, Blocks
<1> QED
  BY <1>1, Zenon DEF RangeOf, RangeOfBlock, Occupied

\* A block is placed where none is, and nothing that stalls moves.
LEMMA PlacementWhole ==
    ASSUME NEW ps, NEW bs, Whole(ps, bs), NEW size \in Sizes,
           Len(Placement(ps, size).pages) <= MaxPages
    PROVE  /\ Whole(Placement(ps, size).pages, Plus(bs, Placement(ps, size).block))
           /\ KeepsStalled(ps, Placement(ps, size).pages)
           /\ KeepsWaiting(ps, Placement(ps, size).pages)
           /\ Len(ps) <= Len(Placement(ps, size).pages)
<1> DEFINE fitting == {p \in DOMAIN ps : HasRoom(ps[p].free, size)}
           p == Min(fitting)
           placed == Placement(ps, size).pages
           block == Placement(ps, size).block
<1>1. Partitioned(ps, bs, RangeOfBlock, Places, PageSize)
  BY DEF Whole
<1>2. Len(ps) \in Nat /\ DOMAIN ps = 1 .. Len(ps)
  <2>1. ps \in Seq(Pages(Places))
    BY <1>1 DEF Partitioned
  <2> QED
    BY <2>1, LenProperties
<1>3. /\ Partitioned(placed, Plus(bs, block), RangeOfBlock, Places, PageSize)
      /\ Len(placed) \in Nat /\ Len(ps) <= Len(placed)
      /\ KeepsStalled(ps, placed)
      /\ KeepsWaiting(ps, placed)
      /\ block \in Blocks /\ block.page \in 1 .. Len(placed)
  <2>1. CASE fitting # {}
    <3>1. placed = [ps EXCEPT ![p].free = TakeFrom(@, RoomFor(ps[p].free, size), size)]
          /\ block = Block(p, ps[p].free[RoomFor(ps[p].free, size)].first, size)
      BY <2>1, Zenon DEF Placement
    <3>2. placed = Replaced(ps, p, Cut(PageAt(ps, p), size)) /\ block = Block(p, CutAt(PageAt(ps, p), size), size)
      BY <3>1, Zenon DEF Replaced, Cut, CutAt, PageAt
    <3>3. p \in fitting
      <4> HIDE DEF fitting
      <4>1. fitting \subseteq Nat
        BY <1>2 DEF fitting
      <4> QED
        BY <2>1, <4>1, MinChooses
    <3>4. p \in 1 .. Len(ps) /\ HasRoom(PageAt(ps, p).free, size)
      BY <1>2, <3>3 DEF PageAt
    <3> HIDE DEF placed, block, p, fitting
    <3>5. CutAt(PageAt(ps, p), size) \in 0 .. PageSize
      <4>1. Sound(PageAt(ps, p), Places, PageSize)
        BY <1>1, <3>4 DEF Partitioned, Divided
      <4> QED
        BY <3>4, <4>1, HeapPlaces, TakeSound DEF CutAt, Steps, Places
    <3>6. p \in 1 .. MaxPages
      BY <1>2, <3>4, HeapPlaces DEF Whole
    <3>7. block \in Blocks /\ block.page = p /\
          RangeOf(RangeOfBlock, block) = Span(CutAt(PageAt(ps, p), size), CutAt(PageAt(ps, p), size) + size)
      BY <3>2, <3>5, <3>6, BlockRange
    <3>8. /\ Partitioned(placed, Plus(bs, block), RangeOfBlock, Places, PageSize)
          /\ Len(placed) = Len(ps)
          /\ KeepsStalled(ps, placed)
      BY <1>1, <3>2, <3>4, <3>7, HeapPlaces, PartitionedPut
    <3>9. KeepsWaiting(ps, placed)
      <4>1. ps \in Seq(Pages(Places)) /\ PageAt(ps, p) \in Pages(Places)
        BY <1>1, <3>4 DEF Partitioned, PageAt
      <4>2. Cut(PageAt(ps, p), size).stall = PageAt(ps, p).stall
        BY <4>1 DEF Cut, Pages
      <4>3. \A s : Waits(PageAt(ps, p), s) => Waits(Cut(PageAt(ps, p), size), s)
        BY <4>2, Zenon DEF Waits
      <4> QED
        BY <3>2, <3>4, <4>1, <4>3, OnePageWaits
    <3> QED
      BY <1>2, <3>4, <3>7, <3>8, <3>9
  <2>2. CASE fitting = {}
    <3>1. placed = Appended(ps, FrontTaken(size, PageSize)) /\ block = Block(Len(ps) + 1, 0, size)
      BY <2>2, Zenon DEF Placement, FrontTaken, Appended
    <3> HIDE DEF placed, block
    <3>2. NoneOn(bs, Len(ps) + 1)
      BY <1>2 DEF OnPage, NoneOn, Whole
    <3>3. Len(ps) + 1 \in 1 .. MaxPages /\ 0 \in 0 .. PageSize
      <4>1. Len(placed) = Len(ps) + 1
        <5>1. ps \in Seq(Pages(Places)) /\ FrontTaken(size, PageSize) \in Pages(Places)
          <6>1. Ordered(<<Span(size, PageSize)>>, Places, PageSize)
            BY HeapPlaces, OneRange
          <6> QED
            BY <1>1, <6>1, HeapPlaces, NewPageSound DEF Partitioned, Sound, FrontTaken
        <5> QED
          BY <3>1, <5>1, AppendProperties DEF Appended
      <4>2. Len(placed) <= MaxPages
        BY DEF placed
      <4> QED
        BY <1>2, <4>1, <4>2, HeapPlaces DEF Places
    <3>4. block \in Blocks /\ block.page = Len(ps) + 1 /\ RangeOf(RangeOfBlock, block) = Span(0, 0 + size)
      BY <3>1, <3>3, BlockRange
    <3>5. 0 + size = size
      BY HeapPlaces
    <3>6. /\ Partitioned(placed, Plus(bs, block), RangeOfBlock, Places, PageSize)
          /\ Len(placed) = Len(ps) + 1
          /\ KeepsStalled(ps, placed)
      BY <1>1, <3>1, <3>2, <3>4, <3>5, HeapPlaces, PartitionedNew
    <3>7. KeepsWaiting(ps, placed)
      <4>1. ps \in Seq(Pages(Places))
        BY <1>1 DEF Partitioned
      <4>2. \A q \in 1 .. Len(ps) : PageAt(placed, q) = PageAt(ps, q)
        BY <3>1, <4>1 DEF Appended, PageAt
      <4> QED
        BY <4>2, Zenon DEF KeepsWaiting
    <3> QED
      BY <1>2, <3>4, <3>6, <3>7
  <2> QED
    BY <2>1, <2>2
<1> HIDE DEF placed, block
<1>4. Plus(bs, block) \subseteq Blocks /\ \A b \in Plus(bs, block) : b.page \in 1 .. Len(placed)
  BY <1>2, <1>3 DEF Whole, Plus
<1>5. Len(placed) <= MaxPages
  BY DEF placed
<1>6. Whole(placed, Plus(bs, block))
  BY <1>3, <1>4, <1>5 DEF Whole
<1> QED
  BY <1>3, <1>6 DEF placed, block

\* A block that is released stalls.
LEMMA ReleasedWhole ==
    ASSUME IInv, NEW block \in blocks
    PROVE  /\ Whole(Released(block), Minus(blocks, block))
           /\ KeepsStalled(pages, Released(block))
           /\ KeepsWaiting(pages, Released(block))
           /\ Len(Released(block)) = Len(pages)
           /\ Waits(PageAt(Released(block), block.page),
                    [range |-> Occupied(block), fence_value |-> signal_value])
           /\ block.page \in 1 .. Len(pages) /\ Occupied(block) \in Spans(Places)
<1>1. /\ Partitioned(pages, blocks, RangeOfBlock, Places, PageSize)
      /\ block.page \in 1 .. Len(pages) /\ block \in Blocks
      /\ signal_value \in Nat
  BY HeapPlaces DEF IInv, Whole
<1>2. RangeOfBlock[block] = Occupied(block)
  BY <1>1, Zenon DEF RangeOfBlock
<1>3. Released(block) = Replaced(pages, block.page, Freed(PageAt(pages, block.page), RangeOfBlock, block, signal_value))
  BY <1>2, Zenon DEF Released, Replaced, Freed, PageAt
<1>4. Occupied(block) \in Spans(Places)
  <2>1. Divided(PageAt(pages, block.page), OnPage(blocks, block.page), RangeOfBlock, Places, PageSize)
    BY <1>1 DEF Partitioned
  <2> QED
    BY <1>2, <2>1 DEF Divided, OnPage
<1> DEFINE p == block.page
<1> HIDE DEF p
<1>5. /\ Partitioned(Released(block), Minus(blocks, block), RangeOfBlock, Places, PageSize)
      /\ Len(Released(block)) = Len(pages)
      /\ KeepsStalled(pages, Released(block))
  <2>1. p \in 1 .. Len(pages) /\ block.page = p
        /\ Released(block) = Replaced(pages, p, Freed(PageAt(pages, p), RangeOfBlock, block, signal_value))
    BY <1>1, <1>3 DEF p
  <2> QED
    BY <1>1, <2>1, HeapPlaces, PartitionedRelease
<1>6. Whole(Released(block), Minus(blocks, block))
  BY <1>5 DEF IInv, Whole, Minus
<1>7. /\ KeepsWaiting(pages, Released(block))
      /\ Waits(PageAt(Released(block), block.page), [range |-> Occupied(block), fence_value |-> signal_value])
  <2> DEFINE range == Occupied(block)
             before == PageAt(pages, p)
  <2>1. pages \in Seq(Pages(Places)) /\ p \in 1 .. Len(pages) /\ before \in Pages(Places)
    BY <1>1 DEF Partitioned, PageAt, p
  <2>2. Freed(before, RangeOfBlock, block, signal_value) = Stall(before, range, signal_value)
    BY <1>2 DEF Freed
  <2> HIDE DEF range, before
  <2>3. /\ \A s : Waits(before, s) => Waits(Stall(before, range, signal_value), s)
        /\ Waits(Stall(before, range, signal_value), [range |-> range, fence_value |-> signal_value])
    BY <1>1, <1>4, <2>1, StallWaits DEF range
  <2>4. Released(block) = Replaced(pages, p, Stall(before, range, signal_value))
    BY <1>3, <2>2 DEF p, before
  <2> QED
    BY <2>1, <2>3, <2>4, OnePageWaits DEF before, p, range
<1> QED
  BY <1>1, <1>4, <1>5, <1>6, <1>7 DEF p

\* What no longer stalls is free.
LEMMA ClearedWhole ==
    ASSUME IInv, ClearStallPages(completed)
    PROVE  /\ Whole(pages', blocks) /\ Len(pages') = Len(pages)
           /\ \A p \in 1 .. Len(pages) : \A s :
                Waits(PageAt(pages, p), s) /\ s.fence_value > completed => Waits(PageAt(pages', p), s)
<1>1. /\ Partitioned(pages, blocks, RangeOfBlock, Places, PageSize)
      /\ completed \in Nat
      /\ pages' = [p \in DOMAIN pages |-> ClearStalls(PageAt(pages, p), completed)]
  BY Zenon DEF IInv, Whole, ClearStallPages, PageAt
<1>2. /\ Partitioned(pages', blocks, RangeOfBlock, Places, PageSize) /\ Len(pages') = Len(pages)
      /\ \A p \in 1 .. Len(pages) : \A s :
           Waits(PageAt(pages, p), s) /\ s.fence_value > completed => Waits(PageAt(pages', p), s)
  BY <1>1, HeapPlaces, PartitionedClear
<1> QED
  BY <1>2 DEF IInv, Whole

(***************************************************************************)
(* The invariant                                                           *)
(***************************************************************************)

\* Blocks only appear through a placement.
LEMMA PlaceKeepsIInv ==
    ASSUME NEW ps, NEW bs, Whole(ps, bs), NEW size \in Sizes,
           Place(Placement(ps, size), bs),
           signal_value \in 1 .. FenceBound, completed \in Nat
    PROVE  IInv' /\ KeepsWaiting(ps, pages') /\ Len(ps) <= Len(pages')
<1> DEFINE placement == Placement(ps, size)
<1>1. /\ Len(placement.pages) <= MaxPages
      /\ pages' = placement.pages
      /\ blocks' = Plus(bs, placement.block)
      /\ signal_value' = signal_value /\ completed' = completed
  BY Zenon DEF Place, Plus
<1>2. /\ Whole(placement.pages, Plus(bs, placement.block))
      /\ KeepsWaiting(ps, placement.pages)
      /\ Len(ps) <= Len(placement.pages)
  BY <1>1, PlacementWhole
<1> HIDE DEF placement
<1>3. Whole(pages', blocks') /\ KeepsWaiting(ps, pages') /\ Len(ps) <= Len(pages')
  BY <1>1, <1>2
<1> QED
  BY <1>1, <1>3 DEF IInv, Whole

\* The inductive invariant holds at the start.
LEMMA IInvInit == Init => IInv
<1> SUFFICES ASSUME Init PROVE IInv
  OBVIOUS
<1>1. pages = <<>> /\ blocks = {} /\ signal_value = 1 /\ completed = 0
  BY DEF Init
<1>2. pages \in Seq(Pages(Places)) /\ Len(pages) = 0 /\ \A p \in 1 .. Len(pages) : FALSE
  BY <1>1
<1>3. Whole(pages, blocks)
  BY <1>1, <1>2, HeapPlaces DEF Whole, Partitioned
<1> QED
  BY <1>1, <1>3, HeapPlaces DEF IInv

\* Every operation and every step of the GPU keep it.
LEMMA IInvStep == IInv /\ [Next]_descriptor_vars => IInv'
<1> SUFFICES ASSUME IInv, [Next]_descriptor_vars PROVE IInv'
  OBVIOUS
<1>1. ASSUME NEW size \in Sizes, Allocate(size) PROVE IInv'
  BY <1>1, PlaceKeepsIInv DEF Allocate, IInv
<1>2. ASSUME NEW block \in blocks, Deallocate(block) PROVE IInv'
  <2>1. Whole(Released(block), Minus(blocks, block))
    BY ReleasedWhole
  <2>2. pages' = Released(block) /\ blocks' = Minus(blocks, block)
        /\ signal_value' = signal_value /\ completed' = completed
    BY <1>2, Zenon DEF Deallocate, Minus
  <2>3. Whole(pages', blocks')
    BY <2>1, <2>2
  <2> QED
    BY <2>2, <2>3 DEF IInv, Whole
<1>3. ASSUME NEW block \in blocks, NEW size \in Sizes, Reallocate(block, size) PROVE IInv'
  <2>1. Whole(Released(block), Minus(blocks, block))
    BY ReleasedWhole
  <2>2. Place(Placement(Released(block), size), Minus(blocks, block))
    BY <1>3, Zenon DEF Reallocate, Minus
  <2> QED
    BY <2>1, <2>2, PlaceKeepsIInv DEF IInv
<1>4. CASE ClearStallPages(completed)
  <2>1. Whole(pages', blocks)
    BY <1>4, ClearedWhole
  <2>2. blocks' = blocks /\ signal_value' = signal_value /\ completed' = completed
    BY <1>4 DEF ClearStallPages
  <2>3. Whole(pages', blocks')
    BY <2>1, <2>2
  <2> QED
    BY <2>2, <2>3 DEF IInv, Whole
<1>5. CASE Clear
  <2>1. pages' = <<>> /\ blocks' = {} /\ signal_value' = signal_value /\ completed' = completed
    BY <1>5 DEF Clear
  <2>2. pages' \in Seq(Pages(Places)) /\ Len(pages') = 0 /\ \A p \in 1 .. Len(pages') : FALSE
    BY <2>1
  <2>3. Whole(pages', blocks')
    BY <2>1, <2>2, HeapPlaces DEF Whole, Partitioned
  <2> QED
    BY <2>1, <2>3 DEF IInv, Whole
<1>6. CASE Submit
  <2>1. pages' = pages /\ blocks' = blocks /\ signal_value' = signal_value + 1 /\ completed' = completed
        /\ signal_value < FenceBound
    BY <1>6 DEF Submit
  <2>2. Whole(pages', blocks')
    BY <2>1 DEF IInv
  <2> QED
    BY <2>1, <2>2, HeapPlaces DEF IInv, Whole
<1>7. CASE Complete
  <2>1. pages' = pages /\ blocks' = blocks /\ signal_value' = signal_value /\ completed' = completed + 1
    BY <1>7 DEF Complete
  <2>2. Whole(pages', blocks')
    BY <2>1 DEF IInv
  <2> QED
    BY <2>1, <2>2 DEF IInv, Whole
<1>8. CASE UNCHANGED descriptor_vars
  <2>1. pages' = pages /\ blocks' = blocks /\ signal_value' = signal_value /\ completed' = completed
    BY <1>8 DEF descriptor_vars
  <2>2. Whole(pages', blocks')
    BY <2>1 DEF IInv
  <2> QED
    BY <2>1, <2>2 DEF IInv, Whole
<1> QED
  BY <1>1, <1>2, <1>3, <1>4, <1>5, <1>6, <1>7, <1>8 DEF Next

\* So it always holds.
LEMMA IInvAlways == Spec => []IInv
BY IInvInit, IInvStep, PTL DEF Spec

\* The partition of each heap is that of its blocks and its lists.
LEMMA IInvPartition == IInv => HeapPartition
<1> SUFFICES ASSUME IInv PROVE HeapPartition
  OBVIOUS
<1>1. /\ Partitioned(pages, blocks, RangeOfBlock, Places, PageSize)
      /\ Len(pages) \in Nat /\ DOMAIN pages = 1 .. Len(pages)
  <2>1. Partitioned(pages, blocks, RangeOfBlock, Places, PageSize)
    BY DEF IInv, Whole
  <2> QED
    BY <2>1, LenProperties DEF Partitioned
<1>2. TypeOK
  <2>1. Pages(Places) = [free : Seq(Ranges), stall : Seq([range : Ranges, fence_value : Nat])]
    BY Zenon DEF Pages, Stalls, Spans, Places, Ranges
  <2>2. pages \in Seq(Pages(Places))
    BY <1>1 DEF Partitioned
  <2>3. blocks \subseteq [page : 1 .. MaxPages, offset : 0 .. PageSize, size : Sizes]
    BY Zenon DEF IInv, Whole, Blocks
  <2> QED
    BY <2>1, <2>2, <2>3, Zenon DEF TypeOK, IInv
<1>3. ASSUME NEW p \in DOMAIN pages
      PROVE  /\ LiveUnits(p) \cup StalledUnits(pages[p]) \cup FreeUnits(pages[p]) = 0 .. PageSize - 1
             /\ Disjoint(LiveUnits(p), StalledUnits(pages[p]) \cup FreeUnits(pages[p]))
             /\ Disjoint(StalledUnits(pages[p]), FreeUnits(pages[p]))
             /\ \A b, c \in BlocksOf(p) : b # c => Disjoint(Units(Occupied(b)), Units(Occupied(c)))
  <2> DEFINE page == PageAt(pages, p)
  <2>1. Divided(page, OnPage(blocks, p), RangeOfBlock, Places, PageSize)
    BY <1>1, <1>3 DEF Partitioned
  <2>2. page = pages[p] /\ OnPage(blocks, p) = BlocksOf(p)
    BY Zenon DEF PageAt, OnPage, BlocksOf
  <2>3. \A b \in BlocksOf(p) : UnitsOf(RangeOfBlock, b) = Units(Occupied(b))
    <3>1. ASSUME NEW b \in BlocksOf(p) PROVE b \in Blocks
      BY DEF BlocksOf, IInv, Whole
    <3> QED
      BY <3>1, Zenon DEF UnitsOf, RangeOfBlock
  <2>4. LiveUnits(p) = LiveOf(RangeOfBlock, BlocksOf(p))
    BY <2>3 DEF LiveUnits, LiveOf
  <2> HIDE DEF page
  <2>5. /\ LiveUnits(p) \cup StalledUnits(page) \cup FreeUnits(page) = 0 .. PageSize - 1
        /\ \A b \in BlocksOf(p) : Units(Occupied(b)) \cap (StalledUnits(page) \cup FreeUnits(page)) = {}
        /\ \A b, c \in BlocksOf(p) : b # c => Units(Occupied(b)) \cap Units(Occupied(c)) = {}
    BY <2>1, <2>2, <2>3, <2>4 DEF Divided
  <2>6. Disjoint(LiveUnits(p), StalledUnits(page) \cup FreeUnits(page))
    BY <2>5 DEF LiveUnits, Disjoint
  <2>7. Disjoint(StalledUnits(page), FreeUnits(page))
    BY <2>1 DEF Divided, Sound, Disjoint
  <2> QED
    BY <2>2, <2>5, <2>6, <2>7, Zenon DEF Disjoint
<1> QED
  BY <1>2, <1>3, Zenon DEF HeapPartition

\* Whatever blocks are asked for, freed, and asked for in another size, the tables of two
\* shaders never overlap and no descriptor of a heap is lost.
THEOREM HeapsPartitioned == Spec => []HeapPartition
BY IInvAlways, IInvPartition, PTL

(***************************************************************************)
(* What lists on their way name                                            *)
(***************************************************************************)

\* A step that loses no heap and waits on for everything awaits what it awaited.
LEMMA AwaitedOn ==
    ASSUME NEW ps, NEW after, NEW ns, Awaited(ps, ns), KeepsWaiting(ps, after),
           Len(ps) \in Nat, Len(after) \in Nat, Len(ps) <= Len(after)
    PROVE  Awaited(after, ns)
<1>1. \A q \in 1 .. Len(ps) : q \in 1 .. Len(after)
  OBVIOUS
<1> QED
  BY <1>1 DEF Awaited, KeepsWaiting

\* A block that is given back waits for the lists that name it.
LEMMA ReleasedAwaited ==
    ASSUME IInv, NamedInv, NEW block \in blocks, GivenBack(block)
    PROVE  /\ named' \subseteq NamedRanges
           /\ Awaited(Released(block), named')
           /\ completed < signal_value => \A n \in named' : n.fence_value > completed
           /\ Len(Released(block)) \in Nat
<1> DEFINE new == [page |-> block.page, range |-> Occupied(block), fence_value |-> signal_value]
<1>1. /\ KeepsWaiting(pages, Released(block))
      /\ Len(Released(block)) = Len(pages)
      /\ Waits(PageAt(Released(block), block.page), Entry(new))
      /\ block.page \in 1 .. Len(pages) /\ Occupied(block) \in Spans(Places)
  BY ReleasedWhole DEF Entry
<1>2. Len(pages) \in Nat /\ block.page \in 1 .. MaxPages /\ signal_value \in Nat
  BY HeapPlaces, LenProperties DEF IInv, Whole, Partitioned, Blocks
<1>3. named' = named \cup {new}
  BY DEF GivenBack
<1>4. new \in NamedRanges /\ new.page = block.page /\ new.fence_value = signal_value
  BY <1>1, <1>2 DEF NamedRanges
<1> HIDE DEF new
<1>5. Awaited(Released(block), named)
  BY <1>1, <1>2, AwaitedOn DEF NamedInv
<1>6. Awaited(Released(block), named')
  BY <1>1, <1>3, <1>4, <1>5 DEF Awaited
<1> QED
  BY <1>1, <1>2, <1>3, <1>4, <1>6 DEF NamedInv

\* The fence is never ahead of what was signalled.
Behind == completed < signal_value

\* Every operation and every step of the GPU keep what lists on their way name.
LEMMA NamedStep == IInv /\ NamedInv /\ Behind /\ [Next]_descriptor_vars => NamedInv' /\ Behind'
<1> SUFFICES ASSUME IInv, NamedInv, Behind, [Next]_descriptor_vars PROVE NamedInv' /\ Behind'
  OBVIOUS
<1>1. Len(pages) \in Nat /\ completed \in Nat /\ signal_value \in Nat
  BY HeapPlaces, LenProperties DEF IInv, Whole, Partitioned
<1>2. Len(pages') \in Nat
  <2>1. IInv'
    BY IInvStep
  <2> QED
    BY <2>1, LenProperties DEF IInv, Whole, Partitioned
<1>3. ASSUME NEW size \in Sizes, Allocate(size) PROVE NamedInv' /\ Behind'
  <2>1. KeepsWaiting(pages, pages') /\ Len(pages) <= Len(pages')
    BY <1>3, PlaceKeepsIInv DEF Allocate, IInv
  <2>2. named' = named /\ signal_value' = signal_value /\ completed' = completed
    BY <1>3 DEF Allocate, Place
  <2> QED
    BY <1>1, <1>2, <2>1, <2>2, AwaitedOn DEF NamedInv, Behind
<1>4. ASSUME NEW block \in blocks, Deallocate(block) PROVE NamedInv' /\ Behind'
  <2>1. /\ pages' = Released(block) /\ GivenBack(block)
        /\ signal_value' = signal_value /\ completed' = completed
    BY <1>4 DEF Deallocate
  <2> QED
    BY <2>1, ReleasedAwaited DEF NamedInv, Behind
<1>5. ASSUME NEW block \in blocks, NEW size \in Sizes, Reallocate(block, size)
      PROVE  NamedInv' /\ Behind'
  <2>1. /\ Place(Placement(Released(block), size), Minus(blocks, block)) /\ GivenBack(block)
        /\ signal_value' = signal_value /\ completed' = completed
    BY <1>5, Zenon DEF Reallocate, Place, Minus
  <2>2. KeepsWaiting(Released(block), pages') /\ Len(Released(block)) <= Len(pages')
    BY <2>1, ReleasedWhole, PlaceKeepsIInv DEF IInv
  <2>3. /\ named' \subseteq NamedRanges
        /\ Awaited(Released(block), named')
        /\ \A n \in named' : n.fence_value > completed
        /\ Len(Released(block)) \in Nat
    BY <2>1, ReleasedAwaited DEF Behind
  <2>4. Awaited(pages', named')
    BY <1>2, <2>2, <2>3, AwaitedOn
  <2> QED
    BY <2>1, <2>3, <2>4 DEF NamedInv, Behind
<1>6. CASE ClearStallPages(completed)
  <2>1. named' = named /\ signal_value' = signal_value /\ completed' = completed
    BY <1>6 DEF ClearStallPages
  <2>2. /\ Len(pages') = Len(pages)
        /\ \A p \in 1 .. Len(pages) : \A s :
             Waits(PageAt(pages, p), s) /\ s.fence_value > completed => Waits(PageAt(pages', p), s)
    BY <1>6, ClearedWhole
  <2>3. \A n \in named : Entry(n).fence_value > completed
    BY DEF NamedInv, Entry
  <2>4. Awaited(pages', named')
    BY <2>1, <2>2, <2>3 DEF NamedInv, Awaited
  <2> QED
    BY <2>1, <2>4 DEF NamedInv, Behind
<1>7. CASE Clear
  BY <1>7 DEF Clear, NamedInv, Awaited, Behind
<1>8. CASE Submit
  <2>1. /\ pages' = pages /\ named' = named /\ completed' = completed
        /\ signal_value' = signal_value + 1
    BY <1>8 DEF Submit
  <2> QED
    BY <1>1, <2>1 DEF NamedInv, Behind
<1>9. CASE Complete
  <2>1. /\ pages' = pages /\ signal_value' = signal_value /\ completed' = completed + 1
        /\ named' = {n \in named : n.fence_value > completed'}
        /\ completed < signal_value - 1
    BY <1>9 DEF Complete
  <2> QED
    BY <1>1, <2>1 DEF NamedInv, Awaited, Behind
<1>10. CASE UNCHANGED descriptor_vars
  BY <1>10 DEF descriptor_vars, NamedInv, Behind
<1> QED
  BY <1>3, <1>4, <1>5, <1>6, <1>7, <1>8, <1>9, <1>10 DEF Next

\* A range that waits is neither free nor in a block.
LEMMA NamedStayPut == IInv /\ NamedInv => DescriptorsStayPut
<1> SUFFICES ASSUME IInv, NamedInv, NEW n \in named
             PROVE  Disjoint(Units(n.range), FreeUnits(pages[n.page]) \cup LiveUnits(n.page))
  BY DEF DescriptorsStayPut
<1> DEFINE p == n.page
           page == pages[p]
<1>1. p \in 1 .. Len(pages) /\ Waits(PageAt(pages, p), Entry(n))
  BY DEF NamedInv, Awaited
<1>2. pages \in Seq(Pages(Places)) /\ p \in DOMAIN pages /\ page \in Pages(Places)
  BY <1>1, LenProperties DEF IInv, Whole, Partitioned
<1>3. HeapPartition
  BY IInvPartition
<1>4. /\ Disjoint(LiveUnits(p), StalledUnits(page) \cup FreeUnits(page))
      /\ Disjoint(StalledUnits(page), FreeUnits(page))
  BY <1>2, <1>3, Zenon DEF HeapPartition
<1>5. PICK m \in 1 .. Len(page.stall) : page.stall[m] = Entry(n)
  BY <1>1, Zenon DEF Waits, PageAt
<1>6. StalledAt(page, m) = Units(n.range)
  BY <1>5 DEF StalledAt, Entry
<1> HIDE DEF page
<1>7. Units(n.range) \subseteq StalledUnits(page)
  BY <1>2, <1>5, <1>6, PageParts
<1> HIDE DEF p
<1> QED
  BY <1>4, <1>7 DEF Disjoint, page, p

\* Whatever is freed, asked for in another size and cleared meanwhile, nobody gets the
\* descriptors that a list on its way may name.
THEOREM NamedDescriptorsStay == Spec => []DescriptorsStayPut
<1>1. Init => NamedInv /\ Behind
  BY DEF Init, NamedInv, Awaited, Behind
<1> QED
  BY <1>1, IInvAlways, NamedStep, NamedStayPut, PTL DEF Spec

=============================================================================
