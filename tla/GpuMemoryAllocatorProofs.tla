---------------------- MODULE GpuMemoryAllocatorProofs ----------------------
(***************************************************************************)
(* What GpuMemoryAllocator keeps, proved for pages and segments of every   *)
(* size: each byte of a page is in one block, or stalls, or is free; free  *)
(* neighbours are one range; what stalls is given to nobody.               *)
(***************************************************************************)
EXTENDS GpuMemoryAllocator, FreeListProofs, TLAPS

(***************************************************************************)
(* Rounding                                                                *)
(***************************************************************************)

\* Division, for the provers.
LEMMA Division ==
    ASSUME NEW n \in Int, NEW unit \in Nat \ {0}
    PROVE  /\ n \div unit \in Int /\ n % unit \in 0 .. unit - 1
           /\ n = unit * (n \div unit) + (n % unit)
OBVIOUS

\* A positive factor can be taken off an inequality.
LEMMA Monotone ==
    ASSUME NEW m \in Int, NEW n \in Int, NEW unit \in Nat \ {0}, unit * m < unit * n
    PROVE  m < n
<1> SUFFICES ASSUME ~(m < n) PROVE FALSE
  OBVIOUS
<1>1. unit * (m - n) >= 0
  <2>1. m - n >= 0 /\ m - n \in Nat
    OBVIOUS
  <2> QED
    BY <2>1
<1>2. unit * (m - n) = unit * m - unit * n
  OBVIOUS
<1> QED
  BY <1>1, <1>2

\* The quotient is the one number whose multiple is next below.
LEMMA QuotientIs ==
    ASSUME NEW n \in Int, NEW unit \in Nat \ {0}, NEW m \in Int,
           unit * m <= n, n < unit * m + unit
    PROVE  n \div unit = m
<1> DEFINE q == n \div unit
           r == n % unit
<1>1. q \in Int /\ r \in 0 .. unit - 1 /\ n = unit * q + r
  BY Division
<1> HIDE DEF q, r
<1>2. unit * m < unit * (q + 1)
  <2>1. unit * (q + 1) = unit * q + unit
    BY <1>1
  <2> QED
    BY <1>1, <2>1
<1>3. unit * q < unit * (m + 1)
  <2>1. unit * (m + 1) = unit * m + unit
    OBVIOUS
  <2> QED
    BY <1>1, <2>1
<1>4. m < q + 1 /\ q < m + 1
  BY <1>1, <1>2, <1>3, Monotone
<1>5. q = m
  BY <1>1, <1>4
<1> QED
  BY <1>5 DEF q

\* Multiples of a unit.
LEMMA Multiple ==
    ASSUME NEW n \in Int, NEW unit \in Nat \ {0}
    PROVE  n % unit = 0 <=> \E m \in Int : n = unit * m
<1>1. n % unit = 0 => n = unit * (n \div unit) /\ n \div unit \in Int
  BY Division
<1>2. ASSUME NEW m \in Int, n = unit * m PROVE n % unit = 0
  <2>1. n \div unit = m
    BY <1>2, QuotientIs
  <2>2. n = unit * (n \div unit) + (n % unit) /\ n % unit \in Int
    BY Division
  <2> QED
    BY <1>2, <2>1, <2>2
<1> QED
  BY <1>1, <1>2

\* RoundUp leads to the next multiple.
LEMMA RoundUpIs ==
    ASSUME NEW n \in Int, NEW unit \in Nat \ {0}, NEW m \in Int,
           unit * m - unit < n, n <= unit * m
    PROVE  RoundUp(n, unit) = unit * m
<1>1. (n + unit - 1) \div unit = m
  <2>1. n + unit - 1 \in Int /\ unit * m <= n + unit - 1 /\ n + unit - 1 < unit * m + unit
    OBVIOUS
  <2> QED
    BY <2>1, QuotientIs
<1> QED
  BY <1>1 DEF RoundUp

\* Rounding up gives the next multiple.
LEMMA RoundUpBounds ==
    ASSUME NEW n \in Int, NEW unit \in Nat \ {0}
    PROVE  \E m \in Int : RoundUp(n, unit) = unit * m /\ unit * m - unit < n /\ n <= unit * m
<1> DEFINE q == (n + unit - 1) \div unit
           r == (n + unit - 1) % unit
<1>1. q \in Int /\ r \in 0 .. unit - 1 /\ n + unit - 1 = unit * q + r
  <2>1. n + unit - 1 \in Int
    OBVIOUS
  <2> QED
    BY <2>1, Division
<1>2. RoundUp(n, unit) = unit * q
  BY <1>1 DEF RoundUp
<1> HIDE DEF q, r
<1>3. unit * q - unit < n /\ n <= unit * q
  BY <1>1
<1> QED
  BY <1>1, <1>2, <1>3

\* A multiple stays where it is.
LEMMA RoundMultiple ==
    ASSUME NEW n \in Int, NEW unit \in Nat \ {0}, n % unit = 0
    PROVE  RoundUp(n, unit) = n /\ RoundDown(n, unit) = n
<1>1. PICK m \in Int : n = unit * m
  BY Multiple
<1>2. RoundUp(n, unit) = n
  BY <1>1, RoundUpIs
<1>3. n \div unit = m
  BY <1>1, QuotientIs
<1> QED
  BY <1>1, <1>2, <1>3 DEF RoundDown

\* Multiples of a unit are multiples of what divides it, and rounding to the one first
\* makes no difference.
LEMMA RoundTwice ==
    ASSUME NEW n \in Int, NEW unit \in Nat \ {0}, NEW part \in Nat \ {0}, unit % part = 0
    PROVE  /\ n % unit = 0 => n % part = 0
           /\ RoundUp(RoundUp(n, part), unit) = RoundUp(n, unit)
<1>1. PICK k \in Int : unit = part * k
  <2>1. unit \in Int
    OBVIOUS
  <2> QED
    BY <2>1, Multiple
<1>2. n % unit = 0 => n % part = 0
  <2> SUFFICES ASSUME n % unit = 0 PROVE n % part = 0
    OBVIOUS
  <2>1. PICK m \in Int : n = unit * m
    BY Multiple
  <2>2. n = part * (k * m) /\ k * m \in Int
    BY <1>1, <2>1
  <2> QED
    BY <2>2, Multiple
<1>3. PICK m \in Int : RoundUp(n, unit) = unit * m /\ unit * m - unit < n /\ n <= unit * m
  BY RoundUpBounds
<1>4. PICK j \in Int : RoundUp(n, part) = part * j /\ part * j - part < n /\ n <= part * j
  BY RoundUpBounds
<1>5. part * j <= unit * m
  <2>1. unit * m = part * (k * m) /\ k * m \in Int
    BY <1>1
  <2>2. part * (j - 1) = part * j - part
    BY <1>4
  <2>3. j - 1 < k * m
    BY <1>3, <1>4, <2>1, <2>2, Monotone
  <2>4. part * ((k * m) - j) >= 0
    <3>1. (k * m) - j \in Nat
      BY <1>4, <2>1, <2>3
    <3> QED
      BY <3>1
  <2>5. part * ((k * m) - j) = part * (k * m) - part * j
    BY <1>4, <2>1
  <2> QED
    BY <1>4, <2>1, <2>4, <2>5
<1>6. RoundUp(part * j, unit) = unit * m
  <2>1. part * j \in Int /\ unit * m - unit < part * j
    BY <1>3, <1>4
  <2> QED
    BY <1>3, <1>5, <2>1, RoundUpIs
<1> QED
  BY <1>2, <1>3, <1>4, <1>6

\* The sum of two multiples is one.
LEMMA SumMultiple ==
    ASSUME NEW m \in Int, NEW n \in Int, NEW unit \in Nat \ {0}, m % unit = 0, n % unit = 0
    PROVE  (m + n) % unit = 0
<1>1. PICK j \in Int : m = unit * j
  BY Multiple
<1>2. PICK k \in Int : n = unit * k
  BY Multiple
<1>3. m + n = unit * (j + k) /\ j + k \in Int /\ m + n \in Int
  BY <1>1, <1>2
<1> QED
  BY <1>3, Multiple

(***************************************************************************)
(* Pages and blocks                                                        *)
(***************************************************************************)

\* A range may end where a segment does.
Places == {e \in 0 .. PageSize : e % SegmentSize = 0}

Blocks == [page : 0 .. MaxPages, offset : Places, size : Sizes]
RangeOfBlock == [block \in Blocks |-> Occupied(block)]

\* The pages ps are divided between the blocks bs, and each block that is not too large
\* is on one of them.
Whole(ps, bs) ==
    /\ Partitioned(ps, bs, RangeOfBlock, Places, PageSize)
    /\ Len(ps) <= MaxPages
    /\ bs \subseteq Blocks
    /\ \A block \in bs : IF block.size <= PageSize THEN block.page \in 1 .. Len(ps)
                                                   ELSE block.page = NoPage

\* The inductive invariant.
IInv ==
    /\ Whole(pages, blocks)
    /\ large_pages \in 0 .. MaxPages
    /\ signal_value \in 1 .. FenceBound
    /\ completed \in Nat

\* Ranges of a page begin and end at its segments.
LEMMA PagePlaces ==
    /\ Ends(Places, PageSize)
    /\ 0 \in Places /\ PageSize \in Places
    /\ MaxPages \in Nat /\ FenceBound \in Nat \ {0} /\ PageSize \in Nat /\ SegmentSize \in Nat \ {0}
<1>1. SegmentSize \in Nat \ {0} /\ PageSize \in Nat \ {0} /\ PageSize % SegmentSize = 0
      /\ MaxPages \in Nat /\ FenceBound \in Nat \ {0}
  BY MemoryAssumption
<1>2. 0 % SegmentSize = 0
  BY <1>1
<1> QED
  BY <1>1, <1>2 DEF Ends, Places

\* What Allocate takes from a page for a block, whatever its alignment, is what
\* Deallocate computes back from its size; and it fits into a page iff the size does.
LEMMA AlignedIs ==
    ASSUME NEW size \in Sizes, NEW alignment \in Alignments
    PROVE  /\ AlignedSize(size, alignment) = RoundUp(size, SegmentSize)
           /\ AlignedSize(size, alignment) \in Nat \ {0}
           /\ AlignedSize(size, alignment) % SegmentSize = 0
           /\ AlignedSize(size, alignment) <= PageSize <=> size <= PageSize
           /\ Steps(Places, PageSize, AlignedSize(size, alignment))
<1> DEFINE aligned_size == AlignedSize(size, alignment)
<1>1. /\ size \in Nat \ {0} /\ size \in Int /\ alignment \in Nat \ {0} /\ SegmentSize % alignment = 0
      /\ SegmentSize \in Nat \ {0} /\ SegmentSize \in Int
      /\ PageSize \in Nat /\ PageSize % SegmentSize = 0
  BY MemoryAssumption
<1>2. aligned_size = RoundUp(size, SegmentSize)
  BY <1>1, RoundTwice DEF AlignedSize
<1> HIDE DEF aligned_size
<1>3. PICK m \in Int : /\ RoundUp(size, SegmentSize) = SegmentSize * m
                       /\ SegmentSize * m - SegmentSize < size /\ size <= SegmentSize * m
  BY <1>1, RoundUpBounds
<1>4. aligned_size = SegmentSize * m /\ aligned_size \in Int /\ size <= aligned_size
      /\ aligned_size - SegmentSize < size
  BY <1>1, <1>2, <1>3
<1>5. aligned_size % SegmentSize = 0
  BY <1>1, <1>4, Multiple
<1>6. aligned_size \in Nat \ {0}
  BY <1>1, <1>4
<1>7. size <= PageSize => aligned_size <= PageSize
  <2> SUFFICES ASSUME size <= PageSize PROVE aligned_size <= PageSize
    OBVIOUS
  <2>1. PICK k \in Int : PageSize = SegmentSize * k
    <3>1. PageSize \in Int
      BY <1>1
    <3> QED
      BY <1>1, <3>1, Multiple
  <2>2. SegmentSize * (m - 1) = SegmentSize * m - SegmentSize
    BY <1>1
  <2>3. m - 1 \in Int /\ SegmentSize * (m - 1) < SegmentSize * k
    BY <1>1, <1>3, <2>1, <2>2
  <2>4. m - 1 < k
    BY <1>1, <2>3, Monotone
  <2>5. k - m \in Nat /\ SegmentSize * (k - m) = SegmentSize * k - SegmentSize * m
    BY <1>1, <2>4
  <2>6. SegmentSize * (k - m) >= 0
    BY <1>1, <2>5
  <2> QED
    BY <1>1, <1>4, <2>1, <2>5, <2>6
<1>8. ASSUME NEW e \in Places, e + aligned_size <= PageSize PROVE e + aligned_size \in Places
  <2>1. e \in Int /\ 0 <= e /\ e % SegmentSize = 0
    BY <1>1, <1>8 DEF Places
  <2>2. (e + aligned_size) % SegmentSize = 0
    BY <1>1, <1>4, <1>5, <2>1, SumMultiple
  <2> QED
    BY <1>1, <1>6, <1>8, <2>1, <2>2 DEF Places
<1>9. Steps(Places, PageSize, aligned_size)
  BY <1>8 DEF Steps
<1> QED
  BY <1>1, <1>2, <1>4, <1>5, <1>6, <1>7, <1>9 DEF aligned_size

\* The range of a block.
LEMMA BlockRange ==
    ASSUME NEW page \in 0 .. MaxPages, NEW offset \in Places,
           NEW size \in Sizes, NEW alignment \in Alignments
    PROVE  /\ Block(page, offset, size) \in Blocks
           /\ Block(page, offset, size).page = page
           /\ Block(page, offset, size).size = size
           /\ RoundUp(offset, alignment) = offset
           /\ RangeOf(RangeOfBlock, Block(page, offset, size)) =
                Span(offset, offset + AlignedSize(size, alignment))
<1> DEFINE block == Block(page, offset, size)
<1>1. block \in Blocks /\ block.page = page /\ block.offset = offset /\ block.size = size
  BY DEF Block, Blocks
<1>2. /\ offset \in Int /\ offset % SegmentSize = 0 /\ SegmentSize \in Nat \ {0} /\ size \in Int
      /\ alignment \in Nat \ {0} /\ SegmentSize % alignment = 0
  BY MemoryAssumption DEF Places
<1>3. RoundUp(offset, alignment) = offset /\ RoundDown(offset, SegmentSize) = offset
  <2>1. offset % alignment = 0
    BY <1>2, RoundTwice
  <2> QED
    BY <1>2, <2>1, RoundMultiple
<1> HIDE DEF block
<1>4. offset + size - offset = size
  BY <1>2
<1>5. Occupied(block) = Span(offset, offset + RoundUp(size, SegmentSize))
  BY <1>1, <1>3, <1>4, Zenon DEF Occupied
<1>6. RangeOf(RangeOfBlock, block) = Span(offset, offset + AlignedSize(size, alignment))
  BY <1>1, <1>5, AlignedIs, Zenon DEF RangeOf, RangeOfBlock
<1> QED
  BY <1>1, <1>3, <1>6 DEF block

(***************************************************************************)
(* The parts of a step                                                     *)
(***************************************************************************)

\* A block that fits into a page is placed where none is, and nothing that stalls moves;
\* a larger one takes nothing from the pages.
LEMMA PlacementWhole ==
    ASSUME NEW ps, NEW bs, Whole(ps, bs), NEW size \in Sizes, NEW alignment \in Alignments,
           Len(Placement(ps, size, alignment).pages) <= MaxPages
    PROVE  /\ Whole(Placement(ps, size, alignment).pages,
                    Plus(bs, Placement(ps, size, alignment).block))
           /\ KeepsStalled(ps, Placement(ps, size, alignment).pages)
           /\ Len(ps) <= Len(Placement(ps, size, alignment).pages)
<1> DEFINE taken == AlignedSize(size, alignment)
           fitting == {p \in DOMAIN ps : HasRoom(ps[p].free, taken)}
           p == Min(fitting)
           placed == Placement(ps, size, alignment).pages
           block == Placement(ps, size, alignment).block
<1>1. Partitioned(ps, bs, RangeOfBlock, Places, PageSize)
  BY DEF Whole
<1>2. Len(ps) \in Nat /\ DOMAIN ps = 1 .. Len(ps)
  <2>1. ps \in Seq(Pages(Places))
    BY <1>1 DEF Partitioned
  <2> QED
    BY <2>1, LenProperties
<1>3. /\ taken \in Nat \ {0} /\ taken % SegmentSize = 0 /\ Steps(Places, PageSize, taken)
      /\ taken <= PageSize <=> size <= PageSize
      /\ taken > PageSize <=> ~(taken <= PageSize)
  <2>1. /\ taken \in Nat \ {0} /\ taken % SegmentSize = 0 /\ Steps(Places, PageSize, taken)
        /\ taken <= PageSize <=> size <= PageSize
    BY AlignedIs
  <2> HIDE DEF taken
  <2> QED
    BY <2>1, PagePlaces
<1>4. /\ Partitioned(placed, Plus(bs, block), RangeOfBlock, Places, PageSize)
      /\ Len(placed) \in Nat /\ Len(ps) <= Len(placed)
      /\ KeepsStalled(ps, placed)
      /\ block \in Blocks /\ block.size = size
      /\ IF size <= PageSize THEN block.page \in 1 .. Len(placed) ELSE block.page = NoPage
  <2>1. CASE taken <= PageSize /\ fitting # {}
    <3>1. /\ placed = [ps EXCEPT ![p].free = TakeFrom(@, RoomFor(ps[p].free, taken), taken)]
          /\ block = Block(p, RoundUp(ps[p].free[RoomFor(ps[p].free, taken)].first, alignment), size)
      BY <1>3, <2>1, Zenon DEF Placement
    <3>2. /\ placed = Replaced(ps, p, Cut(PageAt(ps, p), taken))
          /\ block = Block(p, RoundUp(CutAt(PageAt(ps, p), taken), alignment), size)
      BY <3>1, Zenon DEF Replaced, Cut, CutAt, PageAt
    <3>3. p \in fitting
      <4> HIDE DEF fitting
      <4>1. fitting \subseteq Nat
        BY <1>2 DEF fitting
      <4> QED
        BY <2>1, <4>1, MinChooses
    <3>4. p \in 1 .. Len(ps) /\ HasRoom(PageAt(ps, p).free, taken)
      BY <1>2, <3>3 DEF PageAt
    <3> HIDE DEF placed, block, p, fitting, taken
    <3>5. CutAt(PageAt(ps, p), taken) \in Places
      <4>1. Sound(PageAt(ps, p), Places, PageSize)
        BY <1>1, <3>4 DEF Partitioned, Divided
      <4> QED
        BY <1>3, <3>4, <4>1, PagePlaces, TakeSound DEF CutAt, Steps
    <3>6. p \in 0 .. MaxPages
      BY <1>2, <3>4, PagePlaces DEF Whole
    <3>7. /\ block \in Blocks /\ block.page = p /\ block.size = size
          /\ RangeOf(RangeOfBlock, block) = Span(CutAt(PageAt(ps, p), taken), CutAt(PageAt(ps, p), taken) + taken)
      <4>1. RoundUp(CutAt(PageAt(ps, p), taken), alignment) = CutAt(PageAt(ps, p), taken)
        BY <3>5, <3>6, BlockRange
      <4> QED
        BY <3>2, <3>5, <3>6, <4>1, BlockRange DEF taken
    <3>8. /\ Partitioned(placed, Plus(bs, block), RangeOfBlock, Places, PageSize)
          /\ Len(placed) = Len(ps)
          /\ KeepsStalled(ps, placed)
      BY <1>1, <1>3, <3>2, <3>4, <3>7, PagePlaces, PartitionedPut
    <3> QED
      BY <1>2, <1>3, <2>1, <3>4, <3>7, <3>8
  <2>2. CASE taken <= PageSize /\ fitting = {}
    <3>1. placed = Appended(ps, FrontTaken(taken, PageSize)) /\ block = Block(Len(ps) + 1, 0, size)
      BY <1>3, <2>2, Zenon DEF Placement, FrontTaken, Appended
    <3> HIDE DEF placed, block
    <3>2. NoneOn(bs, Len(ps) + 1)
      <4>1. Len(ps) + 1 \notin 1 .. Len(ps) /\ Len(ps) + 1 # NoPage
        BY <1>2 DEF NoPage
      <4> QED
        BY <4>1 DEF OnPage, NoneOn, Whole
    <3> HIDE DEF taken
    <3>3. taken \in Places /\ 0 < taken
      BY <1>3, <2>2, PagePlaces DEF Places
    <3>4. Len(ps) + 1 \in 0 .. MaxPages
      <4>1. Len(placed) = Len(ps) + 1
        <5>1. ps \in Seq(Pages(Places)) /\ FrontTaken(taken, PageSize) \in Pages(Places)
          <6>1. Ordered(<<Span(taken, PageSize)>>, Places, PageSize)
            BY <3>3, PagePlaces, OneRange
          <6> QED
            BY <1>1, <6>1, PagePlaces, NewPageSound DEF Partitioned, Sound, FrontTaken
        <5> QED
          BY <3>1, <5>1, AppendProperties DEF Appended
      <4>2. Len(placed) <= MaxPages
        BY DEF placed
      <4> QED
        BY <1>2, <4>1, <4>2, PagePlaces
    <3>5. /\ block \in Blocks /\ block.page = Len(ps) + 1 /\ block.size = size
          /\ RangeOf(RangeOfBlock, block) = Span(0, 0 + taken)
      BY <3>1, <3>4, PagePlaces, BlockRange DEF taken
    <3>6. 0 + taken = taken
      BY <1>3
    <3>7. /\ Partitioned(placed, Plus(bs, block), RangeOfBlock, Places, PageSize)
          /\ Len(placed) = Len(ps) + 1
          /\ KeepsStalled(ps, placed)
      BY <1>1, <3>1, <3>2, <3>3, <3>5, <3>6, PagePlaces, PartitionedNew
    <3> QED
      BY <1>2, <1>3, <2>2, <3>5, <3>7
  <2>3. CASE ~(taken <= PageSize)
    <3>1. placed = ps /\ block = Block(NoPage, 0, size)
      BY <1>3, <2>3, Zenon DEF Placement
    <3> HIDE DEF placed, block, taken
    <3>2. block \in Blocks /\ block.page = NoPage /\ block.size = size
      BY <3>1, PagePlaces, BlockRange DEF NoPage
    <3>3. \A q \in 1 .. Len(ps) : OnPage(Plus(bs, block), q) = OnPage(bs, q)
      BY <3>2 DEF OnPage, Plus, NoPage
    <3>4. Partitioned(ps, Plus(bs, block), RangeOfBlock, Places, PageSize)
      BY <1>1, <3>3 DEF Partitioned
    <3>5. KeepsStalled(ps, ps)
      BY DEF KeepsStalled
    <3> QED
      BY <1>2, <1>3, <2>3, <3>1, <3>2, <3>4, <3>5
  <2> QED
    BY <2>1, <2>2, <2>3
<1> HIDE DEF placed, block
<1>5. Plus(bs, block) \subseteq Blocks
      /\ \A b \in Plus(bs, block) : IF b.size <= PageSize THEN b.page \in 1 .. Len(placed)
                                                          ELSE b.page = NoPage
  BY <1>2, <1>4 DEF Whole, Plus
<1>6. Len(placed) <= MaxPages
  BY DEF placed
<1>7. Whole(placed, Plus(bs, block))
  BY <1>4, <1>5, <1>6 DEF Whole
<1> QED
  BY <1>4, <1>7 DEF placed, block

\* A block that is released stalls, unless it is too large for a page.
LEMMA ReleasedWhole ==
    ASSUME IInv, NEW block \in blocks
    PROVE  /\ Whole(Released(block), Minus(blocks, block))
           /\ KeepsStalled(pages, Released(block))
           /\ Len(Released(block)) = Len(pages)
<1>1. /\ Partitioned(pages, blocks, RangeOfBlock, Places, PageSize)
      /\ IF block.size <= PageSize THEN block.page \in 1 .. Len(pages) ELSE block.page = NoPage
      /\ block \in Blocks
      /\ signal_value \in Nat
      /\ Len(pages) \in Nat
  <2>1. Partitioned(pages, blocks, RangeOfBlock, Places, PageSize)
    BY DEF IInv, Whole
  <2>2. Len(pages) \in Nat
    BY <2>1, LenProperties DEF Partitioned
  <2> QED
    BY <2>1, <2>2, PagePlaces DEF IInv, Whole
<1>2. RangeOfBlock[block] = Occupied(block)
  BY <1>1, Zenon DEF RangeOfBlock
<1>3. /\ Partitioned(Released(block), Minus(blocks, block), RangeOfBlock, Places, PageSize)
      /\ Len(Released(block)) = Len(pages)
      /\ KeepsStalled(pages, Released(block))
  <2>1. CASE block.size <= PageSize
    <3> DEFINE p == block.page
    <3>1. Released(block) = Replaced(pages, p, Freed(PageAt(pages, p), RangeOfBlock, block, signal_value))
      BY <1>2, <2>1, Zenon DEF Released, Replaced, Freed, PageAt
    <3>2. p \in 1 .. Len(pages) /\ block.page = p
      BY <1>1, <2>1
    <3> HIDE DEF p
    <3> QED
      BY <1>1, <3>1, <3>2, PagePlaces, PartitionedRelease
  <2>2. CASE ~(block.size <= PageSize)
    <3>1. Released(block) = pages
      BY <2>2, Zenon DEF Released
    <3>2. \A q \in 1 .. Len(pages) : OnPage(Minus(blocks, block), q) = OnPage(blocks, q)
      <4>1. block.page = 0
        BY <1>1, <2>2 DEF NoPage
      <4> QED
        BY <4>1 DEF OnPage, Minus
    <3>3. Partitioned(pages, Minus(blocks, block), RangeOfBlock, Places, PageSize)
      BY <1>1, <3>2 DEF Partitioned
    <3> QED
      BY <3>1, <3>3 DEF KeepsStalled
  <2> QED
    BY <2>1, <2>2
<1>4. Whole(Released(block), Minus(blocks, block))
  BY <1>3 DEF IInv, Whole, Minus
<1> QED
  BY <1>3, <1>4

\* What no longer stalls is free; what still does goes on stalling.
LEMMA ClearedWhole ==
    ASSUME IInv, ClearStallPages(completed)
    PROVE  /\ Whole(pages', blocks) /\ Len(pages') = Len(pages)
           /\ \A p \in 1 .. Len(pages) : \A n \in 1 .. Len(PageAt(pages, p).stall) :
                PageAt(pages, p).stall[n].fence_value > completed =>
                   StalledAt(PageAt(pages, p), n) \subseteq StalledUnits(PageAt(pages', p))
<1>1. /\ Partitioned(pages, blocks, RangeOfBlock, Places, PageSize)
      /\ completed \in Nat
      /\ pages' = [p \in DOMAIN pages |-> ClearStalls(PageAt(pages, p), completed)]
  BY Zenon DEF IInv, Whole, ClearStallPages, PageAt
<1>2. /\ Partitioned(pages', blocks, RangeOfBlock, Places, PageSize) /\ Len(pages') = Len(pages)
      /\ \A p \in 1 .. Len(pages) : \A n \in 1 .. Len(PageAt(pages, p).stall) :
           PageAt(pages, p).stall[n].fence_value > completed =>
              StalledAt(PageAt(pages, p), n) \subseteq StalledUnits(PageAt(pages', p))
  BY <1>1, PagePlaces, PartitionedClear
<1>3. Whole(pages', blocks)
  BY <1>2 DEF IInv, Whole
<1> QED
  BY <1>2, <1>3

(***************************************************************************)
(* The invariant                                                           *)
(***************************************************************************)

\* Blocks only appear through a placement.
LEMMA PlaceKeepsIInv ==
    ASSUME NEW ps, NEW bs, Whole(ps, bs), NEW size \in Sizes, NEW alignment \in Alignments,
           Place(Placement(ps, size, alignment), bs),
           large_pages \in 0 .. MaxPages, signal_value \in 1 .. FenceBound, completed \in Nat
    PROVE  IInv' /\ KeepsStalled(ps, pages') /\ Len(ps) <= Len(pages')
<1> DEFINE placement == Placement(ps, size, alignment)
           taken == AlignedSize(size, alignment)
<1>1. /\ Len(placement.pages) <= MaxPages
      /\ placement.large_pages <= MaxPages
      /\ pages' = placement.pages
      /\ large_pages' = placement.large_pages
      /\ blocks' = Plus(bs, placement.block)
      /\ signal_value' = signal_value /\ completed' = completed
  BY Zenon DEF Place, Plus
<1>2. /\ Whole(placement.pages, Plus(bs, placement.block))
      /\ KeepsStalled(ps, placement.pages)
      /\ Len(ps) <= Len(placement.pages)
  BY <1>1, PlacementWhole
<1>3. placement.large_pages = large_pages \/ placement.large_pages = large_pages + 1
  <2>1. (taken > PageSize /\ ~(taken <= PageSize)) \/ (~(taken > PageSize) /\ taken <= PageSize)
    <3>1. taken \in Nat
      BY AlignedIs
    <3> QED
      BY <3>1, PagePlaces
  <2> DEFINE fitting == {p \in DOMAIN ps : HasRoom(ps[p].free, taken)}
  <2>2. CASE taken > PageSize /\ ~(taken <= PageSize)
    BY <2>2, Zenon DEF Placement
  <2>3. CASE ~(taken > PageSize) /\ taken <= PageSize /\ fitting # {}
    BY <2>3, Zenon DEF Placement
  <2>4. CASE ~(taken > PageSize) /\ taken <= PageSize /\ fitting = {}
    BY <2>4, Zenon DEF Placement
  <2> HIDE DEF placement, taken, fitting
  <2> QED
    BY <2>1, <2>2, <2>3, <2>4, Zenon
<1> HIDE DEF placement
<1>4. Whole(pages', blocks') /\ KeepsStalled(ps, pages') /\ Len(ps) <= Len(pages')
  BY <1>1, <1>2
<1>5. large_pages' \in 0 .. MaxPages
  BY <1>1, <1>3, PagePlaces
<1> QED
  BY <1>1, <1>4, <1>5 DEF IInv, Whole

\* The inductive invariant holds at the start.
LEMMA IInvInit == Init => IInv
<1> SUFFICES ASSUME Init PROVE IInv
  OBVIOUS
<1>1. pages = <<>> /\ large_pages = 0 /\ blocks = {} /\ signal_value = 1 /\ completed = 0
  BY DEF Init
<1>2. pages \in Seq(Pages(Places)) /\ Len(pages) = 0 /\ \A p \in 1 .. Len(pages) : FALSE
  BY <1>1
<1>3. Whole(pages, blocks)
  BY <1>1, <1>2, PagePlaces DEF Whole, Partitioned
<1> QED
  BY <1>1, <1>3, PagePlaces DEF IInv

\* Every operation and every step of the GPU keep it.
LEMMA IInvStep == IInv /\ [Next]_memory_vars => IInv'
<1> SUFFICES ASSUME IInv, [Next]_memory_vars PROVE IInv'
  OBVIOUS
<1>1. ASSUME NEW size \in Sizes, NEW alignment \in Alignments, Allocate(size, alignment) PROVE IInv'
  BY <1>1, PlaceKeepsIInv DEF Allocate, IInv
<1>2. ASSUME NEW block \in blocks, Deallocate(block) PROVE IInv'
  <2>1. Whole(Released(block), Minus(blocks, block))
    BY ReleasedWhole
  <2>2. pages' = Released(block) /\ blocks' = Minus(blocks, block) /\ large_pages' = large_pages
        /\ signal_value' = signal_value /\ completed' = completed
    BY <1>2, Zenon DEF Deallocate, Minus
  <2>3. Whole(pages', blocks')
    BY <2>1, <2>2
  <2> QED
    BY <2>2, <2>3 DEF IInv, Whole
<1>3. ASSUME NEW block \in blocks, NEW size \in Sizes, NEW alignment \in Alignments,
             Reallocate(block, size, alignment)
      PROVE  IInv'
  <2>1. Whole(Released(block), Minus(blocks, block))
    BY ReleasedWhole
  <2>2. Place(Placement(Released(block), size, alignment), Minus(blocks, block))
    BY <1>3, Zenon DEF Reallocate, Minus
  <2> QED
    BY <2>1, <2>2, PlaceKeepsIInv DEF IInv
<1>4. CASE ClearStallPages(completed)
  <2>1. Whole(pages', blocks)
    BY <1>4, ClearedWhole
  <2>2. blocks' = blocks /\ large_pages' = 0 /\ signal_value' = signal_value /\ completed' = completed
    BY <1>4 DEF ClearStallPages
  <2>3. Whole(pages', blocks')
    BY <2>1, <2>2
  <2> QED
    BY <2>2, <2>3, PagePlaces DEF IInv, Whole
<1>5. CASE Clear
  <2>1. pages' = <<>> /\ large_pages' = 0 /\ blocks' = {} /\ signal_value' = signal_value
        /\ completed' = completed
    BY <1>5 DEF Clear
  <2>2. pages' \in Seq(Pages(Places)) /\ Len(pages') = 0 /\ \A p \in 1 .. Len(pages') : FALSE
    BY <2>1
  <2>3. Whole(pages', blocks')
    BY <2>1, <2>2, PagePlaces DEF Whole, Partitioned
  <2> QED
    BY <2>1, <2>3, PagePlaces DEF IInv, Whole
<1>6. CASE Submit
  <2>1. pages' = pages /\ blocks' = blocks /\ signal_value' = signal_value + 1
        /\ completed' = completed /\ large_pages' = large_pages /\ signal_value < FenceBound
    BY <1>6 DEF Submit
  <2>2. Whole(pages', blocks')
    BY <2>1 DEF IInv
  <2> QED
    BY <2>1, <2>2, PagePlaces DEF IInv, Whole
<1>7. CASE Complete
  <2>1. pages' = pages /\ blocks' = blocks /\ signal_value' = signal_value
        /\ completed' = completed + 1 /\ large_pages' = large_pages
    BY <1>7 DEF Complete
  <2>2. Whole(pages', blocks')
    BY <2>1 DEF IInv
  <2> QED
    BY <2>1, <2>2 DEF IInv, Whole
<1>8. CASE UNCHANGED memory_vars
  <2>1. pages' = pages /\ blocks' = blocks /\ signal_value' = signal_value
        /\ completed' = completed /\ large_pages' = large_pages
    BY <1>8 DEF memory_vars
  <2>2. Whole(pages', blocks')
    BY <2>1 DEF IInv
  <2> QED
    BY <2>1, <2>2 DEF IInv, Whole
<1> QED
  BY <1>1, <1>2, <1>3, <1>4, <1>5, <1>6, <1>7, <1>8 DEF Next

\* So it always holds.
LEMMA IInvAlways == Spec => []IInv
BY IInvInit, IInvStep, PTL DEF Spec

\* The pages and what they are divided into, for the provers.
LEMMA PagesDivided ==
    ASSUME IInv
    PROVE  /\ pages \in Seq(Pages(Places)) /\ Len(pages) \in Nat /\ DOMAIN pages = 1 .. Len(pages)
           /\ \A p \in DOMAIN pages : Divided(PageAt(pages, p), OnPage(blocks, p), RangeOfBlock,
                                              Places, PageSize)
<1>1. Partitioned(pages, blocks, RangeOfBlock, Places, PageSize)
  BY DEF IInv, Whole
<1>2. pages \in Seq(Pages(Places)) /\ Len(pages) \in Nat /\ DOMAIN pages = 1 .. Len(pages)
  BY <1>1, LenProperties DEF Partitioned
<1> QED
  BY <1>1, <1>2 DEF Partitioned

\* A sequence of elements of a subset is one of elements of the set.
LEMMA SeqMonotone ==
    ASSUME NEW S, NEW T, S \subseteq T
    PROVE  Seq(S) \subseteq Seq(T)
OBVIOUS

\* The partition of each page is that of its blocks and its lists.
LEMMA IInvPartition == IInv => PagePartition
<1> SUFFICES ASSUME IInv PROVE PagePartition
  OBVIOUS
<1>2. TypeOK
  <2>1. Spans(Places) \subseteq Ranges
    BY DEF Spans, Places, Ranges
  <2> DEFINE All == [free : Seq(Ranges), stall : Seq([range : Ranges, fence_value : Nat])]
  <2>2. Pages(Places) \subseteq All
    <3>1. Stalls(Places) \subseteq [range : Ranges, fence_value : Nat]
      BY <2>1 DEF Stalls
    <3>2. /\ Seq(Spans(Places)) \subseteq Seq(Ranges)
          /\ Seq(Stalls(Places)) \subseteq Seq([range : Ranges, fence_value : Nat])
      BY <2>1, <3>1, SeqMonotone
    <3> QED
      BY <3>2 DEF Pages
  <2>3. pages \in Seq(All)
    <3> HIDE DEF All
    <3> QED
      BY <2>2, PagesDivided
  <2>4. blocks \subseteq [page : 0 .. MaxPages, offset : 0 .. PageSize, size : Sizes]
    <3>1. Blocks \subseteq [page : 0 .. MaxPages, offset : 0 .. PageSize, size : Sizes]
      BY DEF Blocks, Places
    <3> QED
      BY <3>1 DEF IInv, Whole
  <2> QED
    BY <2>3, <2>4, Zenon DEF TypeOK, IInv
<1>3. ASSUME NEW p \in DOMAIN pages
      PROVE  /\ LiveUnits(p) \cup StalledUnits(pages[p]) \cup FreeUnits(pages[p]) = 0 .. PageSize - 1
             /\ Disjoint(LiveUnits(p), StalledUnits(pages[p]) \cup FreeUnits(pages[p]))
             /\ Disjoint(StalledUnits(pages[p]), FreeUnits(pages[p]))
             /\ \A b, c \in BlocksOf(p) : b # c => Disjoint(Units(Occupied(b)), Units(Occupied(c)))
  <2> DEFINE page == PageAt(pages, p)
  <2>1. Divided(page, OnPage(blocks, p), RangeOfBlock, Places, PageSize)
    BY <1>3, PagesDivided
  <2>2. page = pages[p] /\ OnPage(blocks, p) = BlocksOf(p)
    BY Zenon DEF PageAt, OnPage, BlocksOf
  <2>3. \A b \in BlocksOf(p) : UnitsOf(RangeOfBlock, b) = Units(Occupied(b))
    <3>1. ASSUME NEW b \in BlocksOf(p) PROVE b \in Blocks
      BY DEF BlocksOf, IInv, Whole
    <3> QED
      BY <3>1, Zenon DEF UnitsOf, RangeOfBlock
  <2>4. LiveUnits(p) = LiveOf(RangeOfBlock, BlocksOf(p))
    BY <2>3 DEF LiveUnits, LiveOf
  <2> HIDE DEF page
  <2>5. /\ LiveUnits(p) \cup StalledUnits(page) \cup FreeUnits(page) = 0 .. PageSize - 1
        /\ \A b \in BlocksOf(p) : Units(Occupied(b)) \cap (StalledUnits(page) \cup FreeUnits(page)) = {}
        /\ \A b, c \in BlocksOf(p) : b # c => Units(Occupied(b)) \cap Units(Occupied(c)) = {}
    BY <2>1, <2>2, <2>3, <2>4 DEF Divided
  <2>6. Disjoint(LiveUnits(p), StalledUnits(page) \cup FreeUnits(page))
    BY <2>5 DEF LiveUnits, Disjoint
  <2>7. Disjoint(StalledUnits(page), FreeUnits(page))
    BY <2>1 DEF Divided, Sound, Disjoint
  <2> QED
    BY <2>2, <2>5, <2>6, <2>7, Zenon DEF Disjoint
<1> QED
  BY <1>2, <1>3, Zenon DEF PagePartition

\* No byte of a page is lost or given to two blocks, whatever blocks are asked for, freed
\* and asked for in another size, and in whatever order they come back.
THEOREM PagesPartitioned == Spec => []PagePartition
BY IInvAlways, IInvPartition, PTL

\* Free neighbours are one range, in whatever order the blocks come back.
THEOREM FreeListsStayCoalesced == Spec => []FreeListsCoalesced
<1>1. IInv => FreeListsCoalesced
  <2> SUFFICES ASSUME IInv, NEW p \in DOMAIN pages PROVE Coalesced(pages[p].free)
    BY DEF FreeListsCoalesced
  <2>1. Ordered(pages[p].free, Places, PageSize)
    BY PagesDivided DEF Divided, Sound, PageAt
  <2> QED
    BY <2>1, PagePlaces, OrderedCoalesced
<1> QED
  BY <1>1, IInvAlways, PTL

\* Memory that stalls until a value the fence has not reached is given to nobody.
THEOREM StallsKept == Spec => StalledUntilCompleted
<1> DEFINE Kept == \A p \in DOMAIN pages : \A n \in DOMAIN pages[p].stall :
                     pages[p].stall[n].fence_value > completed /\ pages' # <<>> =>
                        Units(pages[p].stall[n].range) \subseteq StalledUnits(pages'[p])
<1>1. ASSUME IInv, [Next]_memory_vars PROVE [Kept]_memory_vars
  <2> SUFFICES ASSUME Next, NEW p \in DOMAIN pages, NEW n \in DOMAIN pages[p].stall,
                      pages[p].stall[n].fence_value > completed, pages' # <<>>
               PROVE  Units(pages[p].stall[n].range) \subseteq StalledUnits(pages'[p])
    BY <1>1
  <2> DEFINE page == PageAt(pages, p)
             range == StalledAt(page, n)
  <2>1. page \in Pages(Places) /\ p \in 1 .. Len(pages)
    BY <1>1, PagesDivided DEF Divided, Sound
  <2>2. range \subseteq StalledUnits(page) /\ n \in 1 .. Len(page.stall)
    <3>1. n \in DOMAIN page.stall
      BY Zenon DEF PageAt
    <3> HIDE DEF page
    <3>2. n \in 1 .. Len(page.stall)
      BY <2>1, <3>1 DEF Pages
    <3> QED
      BY <2>1, <3>2, PagePlaces, PageParts
  <2>3. /\ range = Units(pages[p].stall[n].range)
        /\ page.stall[n].fence_value > completed
    BY Zenon DEF StalledAt, PageAt
  <2>4. ASSUME KeepsStalled(pages, pages') PROVE range \subseteq StalledUnits(pages'[p])
    <3>1. StalledUnits(PageAt(pages, p)) \subseteq StalledUnits(PageAt(pages', p))
      BY <2>1, <2>4 DEF KeepsStalled
    <3> HIDE DEF range
    <3> QED
      BY <2>2, <3>1 DEF PageAt
  <2> HIDE DEF range
  <2>5. CASE \E size \in Sizes, alignment \in Alignments : Allocate(size, alignment)
    <3>1. PICK size \in Sizes, alignment \in Alignments : Allocate(size, alignment)
      BY <2>5
    <3>2. KeepsStalled(pages, pages')
      BY <1>1, <3>1, PlaceKeepsIInv DEF Allocate, IInv
    <3> QED
      BY <2>3, <2>4, <3>2
  <2>6. CASE \E block \in blocks : Deallocate(block)
    <3>1. PICK block \in blocks : Deallocate(block)
      BY <2>6
    <3>2. KeepsStalled(pages, pages')
      BY <1>1, <3>1, ReleasedWhole DEF Deallocate
    <3> QED
      BY <2>3, <2>4, <3>2
  <2>7. CASE \E block \in blocks, size \in Sizes, alignment \in Alignments :
               Reallocate(block, size, alignment)
    <3>1. PICK block \in blocks, size \in Sizes, alignment \in Alignments :
            Reallocate(block, size, alignment)
      BY <2>7
    <3>2. /\ Whole(Released(block), Minus(blocks, block))
          /\ KeepsStalled(pages, Released(block))
          /\ Len(Released(block)) = Len(pages)
      BY <1>1, ReleasedWhole
    <3>3. Place(Placement(Released(block), size, alignment), Minus(blocks, block))
      BY <3>1, Zenon DEF Reallocate, Minus
    <3>4. KeepsStalled(Released(block), pages')
      BY <1>1, <3>2, <3>3, PlaceKeepsIInv DEF IInv
    <3>5. KeepsStalled(pages, pages')
      BY <3>2, <3>4 DEF KeepsStalled
    <3> QED
      BY <2>3, <2>4, <3>5
  <2>8. CASE ClearStallPages(completed)
    <3>1. range \subseteq StalledUnits(PageAt(pages', p))
      BY <1>1, <2>1, <2>2, <2>3, <2>8, ClearedWhole DEF range
    <3> QED
      BY <2>3, <3>1 DEF PageAt
  <2>9. CASE Clear
    BY <2>9 DEF Clear
  <2>10. CASE Submit \/ Complete
    <3>1. pages' = pages
      BY <2>10 DEF Submit, Complete
    <3>2. KeepsStalled(pages, pages')
      BY <3>1 DEF KeepsStalled
    <3> QED
      BY <2>3, <2>4, <3>2
  <2> QED
    BY <2>5, <2>6, <2>7, <2>8, <2>9, <2>10 DEF Next
<1> QED
  BY <1>1, IInvAlways, PTL DEF Spec, StalledUntilCompleted

=============================================================================
