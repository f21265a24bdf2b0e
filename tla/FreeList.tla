------------------------------ MODULE FreeList ------------------------------
(***************************************************************************)
(* The free list of a page, as GpuMemoryAllocator and                      *)
(* GpuDescriptorAllocator keep it: a sequence of ranges [first, last) in   *)
(* the order of their offsets.                                             *)
(***************************************************************************)
EXTENDS Integers, SequencesExt

Span(first, last) == [first |-> first, last |-> last]

\* std::lower_bound by binary search, where below are the positions that compare less:
\* the first position that is not, or Len(list) + 1. It finds the first only if those
\* in below come before all others. After n rounds, count positions from first on are
\* left; no list needs more rounds than it has positions.
LowerBound(list, below) ==
    LET searched[n \in 0 .. Len(list)] ==
            IF n = 0 THEN [first |-> 1, count |-> Len(list)]
            ELSE LET s == searched[n - 1]
                     half == s.count \div 2
                     middle == s.first + half
                 IN  CASE s.count = 0 -> s
                       [] s.count > 0 /\ middle \in below ->
                            [first |-> middle + 1, count |-> s.count - half - 1]
                       [] s.count > 0 /\ middle \notin below ->
                            [first |-> s.first, count |-> half]
    IN  searched[Len(list)].first

\* The range that Allocate takes size from. Too small ranges may stand anywhere in the
\* list, so the search can miss a range that is large enough.
RoomFor(list, size) == LowerBound(list, {n \in DOMAIN list : list[n].first + size > list[n].last})

HasRoom(list, size) == RoomFor(list, size) <= Len(list)

TakeFromBack(list, n, size) ==
    IF list[n].first + size = list[n].last
      THEN RemoveAt(list, n)
      ELSE [list EXCEPT ![n].last = @ - size]

TakeFrom(list, n, size) ==
    IF list[n].first + size = list[n].last
      THEN RemoveAt(list, n)
      ELSE [list EXCEPT ![n].first = @ + size]

PlaceOf(list, range) == LowerBound(list, {n \in DOMAIN list : list[n].first < range.first})

GiveBackUnmerged(list, range) == InsertAt(list, PlaceOf(list, range), range)

\* A range comes back where its offset belongs and melts into the ranges it touches.
GiveBack(list, range) ==
    LET n == PlaceOf(list, range)
        joins_prev == n > 1 /\ list[n - 1].last = range.first
        joins_next == n <= Len(list) /\ list[n].first = range.last
    IN  CASE joins_prev /\ joins_next   -> RemoveAt([list EXCEPT ![n - 1].last = list[n].last], n)
          [] joins_prev /\ ~joins_next  -> [list EXCEPT ![n - 1].last = range.last]
          [] ~joins_prev /\ joins_next  -> [list EXCEPT ![n].first = range.first]
          [] ~joins_prev /\ ~joins_next -> InsertAt(list, n, range)

\* A page: its free list, and the ranges that wait for a fence value.
NewPage(free) == [free |-> free, stall |-> <<>>]

Stall(page, range, fence_value) ==
    [page EXCEPT !.stall = Append(@, [range |-> range, fence_value |-> fence_value])]

ClearAllStalls(page, fence_value) ==
    [free  |-> FoldLeft(LAMBDA list, s : GiveBack(list, s.range), page.free, page.stall),
     stall |-> <<>>]

\* One page in the loop of ClearStallPages: what stalls until a value that the fence has
\* reached is given back, in the order it was stalled. After n ranges:
ClearStalls(page, fence_value) ==
    LET cleared[n \in 0 .. Len(page.stall)] ==
            IF n = 0 THEN NewPage(page.free)
            ELSE LET before == cleared[n - 1]
                     s == page.stall[n]
                 IN  IF s.fence_value <= fence_value
                       THEN [before EXCEPT !.free = GiveBack(@, s.range)]
                       ELSE Stall(before, s.range, s.fence_value)
    IN  cleared[Len(page.stall)]

\* The units of a range.
Units(range) == range.first .. range.last - 1
FreeUnits(page) == UNION {Units(page.free[n]) : n \in DOMAIN page.free}
StalledUnits(page) == UNION {Units(page.stall[n].range) : n \in DOMAIN page.stall}

\* The ranges are in order and no two of them touch.
Coalesced(list) == \A n \in 1 .. Len(list) - 1 : list[n].last < list[n + 1].first

=============================================================================
