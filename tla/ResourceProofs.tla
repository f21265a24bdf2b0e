--------------------------- MODULE ResourceProofs ---------------------------
(***************************************************************************)
(* What the lists of the program refer to is there when the GPU reaches    *)
(* them: the views of a dispatch and its constants, and the states of the  *)
(* textures.  The CPU has written or tracked all of that when it recorded  *)
(* the list, so what is needed is that nothing it does until the list has  *)
(* run, and nothing the other queue does, comes in between:                *)
(*   BindInv     the views of the dispatches that are left stay bound,     *)
(*   ConstInv    their constants stay uploaded,                            *)
(*   StateInv    every list that is left can be run, from the states that  *)
(*               the lists before it leave; what no queue is at work on    *)
(*               is as new.                                                *)
(* The three rest on MotionToGoProofs: whose passes the jobs are that are  *)
(* left, and that the two queues wait for each other.                      *)
(***************************************************************************)
EXTENDS MotionToGoProofs, ProgramResources

Lists == INSTANCE FreeListProofs

(***************************************************************************)
(* The blocks of the shaders                                               *)
(***************************************************************************)

\* The number of views of each shader.
LEMMA ViewNumbers ==
    /\ NumSrvs["to_nv12"] = 1 /\ NumUavs["to_nv12"] = 2
    /\ NumSrvs["to_rgb"] = 2 /\ NumUavs["to_rgb"] = 1
    /\ NumSrvs["propagate"] = 1 /\ NumUavs["propagate"] = 2
    /\ NumSrvs["gather"] = 4 /\ NumUavs["gather"] = 1
    /\ NumSrvs["overlay"] = 1 /\ NumUavs["overlay"] = 1
<1> DEFINE Number(shader) == CASE shader = "to_rgb" -> 2 [] shader = "gather" -> 4 [] OTHER -> 1
<1>1. /\ Number("to_nv12") = 1 /\ Number("to_rgb") = 2 /\ Number("propagate") = 1
      /\ Number("gather") = 4 /\ Number("overlay") = 1
  BY Zenon
<1>2. NumSrvs = [shader \in ShaderSet |-> Number(shader)]
  BY Zenon DEF NumSrvs
<1> HIDE DEF Number
<1> QED
  BY <1>1, <1>2 DEF NumUavs, ShaderSet

\* A search in a list of one range that is large enough finds it.
LEMMA RoomInOne ==
    ASSUME NEW f \in Nat, NEW size \in Nat, f + size <= HeapSize
    PROVE  Free!RoomFor(<<Free!Span(f, HeapSize)>>, size) = 1
<1> DEFINE list == <<Free!Span(f, HeapSize)>>
           below == {n \in DOMAIN list : list[n].first + size > list[n].last}
<1>1. Len(list) = 1 /\ below = {}
  BY BindingAssumption DEF Free!Span
<1>2. Free!LowerBound(list, below) = Lists!LowerBound(list, below)
  BY Zenon DEF Free!LowerBound, Lists!LowerBound
<1>3. Free!RoomFor(list, size) = Free!LowerBound(list, below)
  BY DEF Free!RoomFor
<1> HIDE DEF list, below
<1>4. LET n == Lists!LowerBound(list, below)
      IN  n \in 1 .. Len(list) + 1 /\ (n > 1 => n - 1 \in below)
  BY <1>1, Lists!LowerBoundFinds
<1>5. Free!RoomFor(list, size) = 1
  BY <1>1, <1>2, <1>3, <1>4
<1> QED
  BY <1>5 DEF list

\* The heap from f on is free, and the blocks made so far are these.
FreeFrom(made, f) == made.free = <<Free!Span(f, HeapSize)>>
HasBlocks(made, blocks) == made.desc_block = blocks
PlacedAt(blocks, shader, f) == [blocks EXCEPT ![shader] = f]

\* The next block begins at f.
LEMMA NextBlock ==
    ASSUME NEW made, NEW shader, shader \in ShaderSet, NEW f \in Nat, NEW l \in Nat, NEW blocks,
           FreeFrom(made, f), HasBlocks(made, blocks),
           BlockSize(shader) \in Nat, l = f + BlockSize(shader), l <= HeapSize
    PROVE  /\ HasBlocks(CreateComputeShader(made, shader), PlacedAt(blocks, shader, f))
           /\ l < HeapSize => FreeFrom(CreateComputeShader(made, shader), l)
<1> DEFINE list == <<Free!Span(f, HeapSize)>>
           size == BlockSize(shader)
<1>1. Free!RoomFor(made.free, size) = 1 /\ made.free = list
  BY RoomInOne DEF FreeFrom
<1>2. CreateComputeShader(made, shader) =
        [free |-> Free!TakeFrom(list, 1, size),
         desc_block |-> PlacedAt(blocks, shader, list[1].first)]
  BY <1>1 DEF CreateComputeShader, HasBlocks, PlacedAt
<1>3. list[1].first = f /\ list[1].last = HeapSize
  BY DEF Free!Span
<1>4. l < HeapSize => Free!TakeFrom(list, 1, size) = <<Free!Span(l, HeapSize)>>
  <2> SUFFICES ASSUME l < HeapSize
               PROVE  Free!TakeFrom(list, 1, size) = <<Free!Span(l, HeapSize)>>
    OBVIOUS
  <2>1. Free!TakeFrom(list, 1, size) = [list EXCEPT ![1].first = @ + size]
    BY <1>3, BindingAssumption DEF Free!TakeFrom
  <2>2. [list EXCEPT ![1].first = @ + size] = [list EXCEPT ![1] = [list[1] EXCEPT !.first = @ + size]]
    OBVIOUS
  <2>3. [list[1] EXCEPT !.first = @ + size] = Free!Span(l, HeapSize)
    BY <1>3 DEF Free!Span
  <2>4. ASSUME NEW a, NEW b PROVE [<<a>> EXCEPT ![1] = b] = <<b>>
    OBVIOUS
  <2> HIDE DEF size
  <2> QED
    BY <2>1, <2>2, <2>3, <2>4
<1> QED
  BY <1>2, <1>3, <1>4 DEF HasBlocks, FreeFrom

\* Where the blocks are, one after the other.
LEMMA Blocks ==
    /\ DescBlock["to_nv12"] = 0
    /\ DescBlock["to_rgb"] = 3 * FrameCount
    /\ DescBlock["propagate"] = 6 * FrameCount
    /\ DescBlock["gather"] = 9 * FrameCount
    /\ DescBlock["overlay"] = 14 * FrameCount
<1> DEFINE F == FrameCount
           heap == [free |-> <<Free!Span(0, HeapSize)>>,
                    desc_block |-> [shader \in ShaderSet |-> HeapSize]]
           m1 == CreateComputeShader(heap, "to_nv12")
           m2 == CreateComputeShader(m1, "to_rgb")
           m3 == CreateComputeShader(m2, "propagate")
           m4 == CreateComputeShader(m3, "gather")
           m5 == CreateComputeShader(m4, "overlay")
           b0 == [shader \in ShaderSet |-> HeapSize]
           b1 == PlacedAt(b0, "to_nv12", 0)
           b2 == PlacedAt(b1, "to_rgb", 3 * F)
           b3 == PlacedAt(b2, "propagate", 6 * F)
           b4 == PlacedAt(b3, "gather", 9 * F)
           b5 == PlacedAt(b4, "overlay", 14 * F)
<1>1. F \in Nat \ {0} /\ HeapSize \in Nat /\ 16 * F <= HeapSize
  BY SlotNumbers, BindingAssumption
<1>2. /\ BlockSize("to_nv12") = 3 * F /\ BlockSize("to_rgb") = 3 * F /\ BlockSize("propagate") = 3 * F
      /\ BlockSize("gather") = 5 * F /\ BlockSize("overlay") = 2 * F
  BY <1>1, ViewNumbers DEF BlockSize
<1>3. FreeFrom(heap, 0) /\ HasBlocks(heap, b0)
  BY DEF FreeFrom, HasBlocks
<1>4. Constructed = m5
  BY DEF Constructed
<1>5. /\ b5["to_nv12"] = 0 /\ b5["to_rgb"] = 3 * F /\ b5["propagate"] = 6 * F
      /\ b5["gather"] = 9 * F /\ b5["overlay"] = 14 * F
  BY <1>1 DEF ShaderSet, PlacedAt
<1> HIDE DEF heap, m1, m2, m3, m4, m5, b0, b1, b2, b3, b4, b5
<1>6. HasBlocks(m1, b1) /\ FreeFrom(m1, 3 * F)
  <2>1. "to_nv12" \in ShaderSet /\ 3 * F = 0 + BlockSize("to_nv12") /\ 3 * F < HeapSize /\ 3 * F \in Nat
    BY <1>1, <1>2 DEF ShaderSet
  <2> HIDE DEF F
  <2> QED
    BY <1>1, <1>2, <1>3, <2>1, NextBlock DEF m1, b1
<1>7. HasBlocks(m2, b2) /\ FreeFrom(m2, 6 * F)
  <2>1. /\ "to_rgb" \in ShaderSet /\ 6 * F = 3 * F + BlockSize("to_rgb") /\ 6 * F < HeapSize
        /\ 3 * F \in Nat /\ 6 * F \in Nat
    BY <1>1, <1>2 DEF ShaderSet
  <2> QED
    BY <1>1, <1>2, <1>6, <2>1, NextBlock DEF m2, b2
<1>8. HasBlocks(m3, b3) /\ FreeFrom(m3, 9 * F)
  <2>1. /\ "propagate" \in ShaderSet /\ 9 * F = 6 * F + BlockSize("propagate") /\ 9 * F < HeapSize
        /\ 3 * F \in Nat /\ 6 * F \in Nat /\ 9 * F \in Nat
    BY <1>1, <1>2 DEF ShaderSet
  <2> QED
    BY <1>1, <1>2, <1>7, <2>1, NextBlock DEF m3, b3
<1>9. HasBlocks(m4, b4) /\ FreeFrom(m4, 14 * F)
  <2>1. /\ "gather" \in ShaderSet /\ 14 * F = 9 * F + BlockSize("gather") /\ 14 * F < HeapSize
        /\ 5 * F \in Nat /\ 9 * F \in Nat /\ 14 * F \in Nat
    BY <1>1, <1>2 DEF ShaderSet
  <2> QED
    BY <1>1, <1>2, <1>8, <2>1, NextBlock DEF m4, b4
<1>10. HasBlocks(m5, b5)
  <2>1. /\ "overlay" \in ShaderSet /\ 16 * F = 14 * F + BlockSize("overlay")
        /\ 2 * F \in Nat /\ 14 * F \in Nat /\ 16 * F \in Nat
    BY <1>1, <1>2 DEF ShaderSet
  <2> QED
    BY <1>1, <1>2, <1>9, <2>1, NextBlock DEF m5, b5
<1> QED
  BY <1>4, <1>5, <1>10 DEF DescBlock, HasBlocks

(***************************************************************************)
(* The views of the shaders                                                *)
(***************************************************************************)

\* Each shader's views and registers.
LEMMA ShaderViews ==
    /\ Srvs("to_nv12") = <<Whole("rgb")>>
    /\ Srvs("to_rgb") = <<Part("nv12", 0), Part("nv12", 1)>>
    /\ Srvs("propagate") = <<Whole("raw_mv")>>
    /\ Srvs("gather") = <<Whole("rgb"), Whole("mv"), Whole("neighbor_max"), Whole("random")>>
    /\ Srvs("overlay") = <<Whole("mv")>>
    /\ Uavs("to_nv12") = <<Part("scaled", 0), Part("scaled", 1)>>
    /\ Uavs("to_rgb") = <<Part("rgb", 0)>>
    /\ Uavs("propagate") = <<Part("mv", 0), Part("neighbor_max", 0)>>
    /\ Uavs("gather") = <<Part("blurred", 0)>>
    /\ Uavs("overlay") = <<Part("blurred", 0)>>
BY Zenon DEF Srvs, Uavs

\* As many registers are declared as a shader has views.
LEMMA ShaderRegisters ==
    /\ Registers("to_nv12") = [t |-> <<Texel("rgb")>>, u |-> <<Luma("scaled"), Chroma("scaled")>>]
    /\ Registers("to_rgb") = [t |-> <<Luma("nv12"), Chroma("nv12")>>, u |-> <<Texel("rgb")>>]
    /\ Registers("propagate") = [t |-> <<Texel("raw_mv")>>, u |-> <<Texel("mv"), Texel("neighbor_max")>>]
    /\ Registers("gather") =
         [t |-> <<Texel("rgb"), Texel("mv"), Texel("neighbor_max"), Texel("random")>>,
          u |-> <<Texel("blurred")>>]
    /\ Registers("overlay") = [t |-> <<Texel("mv")>>, u |-> <<Texel("blurred")>>]
BY Zenon DEF Registers

\* The view is of the texture, the plane and the slot that the register is for.
Matches(view, register, slot) ==
    /\ view.tex = register.tex
    /\ view.plane = register.plane
    /\ view.slot = IF view.tex = "random" THEN 0 ELSE slot

\* What RunComputeShader passes is, one by one, what the shader declares.
LEMMA ViewsMatch ==
    ASSUME NEW shader \in ShaderSet, NEW slot
    PROVE  /\ DOMAIN Registers(shader).t = 1 .. NumSrvs[shader]
           /\ DOMAIN Registers(shader).u = 1 .. NumUavs[shader]
           /\ \A n \in 1 .. NumSrvs[shader] :
                Matches(ShaderResourceView(Srvs(shader)[n], slot), Registers(shader).t[n], slot)
           /\ \A n \in 1 .. NumUavs[shader] :
                Matches(UnorderedAccessView(Uavs(shader)[n], slot), Registers(shader).u[n], slot)
<1> USE DEF Matches, ShaderResourceView, UnorderedAccessView, View, PlaneOf, MipLevels, Whole, Part,
            AllSubResources, Texel, Luma, Chroma
<1>1. CASE shader = "to_nv12"
  BY <1>1, ViewNumbers, ShaderViews, ShaderRegisters
<1>2. CASE shader = "to_rgb"
  BY <1>2, ViewNumbers, ShaderViews, ShaderRegisters
<1>3. CASE shader = "propagate"
  BY <1>3, ViewNumbers, ShaderViews, ShaderRegisters
<1>4. CASE shader = "gather"
  BY <1>4, ViewNumbers, ShaderViews, ShaderRegisters
<1>5. CASE shader = "overlay"
  BY <1>5, ViewNumbers, ShaderViews, ShaderRegisters
<1> QED
  BY <1>1, <1>2, <1>3, <1>4, <1>5 DEF ShaderSet

\* The number of descriptors of a shader in one slot.
Views(shader) == NumSrvs[shader] + NumUavs[shader]

\* A shader has three views to five, so that its blocks are not empty.
LEMMA ViewRange ==
    ASSUME NEW shader \in ShaderSet
    PROVE  NumSrvs[shader] \in 1 .. 4 /\ NumUavs[shader] \in 1 .. 2 /\ Views(shader) \in 2 .. 5
BY ViewNumbers DEF ShaderSet, Views

\* The parts of the slots lie in the block of their shader, one after the other.
LEMMA PartsInBlock ==
    ASSUME NEW shader \in ShaderSet, NEW slot \in 0 .. FrameCount - 1
    PROVE  LET first == DescBlock[shader]
           IN  /\ first \in Nat /\ first + Views(shader) * FrameCount <= HeapSize
               /\ SrvTable(shader, slot) \in Nat
               /\ first <= SrvTable(shader, slot)
               /\ SrvTable(shader, slot) + Views(shader) <= first + Views(shader) * FrameCount
               /\ \A other \in 0 .. FrameCount - 1 : slot < other =>
                    SrvTable(shader, slot) + Views(shader) <= SrvTable(shader, other)
<1>1. FrameCount \in Nat \ {0} /\ HeapSize \in Nat /\ 16 * FrameCount <= HeapSize
  BY SlotNumbers, BindingAssumption
<1>2. CASE shader \in {"to_nv12", "to_rgb", "propagate"}
  <2>1. /\ NumSrvs[shader] + NumUavs[shader] = 3 /\ Views(shader) = 3
        /\ DescBlock[shader] \in {0, 3 * FrameCount, 6 * FrameCount}
    BY <1>2, ViewNumbers, Blocks DEF Views
  <2> QED
    BY <1>1, <2>1 DEF SrvTable
<1>3. CASE shader = "gather"
  <2>1. NumSrvs[shader] + NumUavs[shader] = 5 /\ Views(shader) = 5 /\ DescBlock[shader] = 9 * FrameCount
    BY <1>3, ViewNumbers, Blocks DEF Views
  <2> QED
    BY <1>1, <2>1 DEF SrvTable
<1>4. CASE shader = "overlay"
  <2>1. NumSrvs[shader] + NumUavs[shader] = 2 /\ Views(shader) = 2 /\ DescBlock[shader] = 14 * FrameCount
    BY <1>4, ViewNumbers, Blocks DEF Views
  <2> QED
    BY <1>1, <2>1 DEF SrvTable
<1> QED
  BY <1>2, <1>3, <1>4 DEF ShaderSet

\* No two shaders share a part of the heap.
LEMMA BlocksApart ==
    ASSUME NEW a \in ShaderSet, NEW b \in ShaderSet, a # b
    PROVE  \/ DescBlock[a] + Views(a) * FrameCount <= DescBlock[b]
           \/ DescBlock[b] + Views(b) * FrameCount <= DescBlock[a]
<1>1. FrameCount \in Nat
  BY SlotNumbers
<1>2. /\ Views("to_nv12") = 3 /\ Views("to_rgb") = 3 /\ Views("propagate") = 3
      /\ Views("gather") = 5 /\ Views("overlay") = 2
  BY ViewNumbers DEF Views
<1> QED
  BY <1>1, <1>2, Blocks DEF ShaderSet

\* Nor do two shaders, or two slots of one, share a place.
LEMMA PlacesApart ==
    ASSUME NEW a \in ShaderSet, NEW b \in ShaderSet,
           NEW x \in 0 .. FrameCount - 1, NEW y \in 0 .. FrameCount - 1, a # b \/ x # y
    PROVE  /\ Place(a, x) \subseteq 0 .. HeapSize - 1
           /\ Place(a, x) \cap Place(b, y) = {}
<1>1. /\ SrvTable(a, x) \in Nat /\ SrvTable(b, y) \in Nat /\ HeapSize \in Nat
      /\ DescBlock[a] \in Nat /\ DescBlock[b] \in Nat
  BY PartsInBlock, BindingAssumption
<1>2. Views(a) \in Nat /\ Views(b) \in Nat /\ Views(a) * FrameCount \in Nat /\ Views(b) * FrameCount \in Nat
  BY ViewRange, SlotNumbers
<1>3. /\ Place(a, x) = SrvTable(a, x) .. SrvTable(a, x) + Views(a) - 1
      /\ Place(b, y) = SrvTable(b, y) .. SrvTable(b, y) + Views(b) - 1
  <2>1. ASSUME NEW shader \in ShaderSet, NEW slot \in 0 .. FrameCount - 1, SrvTable(shader, slot) \in Nat
        PROVE  Place(shader, slot) = SrvTable(shader, slot) .. SrvTable(shader, slot) + Views(shader) - 1
    <3> DEFINE first == SrvTable(shader, slot)
               m == NumSrvs[shader]
               n == NumUavs[shader]
    <3>1. first \in Nat /\ m \in Nat /\ n \in Nat
      BY <2>1, ViewRange
    <3>2. Place(shader, slot) = first .. first + m + n - 1 /\ Views(shader) = m + n
      BY DEF Place, Views
    <3> HIDE DEF first, m, n
    <3>3. first + m + n - 1 = first + (m + n) - 1
      BY <3>1
    <3>4. Place(shader, slot) = first .. first + Views(shader) - 1
      BY <3>2, <3>3
    <3> QED
      BY <3>4 DEF first
  <2> QED
    BY <1>1, <2>1
<1>4. /\ DescBlock[a] <= SrvTable(a, x)
      /\ SrvTable(a, x) + Views(a) <= DescBlock[a] + Views(a) * FrameCount
      /\ DescBlock[a] + Views(a) * FrameCount <= HeapSize
      /\ DescBlock[b] <= SrvTable(b, y)
      /\ SrvTable(b, y) + Views(b) <= DescBlock[b] + Views(b) * FrameCount
  BY PartsInBlock
<1>5. \/ SrvTable(a, x) + Views(a) <= SrvTable(b, y)
      \/ SrvTable(b, y) + Views(b) <= SrvTable(a, x)
  <2>1. CASE a # b
    BY <1>1, <1>2, <1>4, <2>1, BlocksApart
  <2>2. CASE a = b
    BY <2>2, PartsInBlock, SlotNumbers
  <2> QED
    BY <2>1, <2>2
<1>6. SrvTable(a, x) + Views(a) <= HeapSize
  BY <1>1, <1>2, <1>4
<1>7. ASSUME NEW s \in Nat, NEW m \in Nat, NEW t \in Nat, NEW n \in Nat, NEW h \in Nat,
             s + m <= h, s + m <= t \/ t + n <= s
      PROVE  s .. s + m - 1 \subseteq 0 .. h - 1 /\ (s .. s + m - 1) \cap (t .. t + n - 1) = {}
  BY <1>7
<1> DEFINE s == SrvTable(a, x)
           t == SrvTable(b, y)
           m == Views(a)
           n == Views(b)
<1>8. s .. s + m - 1 \subseteq 0 .. HeapSize - 1 /\ (s .. s + m - 1) \cap (t .. t + n - 1) = {}
  <2>1. s \in Nat /\ t \in Nat /\ m \in Nat /\ n \in Nat /\ HeapSize \in Nat /\ s + m <= HeapSize
        /\ (s + m <= t \/ t + n <= s)
    BY <1>1, <1>2, <1>5, <1>6
  <2> HIDE DEF s, t, m, n
  <2> QED
    BY <1>7, <2>1
<1> QED
  BY <1>3, <1>8

(***************************************************************************)
(* The descriptors                                                         *)
(***************************************************************************)

\* The places of a shader in a slot have its views.
Bound(shader, slot) ==
    /\ Finds(SrvTable(shader, slot), Registers(shader).t, slot)
    /\ Finds(UavTable(shader, slot), Registers(shader).u, slot)

\* The heap is a function on its places.
HeapPlaces == descriptors = [d \in 0 .. HeapSize - 1 |-> descriptors[d]]

\* What a shader finds is in its places.
LEMMA BoundPlaces ==
    ASSUME NEW shader \in ShaderSet, NEW slot \in 0 .. FrameCount - 1
    PROVE  LET first == SrvTable(shader, slot)
               n == NumSrvs[shader]
           IN  /\ Bound(shader, slot) <=>
                    /\ \A k \in 1 .. n : Matches(descriptors[first + k - 1], Registers(shader).t[k], slot)
                    /\ \A k \in 1 .. NumUavs[shader] :
                         Matches(descriptors[first + n + k - 1], Registers(shader).u[k], slot)
               /\ first \in Nat /\ n \in Nat /\ NumUavs[shader] \in Nat
               /\ \A k \in 1 .. n : first + k - 1 \in Place(shader, slot)
               /\ \A k \in 1 .. NumUavs[shader] : first + n + k - 1 \in Place(shader, slot)
<1>1. SrvTable(shader, slot) \in Nat /\ NumSrvs[shader] \in Nat /\ NumUavs[shader] \in Nat
  BY PartsInBlock, ViewRange
<1>2. UavTable(shader, slot) = SrvTable(shader, slot) + NumSrvs[shader]
  BY DEF UavTable
<1>3. /\ DOMAIN Registers(shader).t = 1 .. NumSrvs[shader]
      /\ DOMAIN Registers(shader).u = 1 .. NumUavs[shader]
  BY ViewsMatch
<1>4. Bound(shader, slot) <=>
        /\ \A k \in 1 .. NumSrvs[shader] :
             Matches(descriptors[SrvTable(shader, slot) + k - 1], Registers(shader).t[k], slot)
        /\ \A k \in 1 .. NumUavs[shader] :
             Matches(descriptors[SrvTable(shader, slot) + NumSrvs[shader] + k - 1], Registers(shader).u[k], slot)
  BY <1>2, <1>3, ZenonT(30) DEF Bound, Finds, Matches
<1> QED
  BY <1>1, <1>4 DEF Place

\* What the views are that a shader finds in heap d, beginning at a place.
BoundIn(d, shader, slot) ==
    LET first == SrvTable(shader, slot)
        n == NumSrvs[shader]
    IN  /\ \A k \in 1 .. n : Matches(d[first + k - 1], Registers(shader).t[k], slot)
        /\ \A k \in 1 .. NumUavs[shader] : Matches(d[first + n + k - 1], Registers(shader).u[k], slot)

\* Views that are written are as the shader needs them, and no others are disturbed.
LEMMA ViewsWritten ==
    ASSUME HeapPlaces, NEW shader \in ShaderSet, NEW slot \in 0 .. FrameCount - 1,
           descriptors' = WithViews(shader, slot)
    PROVE  /\ HeapPlaces'
           /\ BoundIn(descriptors', shader, slot)
           /\ \A b \in ShaderSet, y \in 0 .. FrameCount - 1 :
                BoundIn(descriptors, b, y) => BoundIn(descriptors', b, y)
<1> DEFINE first == SrvTable(shader, slot)
           n == NumSrvs[shader]
           m == NumUavs[shader]
<1>1. first \in Nat /\ n \in Nat /\ m \in Nat /\ HeapSize \in Nat
  BY PartsInBlock, ViewRange, BindingAssumption
<1>2. UavTable(shader, slot) = first + n
  BY DEF UavTable
<1>3. DOMAIN descriptors = 0 .. HeapSize - 1
  BY DEF HeapPlaces
<1>4. Place(shader, slot) \subseteq 0 .. HeapSize - 1
  <2>1. \E b \in ShaderSet : b # shader
    BY DEF ShaderSet
  <2> QED
    BY <2>1, PlacesApart
<1>5. descriptors' = [d \in 0 .. HeapSize - 1 |->
        IF d \in Place(shader, slot)
          THEN IF d < first + n THEN ShaderResourceView(Srvs(shader)[d - first + 1], slot)
                                ELSE UnorderedAccessView(Uavs(shader)[d - (first + n) + 1], slot)
          ELSE descriptors[d]]
  BY <1>2, <1>3, Zenon DEF WithViews
<1>6. HeapPlaces'
  BY <1>5 DEF HeapPlaces
<1>7. /\ \A k \in 1 .. n : first + k - 1 \in Place(shader, slot)
      /\ \A k \in 1 .. m : first + n + k - 1 \in Place(shader, slot)
  BY BoundPlaces
<1>8. ASSUME NEW k \in 1 .. n
      PROVE  descriptors'[first + k - 1] = ShaderResourceView(Srvs(shader)[k], slot)
  <2> DEFINE d == first + k - 1
  <2>1. d < first + n /\ d - first + 1 = k
    BY <1>1
  <2>2. d \in Place(shader, slot) /\ d \in 0 .. HeapSize - 1
    BY <1>4, <1>7
  <2>3. descriptors'[d] = ShaderResourceView(Srvs(shader)[d - first + 1], slot)
    <3> HIDE DEF d, first, n
    <3> QED
      BY <1>5, <2>1, <2>2
  <2> QED
    BY <2>1, <2>3
<1>9. ASSUME NEW k \in 1 .. m
      PROVE  descriptors'[first + n + k - 1] = UnorderedAccessView(Uavs(shader)[k], slot)
  <2> DEFINE d == first + n + k - 1
  <2>1. ~(d < first + n) /\ d - (first + n) + 1 = k
    BY <1>1
  <2>2. d \in Place(shader, slot) /\ d \in 0 .. HeapSize - 1
    BY <1>4, <1>7
  <2>3. descriptors'[d] = UnorderedAccessView(Uavs(shader)[d - (first + n) + 1], slot)
    <3> HIDE DEF d, first, n
    <3> QED
      BY <1>5, <2>1, <2>2
  <2> QED
    BY <2>1, <2>3
<1>10. BoundIn(descriptors', shader, slot)
  BY <1>8, <1>9, ViewsMatch DEF BoundIn
<1>11. ASSUME NEW b \in ShaderSet, NEW y \in 0 .. FrameCount - 1, BoundIn(descriptors, b, y)
       PROVE  BoundIn(descriptors', b, y)
  <2>1. CASE b = shader /\ y = slot
    BY <1>10, <2>1
  <2>2. CASE b # shader \/ y # slot
    <3>1. Place(b, y) \cap Place(shader, slot) = {} /\ Place(b, y) \subseteq 0 .. HeapSize - 1
      BY <2>2, PlacesApart
    <3>2. \A d \in Place(b, y) : descriptors'[d] = descriptors[d]
      BY <1>5, <3>1
    <3>3. /\ \A k \in 1 .. NumSrvs[b] : SrvTable(b, y) + k - 1 \in Place(b, y)
          /\ \A k \in 1 .. NumUavs[b] : SrvTable(b, y) + NumSrvs[b] + k - 1 \in Place(b, y)
      BY BoundPlaces
    <3> QED
      BY <1>11, <3>2, <3>3 DEF BoundIn
  <2> QED
    BY <2>1, <2>2
<1> QED
  BY <1>6, <1>10, <1>11

\* Between RunComputeShader's views and its dispatch nothing else is recorded.
OpenInv == pc \in {"estimate", "timespan"} => open[0] = FrameCount

\* While the motion is being estimated no compute list is open; a shader and its slot stay
\* what they are while its list is.
LEMMA OpenStep ==
    ASSUME OpenInv, CallInv, ProgramInv, [Next]_vars
    PROVE  /\ OpenInv'
           /\ pc' \in ShaderSet /\ open'[0] # FrameCount => pc' = pc /\ frame_index' = frame_index
<1>1. /\ open \in [{0, 1} -> (0 .. FrameCount)] /\ FrameCount \notin 0 .. FrameCount - 1
      /\ Gpu!CmdQueues = {0, 1} /\ Gpu!NoSlot = FrameCount /\ Compute = 0 /\ VideoEncode = 1
  BY SMTT(30), SlotNumbers DEF ProgramInv, Known!TypeOK, Known!Slots, Known!NoSlot, Known!CmdQueues,
     Known!Compute, Known!VideoEncode, Gpu!CmdQueues, Gpu!Compute, Gpu!VideoEncode, Gpu!NoSlot,
     Compute, VideoEncode
<1>2. ASSUME NEW q \in {0, 1}, CreateCommandList(q)
      PROVE  pc' = pc /\ frame_index' = frame_index /\ (pc \in {"estimate", "timespan"} => open'[0] = open[0])
  <2>1. /\ UNCHANGED <<frame_index, pc>> /\ Submits(q)
        /\ open' = [open EXCEPT ![q] = frame_index]
    BY <1>2 DEF CreateCommandList, Gpu!CreateCommandList, Gpu!Ready
  <2>2. pc \in {"estimate", "timespan"} => q = 1
    BY <1>1, <2>1 DEF Submits
  <2> QED
    BY <1>1, <2>1, <2>2
<1>3. CASE ReadFrame \/ SkipRead \/ AddFrame \/ SetTimespan \/ PollThreads \/ LoopEnd \/ JoinThreads
           \/ (\E k \in DOMAIN writer : WriteFile(k)) \/ UNCHANGED vars
  <2>1. UNCHANGED <<frame_index, open>>
    BY <1>3 DEF ReadFrame, SkipRead, AddFrame, SetTimespan, PollThreads, LoopEnd, LoopEndsAt, JoinThreads,
       WriteFile, vars, gpu_vars
  <2>2. \/ pc' = pc
        \/ pc = "timespan" /\ pc' = "propagate"
        \/ pc' \notin ShaderSet \cup {"estimate", "timespan"}
    BY <1>3 DEF ReadFrame, SkipRead, AddFrame, SetTimespan, PollThreads, LoopEnd, LoopEndsAt, JoinThreads,
       WriteFile, vars, Goto, ShaderSet
  <2> QED
    BY <2>1, <2>2 DEF OpenInv
<1>4. CASE UploadRandomTex \/ Upload \/ VideoRead \/ CopyIn \/ CopyOut \/ Readback \/ SaveTexture
  <2>1. \/ pc' = pc /\ pc \notin {"estimate", "timespan"} /\ frame_index' = frame_index
        \/ pc' \notin ShaderSet \cup {"estimate", "timespan"}
        \/ open' = [open EXCEPT ![0] = FrameCount]
    <3>1. CASE Upload \/ Readback \/ SaveTexture
      BY <3>1 DEF Upload, Readback, SaveTexture, Goto, ShaderSet
    <3>2. CASE VideoRead
      BY <3>2 DEF VideoRead, CopyPlane, ExecuteEmpty, Goto, ShaderSet, Gpu!ExecuteAndReset
    <3>3. CASE CopyIn
      BY <1>1, <3>3 DEF CopyIn, CopyPlane, ExecuteEmpty, Goto, ShaderSet, Gpu!ExecuteAndReset, Gpu!Execute
    <3>4. CASE CopyOut
      BY <3>4 DEF CopyOut, ExecuteEmpty, Goto, ShaderSet
    <3>5. CASE UploadRandomTex
      BY <3>5 DEF UploadRandomTex, ExecuteEmpty, Goto, ShaderSet
    <3> QED
      BY <1>4, <3>1, <3>2, <3>3, <3>4, <3>5
  <2> QED
    BY <1>1, <2>1 DEF OpenInv, ShaderSet
<1>5. CASE ConvertToRgb \/ ConvertToNv12 \/ PropagateMotionBlur \/ GatherMotionBlur \/ OverlayMotionVector
  <2>1. \E v, job : Gpu!Execute(Compute, v, job)
    BY <1>5, Zenon DEF ConvertToRgb, ConvertToNv12, PropagateMotionBlur, GatherMotionBlur,
       OverlayMotionVector, Pass
  <2>2. open' = [open EXCEPT ![0] = FrameCount]
    BY <1>1, <2>1 DEF Gpu!Execute
  <2> QED
    BY <1>1, <2>2 DEF OpenInv
<1>6. CASE EstimateMotionVectors
  <2>1. pc = "estimate" /\ pc' = "timespan" /\ open' = [open EXCEPT ![1] = FrameCount]
    BY <1>1, <1>6 DEF EstimateMotionVectors, Pass, Goto, Gpu!Execute
  <2> QED
    BY <1>1, <2>1 DEF OpenInv, ShaderSet
<1>7. CASE Move \/ ReadbackWait \/ FinalWait
  BY <1>7 DEF Move, ReadbackWait, FinalWait, Goto, OpenInv, ShaderSet
<1>8. CASE GpuCall
  BY <1>8 DEF GpuCall, Gpu!CallStep, Gpu!PaceWait, Gpu!PaceDone, Gpu!StartSlot, Gpu!FlushSignal,
     Gpu!FlushWait, Gpu!FlushPassed, Gpu!FlushSkip, Gpu!FlushWoken, Gpu!WaitForGpuReturns, OpenInv
<1>9. ASSUME NEW q \in {0, 1}, GpuRuns(q) PROVE UNCHANGED <<frame_index, open, pc>>
  BY <1>9 DEF GpuRuns, Gpu!GpuStep, Gpu!GpuWait, Gpu!GpuExec, Gpu!GpuSignal
<1> QED
  BY <1>1, <1>2, <1>3, <1>4, <1>5, <1>6, <1>7, <1>8, <1>9 DEF Next, Main, OpenInv

\* A job is left that was left before, or that this step submits.
LEMMA JobsFrom ==
    ASSUME BaseInv, [Next]_vars, NEW job \in Undone'
    PROVE  job \in Undone \/ \E q \in {0, 1}, v \in Nat, n \in Window : job \in Jobs /\ Issues(q, v, job, n)
<1>1. CASE Quiet
  BY <1>1 DEF Quiet, QuietStep, SameUndone
<1>2. CASE JobSubmitted
  <2>1. PICK q \in {0, 1}, v \in Nat, other \in Jobs, n \in Window : Issues(q, v, other, n)
    BY <1>2 DEF JobSubmitted
  <2>2. Later(other) /\ Unneeded(other)
    BY <2>1, TurnComes DEF BaseInv, Issues
  <2>3. Joins(other)
    BY <2>1, <2>2, SubmitJob DEF BaseInv, Issues
  <2>4. job \in Undone \/ job = other
    BY <2>3 DEF Joins
  <2> QED
    BY <2>1, <2>4
<1>3. CASE ReadFrame /\ curr_frame < input.frames
  BY <1>3, ReadJobs DEF BaseInv, SameUndone
<1>4. CASE SaveTexture
  BY <1>4, SaveJobs DEF BaseInv
<1>5. CASE JobRun
  <2>1. PICK q \in {0, 1} : GpuRuns(q) /\ IsReal(queue[q][1])
    BY <1>5 DEF JobRun
  <2>2. Gpu!GpuStep(q)
    BY <2>1 DEF GpuRuns
  <2>3. Leaves(queue[q][1].job)
    BY <2>1, <2>2, GpuHalves DEF BaseInv
  <2> QED
    BY <2>3 DEF Leaves
<1> QED
  BY <1>1, <1>2, <1>3, <1>4, <1>5, StepKinds DEF BaseInv

\* A dispatch is submitted where its shader is, in a list that is open.
LEMMA ShaderIssued ==
    ASSUME BaseInv, [Next]_vars, NEW job \in Undone', job \notin Undone, job.op \in ShaderSet
    PROVE  pc = job.op /\ frame_index = job.slot /\ open[0] # FrameCount
<1>1. PICK q \in {0, 1}, v \in Nat, n \in Window : job \in Jobs /\ Issues(q, v, job, n)
  BY JobsFrom
<1>2. job.op # "read" /\ job.op # "estimate" /\ job.op # "readback"
  BY DEF ShaderSet
<1>3. q = 0 /\ pc = job.op /\ frame_index = job.slot
  BY <1>1, <1>2 DEF Issues
<1>4. Gpu!ExecuteOnly(0, v, job)
  BY <1>1, <1>3, Zenon DEF Issues, Gpu!Execute, Gpu!ExecuteAndReset
<1> QED
  BY <1>3, <1>4 DEF Gpu!ExecuteOnly, Gpu!NoSlot

BindInv ==
    /\ HeapPlaces
    /\ OpenInv
    /\ \A job \in Undone : job.op \in ShaderSet => BoundIn(descriptors, job.op, job.slot)
    /\ pc \in ShaderSet /\ open[0] # FrameCount => BoundIn(descriptors, pc, frame_index)

\* The views of the dispatches that are left are bound after every step.
LEMMA BindStep ==
    ASSUME BaseInv, BindInv, [Next]_vars, BindingStep
    PROVE  BindInv'
<1>1. /\ OpenInv'
      /\ pc' \in ShaderSet /\ open'[0] # FrameCount => pc' = pc /\ frame_index' = frame_index
  BY OpenStep DEF BindInv, BaseInv
<1>2. \A job \in Undone : job.slot \in 0 .. FrameCount - 1
  <2>1. \A job \in Jobs : job.slot \in 0 .. FrameCount - 1
    BY DEF Jobs
  <2> QED
    BY <2>1, UndoneJobs DEF BaseInv
<1>3. frame_index \in 0 .. FrameCount - 1
  BY GpuTypes DEF BaseInv
<1>4. /\ HeapPlaces'
      /\ \A job \in Undone : job.op \in ShaderSet => BoundIn(descriptors', job.op, job.slot)
      /\ pc \in ShaderSet /\ open[0] # FrameCount => BoundIn(descriptors', pc, frame_index)
      /\ WritesViews => BoundIn(descriptors', pc, frame_index)
  <2>1. CASE WritesViews /\ descriptors' = WithViews(pc, frame_index)
    <3>1. pc \in ShaderSet
      BY <2>1 DEF WritesViews
    <3>2. /\ HeapPlaces' /\ BoundIn(descriptors', pc, frame_index)
          /\ \A b \in ShaderSet, y \in 0 .. FrameCount - 1 :
               BoundIn(descriptors, b, y) => BoundIn(descriptors', b, y)
      BY <1>3, <2>1, <3>1, ViewsWritten DEF BindInv
    <3> QED
      BY <1>2, <1>3, <3>2 DEF BindInv
  <2>2. CASE ~WritesViews /\ descriptors' = descriptors
    BY <2>2 DEF BindInv, HeapPlaces
  <2> QED
    BY <2>1, <2>2 DEF BindingStep, RunComputeShader, Slot
<1>5. pc \in ShaderSet /\ open'[0] # FrameCount => WritesViews \/ open[0] # FrameCount
  BY DEF WritesViews, Gpu!NoSlot, Compute, Gpu!Compute
<1>6. pc' \in ShaderSet /\ open'[0] # FrameCount => BoundIn(descriptors', pc', frame_index')
  BY <1>1, <1>4, <1>5
<1>7. \A job \in Undone' : job.op \in ShaderSet => BoundIn(descriptors', job.op, job.slot)
  <2> TAKE job \in Undone'
  <2>1. CASE job \in Undone
    BY <1>4, <2>1
  <2>2. CASE job \notin Undone /\ job.op \in ShaderSet
    <3>1. pc = job.op /\ frame_index = job.slot /\ open[0] # FrameCount
      BY <2>2, ShaderIssued
    <3> QED
      BY <1>4, <2>2, <3>1
  <2> QED
    BY <2>1, <2>2
<1> QED
  BY <1>1, <1>4, <1>6, <1>7 DEF BindInv

(***************************************************************************)
(* The constants                                                           *)
(***************************************************************************)

\* The constants of a shader have been uploaded.
Uploaded(shader) ==
    /\ mapped[shader].sizes
    /\ shader = "propagate" => mapped[shader].timespan # 0

ConstantTypes(c) == c \in [ShaderSet -> [sizes : BOOLEAN, timespan : Nat]]

ConstInv ==
    /\ ConstantTypes(staging)
    /\ ConstantTypes(mapped)
    /\ created => \A shader \in ShaderSet :
                    staging[shader].sizes /\ (shader # "propagate" => mapped[shader].sizes)
    /\ pc = "propagate" => Uploaded("propagate")
    /\ \A job \in Undone : job.op \in ShaderSet => Uploaded(job.op)

\* The steps that the constants depend on.
LEMMA ConstantKinds ==
    ASSUME BaseInv, [Next]_vars
    PROVE  /\ pc = "add_frame" /\ pc' # pc => first_frame' = ~created /\ created'
           /\ pc = "timespan" /\ pc' # pc => SetTimespan /\ created /\ created'
           /\ created' => created \/ (pc = "add_frame" /\ pc' # pc)
           /\ created => created'
           /\ pc \in ShaderSet => created
<1>1. created \in BOOLEAN
  BY DEF BaseInv, ControlInv, MainTypes
<1>2. pc \in ShaderSet \cup {"timespan"} => created
  <2>1. pc \in ShaderSet \cup {"timespan"} => pc \in Body \ Reading
    BY DEF ShaderSet, Body, Reading
  <2>2. pc \in Body => curr_frame >= 1 /\ curr_frame \in Nat
    BY WindowFacts DEF BaseInv
  <2>3. created <=> curr_frame > 1 \/ (curr_frame = 1 /\ pc \notin Reading)
    BY DEF BaseInv, ControlInv, Branches
  <2> QED
    BY <2>1, <2>2, <2>3
<1>3. CASE AddFrame
  BY <1>1, <1>2, <1>3 DEF AddFrame, Goto
<1>4. CASE SetTimespan
  BY <1>1, <1>2, <1>4 DEF SetTimespan, Goto
<1>5. CASE UNCHANGED vars
  BY <1>1, <1>2, <1>5 DEF vars, main_vars
<1>6. CASE \/ \E q \in Gpu!CmdQueues : CreateCommandList(q)
           \/ GpuCall
           \/ \E q \in Gpu!CmdQueues : GpuRuns(q)
           \/ \E k \in DOMAIN writer : WriteFile(k)
  <2>1. created' = created /\ pc' = pc
    BY <1>6 DEF CreateCommandList, GpuCall, GpuRuns, WriteFile, main_vars
  <2> QED
    BY <1>1, <1>2, <2>1
<1>7. CASE \/ UploadRandomTex
           \/ ReadFrame \/ SkipRead \/ Upload \/ VideoRead
           \/ CopyIn \/ ConvertToRgb \/ ConvertToNv12 \/ CopyOut
           \/ EstimateMotionVectors \/ PropagateMotionBlur \/ GatherMotionBlur
           \/ OverlayMotionVector
           \/ Move
           \/ PollThreads \/ Readback \/ ReadbackWait \/ SaveTexture \/ LoopEnd
           \/ JoinThreads \/ FinalWait
  <2>1. created' = created /\ pc \notin {"add_frame", "timespan"}
    BY <1>7 DEF UploadRandomTex, ReadFrame, SkipRead, Upload, VideoRead, CopyPlane, ExecuteEmpty, CopyIn,
       ConvertToRgb, ConvertToNv12, CopyOut, EstimateMotionVectors, PropagateMotionBlur,
       GatherMotionBlur, OverlayMotionVector, Pass, Move, PollThreads, Readback, ReadbackWait,
       SaveTexture, LoopEnd, LoopEndsAt, JoinThreads, FinalWait, main_vars
  <2> QED
    BY <1>1, <1>2, <2>1
<1> QED
  BY <1>3, <1>4, <1>5, <1>6, <1>7 DEF Next, Main

\* The constants of the dispatches that are left are uploaded after every step.
LEMMA ConstStep ==
    ASSUME BaseInv, ConstInv, [Next]_vars, ConstantStep
    PROVE  ConstInv'
<1>1. /\ pc = "add_frame" /\ pc' # pc => first_frame' = ~created /\ created'
      /\ pc = "timespan" /\ pc' # pc => SetTimespan /\ created /\ created'
      /\ created' => created \/ (pc = "add_frame" /\ pc' # pc)
      /\ pc \in ShaderSet => created
  BY ConstantKinds
<1>2. created \in BOOLEAN /\ "propagate" \in ShaderSet /\ "add_frame" \notin ShaderSet
      /\ "timespan" \notin ShaderSet
  BY DEF BaseInv, ControlInv, MainTypes, ShaderSet
<1>3. pc' = "propagate" => SetTimespan \/ pc = "propagate"
  BY PropagateFrom
<1>4. SetTimespan => pc = "timespan" /\ pc' # pc /\ cb' \in Nat \ {0}
  <2>1. curr_frame \in Nat
    BY WindowFacts DEF BaseInv
  <2>2. pc = "timespan" => curr_frame > 1
    BY DEF BaseInv, ControlInv, Branches
  <2> QED
    BY <2>1, <2>2 DEF SetTimespan, Goto, Stream!Timespan
<1>5. \A job \in Undone' : job.op \in ShaderSet => job \in Undone \/ pc = job.op
  BY ShaderIssued
<1>6. /\ ConstantTypes(staging') /\ ConstantTypes(mapped')
      /\ created' => \A shader \in ShaderSet :
                       staging'[shader].sizes /\ (shader # "propagate" => mapped'[shader].sizes)
      /\ \A shader \in ShaderSet : Uploaded(shader) => Uploaded(shader)'
      /\ pc' = "propagate" => Uploaded("propagate")'
  <2>1. CASE AddFrameConstants
    <3>1. CASE first_frame'
      <4>1. /\ staging' = [shader \in ShaderSet |-> [staging[shader] EXCEPT !.sizes = TRUE]]
            /\ mapped' = [shader \in ShaderSet |->
                            IF shader \in ShaderSet \ {"propagate"} THEN staging'[shader] ELSE mapped[shader]]
        BY <2>1, <3>1 DEF AddFrameConstants, UploadToGpu
      <4>2. ConstantTypes(staging') /\ \A shader \in ShaderSet : staging'[shader].sizes = TRUE
        BY <4>1 DEF ConstInv, ConstantTypes
      <4>3. pc' # "propagate"
        BY <1>2, <1>3, <1>4, <2>1 DEF AddFrameConstants
      <4> QED
        BY <4>1, <4>2, <4>3 DEF ConstInv, ConstantTypes, Uploaded
    <3>2. CASE ~first_frame'
      <4>1. UNCHANGED <<staging, mapped>> /\ created
        BY <1>1, <1>2, <2>1, <3>2 DEF AddFrameConstants, constant_vars, WritesConstants
      <4>2. pc' # "propagate"
        BY <1>2, <1>3, <1>4, <2>1 DEF AddFrameConstants
      <4> QED
        BY <4>1, <4>2 DEF ConstInv, Uploaded
    <3> QED
      BY <3>1, <3>2
  <2>2. CASE TimespanConstants
    <3>1. SetTimespan /\ created
      BY <1>1, <2>2 DEF TimespanConstants, WritesConstants
    <3>2. /\ staging' = [staging EXCEPT !["propagate"].timespan = cb']
          /\ mapped' = [shader \in ShaderSet |->
                          IF shader \in {"propagate"} THEN staging'[shader] ELSE mapped[shader]]
      BY <2>2 DEF TimespanConstants, UploadToGpu
    <3>3. /\ ConstantTypes(staging')
          /\ staging'["propagate"].sizes = staging["propagate"].sizes /\ staging'["propagate"].timespan = cb'
      BY <1>2, <1>4, <3>1, <3>2 DEF ConstInv, ConstantTypes
    <3>4. \A shader \in ShaderSet : shader # "propagate" => staging'[shader] = staging[shader]
      BY <1>2, <3>2 DEF ConstInv, ConstantTypes
    <3> QED
      BY <1>2, <1>4, <3>1, <3>2, <3>3, <3>4 DEF ConstInv, ConstantTypes, Uploaded
  <2>3. CASE ~WritesConstants /\ UNCHANGED <<staging, mapped>>
    <3>1. created' => created
      BY <1>1, <2>3 DEF WritesConstants
    <3>2. pc' = "propagate" => pc = "propagate"
      BY <1>3, <1>4, <2>3 DEF WritesConstants
    <3> QED
      BY <2>3, <3>1, <3>2 DEF ConstInv, Uploaded
  <2> QED
    BY <2>1, <2>2, <2>3 DEF ConstantStep, constant_vars
<1>7. \A job \in Undone' : job.op \in ShaderSet => Uploaded(job.op)'
  <2> TAKE job \in Undone'
  <2>1. CASE job \in Undone
    BY <1>6, <2>1 DEF ConstInv
  <2>2. CASE pc = job.op /\ job.op \in ShaderSet
    <3>1. Uploaded(job.op)
      BY <1>1, <2>2 DEF ConstInv, Uploaded
    <3> QED
      BY <1>6, <2>2, <3>1
  <2> QED
    BY <1>5, <2>1, <2>2
<1> QED
  BY <1>6, <1>7 DEF ConstInv

(***************************************************************************)
(* The program with its resources is the program                           *)
(***************************************************************************)

\* A step with the resources is a step of the program.
LEMMA ResourceSteps ==
    ASSUME [ProgramNext]_resource_vars
    PROVE  /\ [Next]_vars
           /\ ResourceNext \/ UNCHANGED <<vars, state_vars>>
           /\ BindingStep
           /\ ConstantStep
<1>1. CASE ProgramNext
  <2>1. ResourceNext => [Next]_vars
    BY DEF ResourceNext, CpuStep, SavingStep, GpuRunsCommand, GpuRunsEntry, Next
  <2> QED
    BY <1>1, <2>1 DEF ProgramNext
<1>2. CASE UNCHANGED resource_vars
  <2>1. /\ UNCHANGED <<vars, state_vars, descriptors, constant_vars>>
        /\ open' = open /\ pc' = pc
    BY <1>2 DEF resource_vars, vars, gpu_vars
  <2>2. ~WritesViews /\ ~WritesConstants
    BY <2>1 DEF WritesViews, WritesConstants
  <2> QED
    BY <2>1, <2>2 DEF BindingStep, ConstantStep
<1> QED
  BY <1>1, <1>2

\* What is proved of the program holds with its textures' states, its descriptors and its
\* constants: each step of ProgramResources is one of MotionToGo or a stutter.
THEOREM ResourcesFollowProgram == ProgramSpec => Spec
<1>1. ProgramInit => Init
  BY DEF ProgramInit, ResourceInit
<1>2. [ProgramNext]_resource_vars => [Next]_vars
  BY ResourceSteps
<1> QED
  BY <1>1, <1>2, PTL DEF ProgramSpec, Spec

(***************************************************************************)
(* Every dispatch finds its inputs                                         *)
(***************************************************************************)

InputInv == BindInv /\ ConstInv

\* No job is left to do when the program begins.
LEMMA NothingUndone == ASSUME Init PROVE \A job : job \notin Undone
<1>1. queue = [q \in {0, 1} |-> <<>>]
  BY Zenon DEF Init, Gpu!Init, Gpu!CmdQueues, Gpu!Compute, Gpu!VideoEncode
<1> QED
  BY <1>1 DEF Undone, Left

\* The resources begin as bound and uploaded as need be.
LEMMA InputInit == ProgramInit => InputInv
<1> SUFFICES ASSUME ProgramInit PROVE InputInv
  OBVIOUS
<1>1. /\ \A job : job \notin Undone
      /\ pc = "random_tex" /\ created = FALSE
  BY NothingUndone DEF ProgramInit, ResourceInit, Init
<1>2. BindInv
  BY <1>1 DEF ProgramInit, BindingInit, BindInv, HeapPlaces, OpenInv, ShaderSet
<1>3. ConstInv
  BY <1>1 DEF ProgramInit, ConstantInit, Zeroed, ConstInv, ConstantTypes
<1> QED
  BY <1>2, <1>3 DEF InputInv

\* A dispatch at the head of its queue is one that is left.
LEMMA InputFound ==
    ASSUME BaseInv, InputInv
    PROVE  DispatchesFindTheirInputs
<1>1. SUFFICES ASSUME NEW n \in Dispatches, n = 1
               PROVE  LET job == queue[Compute][n].job
                      IN  /\ Bound(job.op, job.slot) /\ Uploaded(job.op)
  BY Zenon DEF DispatchesFindTheirInputs, ShadersFindTheirTextures, ConstantsReady, Bound, Uploaded
<1> DEFINE job == queue[0][1].job
<1>2. Compute = 0
  BY DEF Compute, Gpu!Compute
<1>3. queue[0] \in Seq(Known!Entry)
  BY GpuTypes DEF BaseInv
<1>4. 1 \in 1 .. Len(queue[0]) /\ IsReal(queue[0][1]) /\ job.op \in ShaderSet
  BY <1>1, <1>2, <1>3 DEF Dispatches, IsReal
<1>5. job \in Undone
  BY <1>4 DEF Undone, Left
<1>6. job \in Jobs
  BY <1>5, UndoneJobs DEF BaseInv
<1>7. job.slot \in 0 .. FrameCount - 1
  BY <1>6 DEF Jobs
<1>8. BoundIn(descriptors, job.op, job.slot) /\ Uploaded(job.op)
  BY <1>4, <1>5 DEF InputInv, BindInv, ConstInv
<1>9. Bound(job.op, job.slot)
  BY <1>4, <1>7, <1>8, BoundPlaces, Zenon DEF BoundIn
<1> QED
  BY <1>1, <1>2, <1>8, <1>9

\* When the GPU reaches a dispatch (RunComputeShader), every register of its shader names the
\* texture, plane and slot that it is about, and its constants are uploaded, for inputs that the
\* readers decode and calls that do not fail.
THEOREM DispatchInputs == Faultless => (ProgramSpec => []DispatchesFindTheirInputs)
<1> SUFFICES ASSUME Faultless PROVE ProgramSpec => []DispatchesFindTheirInputs
  OBVIOUS
<1>1. FullInv /\ InputInv /\ [ProgramNext]_resource_vars => InputInv'
  BY ResourceSteps, BindStep, ConstStep DEF FullInv, InputInv
<1>2. FullInv /\ InputInv => DispatchesFindTheirInputs
  BY InputFound DEF FullInv
<1>3. ProgramSpec => []FullInv
  BY ResourcesFollowProgram, Invariant
<1> QED
  BY <1>1, <1>2, <1>3, InputInit, PTL DEF ProgramSpec

(***************************************************************************)
(* What a command does to a texture                                        *)
(***************************************************************************)

AllStates == {"COMMON", "COPY_SOURCE", "COPY_DEST", "UNORDERED_ACCESS", "VIDEO_ENCODE_READ",
              "VIDEO_ENCODE_WRITE"}

\* A texture has one subresource or two.
SubResources == {{0}, {0, 1}}

\* The subresources d of a texture are all in state a.
Uniform(d, a) == [s \in d |-> a]

\* The command finds the states a as it needs them and makes b of them.
Performs(c, a, b) ==
    /\ b = AfterCommand(c, a)
    /\ c.kind = "barrier" => \A s \in c.covered : a[s] = c.before[s]
    /\ c.kind = "use" => a[c.sub_resource] = c.state

\* What a command can be.
StateMaps == [{0} -> AllStates] \cup [{0, 1} -> AllStates]
CommandSet ==
    [kind : {"barrier"}, covered : SUBSET {0, 1}, before : StateMaps, after : StateMaps]
    \cup [kind : {"use"}, covered : {{}}, before : StateMaps, after : StateMaps,
          sub_resource : {0, 1}, state : AllStates]

VideoStates == {"COMMON", "VIDEO_ENCODE_READ", "VIDEO_ENCODE_WRITE"}
NamesVideoStates(c) == \A s \in c.covered : {c.before[s], c.after[s]} \subseteq VideoStates

\* A transition of a texture that is in one state finds that state and leaves the other one.
LEMMA UniformTransition ==
    ASSUME NEW d \in SubResources, NEW a \in AllStates, NEW b \in AllStates
    PROVE  LET c == Transition(Uniform(d, a), b)
           IN  /\ c \in CommandSet
               /\ Performs(c, Uniform(d, a), Uniform(d, b))
               /\ c.after = Uniform(d, b)
               /\ a \in VideoStates /\ b \in VideoStates => NamesVideoStates(c)
<1> DEFINE u == Uniform(d, a)
           c == IF a # b THEN Barrier(d, u, Uniform(d, b)) ELSE Barrier({}, u, Uniform(d, b))
<1>1. DOMAIN u = d /\ 0 \in d /\ \A s \in d : u[s] = a
  BY DEF Uniform, SubResources
<1>2. All(u, b) = Uniform(d, b) /\ All(u, u[0]) = u /\ SameState(u)
  BY <1>1 DEF All, Uniform, SameState
<1>3. Transition(u, b) = c
  <2> HIDE DEF u
  <2>1. CASE OnlyOrders(u, b)
    BY <1>1, <1>2, <2>1 DEF Transition, OnlyOrders
  <2>2. CASE ~OnlyOrders(u, b)
    BY <1>1, <1>2, <2>2 DEF Transition
  <2> QED
    BY <2>1, <2>2
<1>4. Performs(c, u, Uniform(d, b)) /\ c.after = Uniform(d, b)
  <2>1. CASE a # b
    BY <1>1, <2>1 DEF Performs, Barrier, AfterCommand, Uniform
  <2>2. CASE a = b
    BY <1>1, <2>2 DEF Performs, Barrier, AfterCommand, Uniform
  <2> QED
    BY <2>1, <2>2
<1>5. a \in VideoStates /\ b \in VideoStates => NamesVideoStates(c)
  BY <1>1 DEF NamesVideoStates, Barrier, Uniform
<1>6. c \in CommandSet
  <2>1. u \in StateMaps /\ Uniform(d, b) \in StateMaps /\ d \in SUBSET {0, 1}
    BY DEF StateMaps, Uniform, SubResources
  <2> HIDE DEF u
  <2> QED
    BY <2>1 DEF CommandSet, Barrier
<1> HIDE DEF c
<1> QED
  BY <1>3, <1>4, <1>5, <1>6

\* A use of a texture that is in the state it needs.
LEMMA UniformUse ==
    ASSUME NEW d \in SubResources, NEW s \in d, NEW a \in AllStates
    PROVE  LET c == Use(s, a, Uniform(d, a))
           IN  /\ c \in CommandSet
               /\ Performs(c, Uniform(d, a), Uniform(d, a))
               /\ c.after = Uniform(d, a)
               /\ NamesVideoStates(c)
<1> DEFINE c == Use(s, a, Uniform(d, a))
<1>1. Uniform(d, a) \in StateMaps /\ s \in {0, 1} /\ Uniform(d, a)[s] = a
      /\ Uniform(d, a) = [x \in DOMAIN Uniform(d, a) |-> Uniform(d, a)[x]]
  BY DEF StateMaps, Uniform, SubResources
<1>2. c \in CommandSet
  BY <1>1 DEF CommandSet, Use
<1> QED
  BY <1>1, <1>2 DEF Use, Performs, AfterCommand, NamesVideoStates

(***************************************************************************)
(* What a list records                                                     *)
(***************************************************************************)

\* What is recorded after each act of a script is this, if each act makes the next of it.
LEMMA RecordingIs ==
    ASSUME NEW script, Len(script) \in Nat, NEW g,
           g[0] = [commands |-> <<>>, states |-> curr_states],
           \A n \in 1 .. Len(script) : g[n] = RecordAct(script[n], g[n - 1])
    PROVE  Recording(script)[Len(script)] = g[Len(script)]
<1> DEFINE N == Len(script)
           begin == [commands |-> <<>>, states |-> curr_states]
           Rec(f) == [n \in 0 .. N |-> IF n = 0 THEN begin ELSE RecordAct(script[n], f[n - 1])]
           made == [n \in 0 .. N |-> g[n]]
           recorded == CHOOSE f : f = Rec(f)
           Same == {n \in Nat : n <= N => recorded[n] = g[n]}
<1>1. made = Rec(made)
  <2>1. ASSUME NEW n \in 0 .. N PROVE g[n] = IF n = 0 THEN begin ELSE RecordAct(script[n], made[n - 1])
    <3>1. CASE n = 0
      BY <3>1
    <3>2. CASE n # 0
      <4>1. n \in 1 .. N /\ n - 1 \in 0 .. N
        BY <3>2
      <4> QED
        BY <3>2, <4>1
    <3> QED
      BY <3>1, <3>2
  <2> QED
    BY <2>1
<1>2. recorded = Rec(recorded)
  BY <1>1, Zenon
<1> HIDE DEF recorded
<1>3. recorded[0] = g[0]
  BY <1>2
<1>4. ASSUME NEW n \in Nat, n + 1 <= N, recorded[n] = g[n] PROVE recorded[n + 1] = g[n + 1]
  <2>1. n + 1 \in 0 .. N /\ n + 1 \in 1 .. N /\ n + 1 # 0 /\ (n + 1) - 1 = n
    BY <1>4
  <2>2. recorded[n + 1] = RecordAct(script[n + 1], recorded[n])
    BY <1>2, <2>1
  <2> QED
    BY <1>4, <2>1, <2>2
<1>5. N \in Same
  <2>1. 0 \in Same
    BY <1>3
  <2>2. \A n \in Nat : n \in Same => n + 1 \in Same
    BY <1>4
  <2> HIDE DEF Same
  <2> QED
    BY <2>1, <2>2, Lists!NatSetInduction
<1>6. Recording(script) = recorded
  BY Zenon DEF Recording, recorded
<1> QED
  BY <1>5, <1>6

\* The subresources of a texture, and the textures as they are between the lists.
Subs(t) == DOMAIN NewStates(t)
NewTex == [t \in Textures |-> NewStates(t)]

\* The commands that are recorded.
Commands == [tex : Textures, command : CommandSet]

\* The textures that a list may touch.
Touches(job) ==
    {t \in Textures :
       IF job.op = "estimate"
         THEN t \in {TextureOf("scaled", job.slot), TextureOf("scaled", Gpu!PrevSlot(job.slot)),
                     TextureOf("raw_mv", job.slot)}
         ELSE /\ t = RandomTable \/ t[2] = job.slot
              /\ t[1] = "scaled" => job.op = "to_nv12"
              /\ t[1] = "raw_mv" => job.op = "propagate"}

\* In the states h[0], h[1], ... each command of the list finds what it needs, touches only
\* textures of the job, and leaves those of the job as new.
Plays(l, job, h, new) ==
    /\ \A n \in 1 .. Len(l) :
         /\ l[n].tex \in Touches(job)
         /\ Performs(l[n].command, h[n - 1][l[n].tex], h[n][l[n].tex])
         /\ \A t \in Touches(job) : t # l[n].tex => h[n][t] = h[n - 1][t]
         /\ job.op = "estimate" => NamesVideoStates(l[n].command)
    /\ \A t \in Touches(job) : h[Len(l)][t] = new[t]

\* The list can be run in states g.
ListFor(l, job, g, new) == \E h : Plays(l, job, h, new) /\ \A t \in Touches(job) : h[0][t] = g[t]

\* In track there are the states of the textures after 0, 1, ... acts of a script, each of them
\* the same for all subresources. A use finds the state it needs.
Drives(script, track) ==
    /\ Len(script) \in Nat
    /\ \A n \in 0 .. Len(script), t \in Textures : track[n][t] \in AllStates
    /\ \A t \in Textures : track[0][t] = "COMMON" /\ track[Len(script)][t] = "COMMON"
    /\ \A n \in 1 .. Len(script) :
         /\ script[n].tex \in Textures
         /\ track[n][script[n].tex] = script[n].state
         /\ \A t \in Textures : t # script[n].tex => track[n][t] = track[n - 1][t]
         /\ script[n].act # "to" =>
              /\ track[n - 1][script[n].tex] = script[n].state
              /\ script[n].sub_resource \in Subs(script[n].tex)

\* A new texture has one or two subresources, in one state.
LEMMA NewUniform ==
    ASSUME NEW t
    PROVE  Subs(t) \in SubResources /\ NewStates(t) = Uniform(Subs(t), "COMMON")
BY DEF Subs, NewStates, Uniform, SubResources

\* The first n of them.
FirstOf(f, n) == [k \in 1 .. n |-> f[k]]

\* The first n + 1 elements are the first n and one more.
LEMMA FirstOfNext ==
    ASSUME NEW S, NEW N \in Nat, NEW f \in [1 .. N -> S], NEW n \in 1 .. N
    PROVE  FirstOf(f, n) = Append(FirstOf(f, n - 1), f[n])
<1>1. FirstOf(f, n - 1) \in [1 .. n - 1 -> S] /\ n - 1 \in Nat
  BY DEF FirstOf
<1>2. FirstOf(f, n - 1) \in Seq(S) /\ Len(FirstOf(f, n - 1)) = n - 1
  BY <1>1, FunctionIsSeq
<1>3. f[n] \in S
  OBVIOUS
<1> DEFINE a == Append(FirstOf(f, n - 1), f[n])
<1>4. /\ a \in Seq(S) /\ Len(a) = n /\ a[n] = f[n]
      /\ \A k \in 1 .. n - 1 : a[k] = f[k]
  <2>1. \A k \in 1 .. n - 1 : FirstOf(f, n - 1)[k] = f[k]
    BY DEF FirstOf
  <2> HIDE DEF FirstOf
  <2> QED
    BY <1>2, <1>3, <2>1
<1> HIDE DEF a
<1>5. a = [k \in 1 .. n |-> a[k]]
  BY <1>4
<1>6. \A k \in 1 .. n : a[k] = f[k]
  BY <1>4
<1> QED
  BY <1>5, <1>6 DEF FirstOf, a

\* The command that an act records on a texture with subresources d in state x.
CommandOf(act, d, x) ==
    IF act.act = "to" THEN Transition(Uniform(d, x), act.state)
                      ELSE Use(act.sub_resource, act.state, Uniform(d, x))

\* An act adds its command to what is recorded.
LEMMA ActRecorded ==
    ASSUME NEW act, NEW r, NEW d, NEW x, r.states[act.tex] = Uniform(d, x)
    PROVE  RecordAct(act, r) =
             [commands |-> Append(r.commands, [tex |-> act.tex, command |-> CommandOf(act, d, x)]),
              states |-> [r.states EXCEPT ![act.tex] = CommandOf(act, d, x).after]]
BY Zenon DEF RecordAct, CommandOf

\* A script that drives its textures records a list that can be run in the order of the acts.
LEMMA ListRecorded ==
    ASSUME curr_states = NewTex, NEW job, NEW track, Drives(Script(job), track),
           \A n \in 1 .. Len(Script(job)) : Script(job)[n].tex \in Touches(job),
           job.op = "estimate" =>
               \A n \in 0 .. Len(Script(job)), t \in Textures : track[n][t] \in VideoStates
    PROVE  /\ Recorded(job).commands \in Seq(Commands)
           /\ Recorded(job).states = NewTex
           /\ ListFor(Recorded(job).commands, job, NewTex, NewTex)
<1> DEFINE script == Script(job)
           N == Len(script)
           C(n) == CommandOf(script[n], Subs(script[n].tex), track[n - 1][script[n].tex])
           S(n) == [t \in Textures |-> Uniform(Subs(t), track[n][t])]
           list == [n \in 1 .. N |-> [tex |-> script[n].tex, command |-> C(n)]]
           h == [n \in 0 .. N |-> S(n)]
           g == [n \in 0 .. N |-> [commands |-> FirstOf(list, n), states |-> S(n)]]
<1>1. N \in Nat /\ \A n \in 1 .. N : n \in 0 .. N /\ n - 1 \in 0 .. N
  BY DEF Drives
<1>2. ASSUME NEW n \in 1 .. N
      PROVE  LET t == script[n].tex
             IN  /\ t \in Textures /\ C(n) \in CommandSet
                 /\ C(n).after = Uniform(Subs(t), track[n][t])
                 /\ Performs(C(n), Uniform(Subs(t), track[n - 1][t]), Uniform(Subs(t), track[n][t]))
                 /\ job.op = "estimate" => NamesVideoStates(C(n))
  <2> DEFINE t == script[n].tex
             d == Subs(t)
             a == track[n - 1][t]
             b == track[n][t]
  <2>1. /\ t \in Textures /\ a \in AllStates /\ b \in AllStates /\ b = script[n].state
        /\ script[n].act # "to" => a = b /\ script[n].sub_resource \in d
        /\ job.op = "estimate" => a \in VideoStates /\ b \in VideoStates
    <3>1. n \in 0 .. N /\ n - 1 \in 0 .. N
      BY <1>1
    <3>2. t \in Textures /\ b = script[n].state
      BY DEF Drives
    <3>3. a \in AllStates /\ b \in AllStates
      BY <3>1, <3>2 DEF Drives
    <3>4. script[n].act # "to" => a = b /\ script[n].sub_resource \in d
      BY DEF Drives
    <3> QED
      BY <3>1, <3>2, <3>3, <3>4
  <2>2. d \in SubResources
    BY NewUniform
  <2> HIDE DEF t, d, a, b
  <2> DEFINE c == CommandOf(script[n], d, a)
             Fits == /\ t \in Textures /\ c \in CommandSet /\ c.after = Uniform(d, b)
                     /\ Performs(c, Uniform(d, a), Uniform(d, b))
                     /\ job.op = "estimate" => NamesVideoStates(c)
  <2>3. ASSUME script[n].act = "to" PROVE Fits
    <3>1. CommandOf(script[n], d, a) = Transition(Uniform(d, a), b)
      BY <2>1, <2>3 DEF CommandOf
    <3>2. Transition(Uniform(d, a), b) \in CommandSet
      BY <2>1, <2>2, UniformTransition
    <3> QED
      BY <2>1, <2>2, <3>1, <3>2, UniformTransition
  <2>4. ASSUME script[n].act # "to" PROVE Fits
    <3>1. CommandOf(script[n], d, a) = Use(script[n].sub_resource, a, Uniform(d, a)) /\ a = b
      BY <2>1, <2>4 DEF CommandOf
    <3>2. Use(script[n].sub_resource, a, Uniform(d, a)) \in CommandSet
      BY <2>1, <2>2, <2>4, UniformUse
    <3> QED
      BY <2>1, <2>2, <2>4, <3>1, <3>2, UniformUse
  <2>5. Fits
    BY <2>3, <2>4
  <2> QED
    BY <2>5 DEF t, d, a, b
<1>3. list \in [1 .. N -> Commands]
  BY <1>2 DEF Commands
<1>4. list \in Seq(Commands) /\ Len(list) = N
  BY <1>1, <1>3, FunctionIsSeq
<1>5. S(0) = NewTex /\ S(N) = NewTex
  BY NewUniform DEF NewTex, Drives
<1>6. ASSUME NEW n \in 1 .. N
      PROVE  S(n) = [S(n - 1) EXCEPT ![script[n].tex] = C(n).after]
  <2>1. \A t \in Textures : t # script[n].tex => track[n][t] = track[n - 1][t]
    BY DEF Drives
  <2> HIDE DEF C
  <2> QED
    BY <1>2, <2>1
<1>7. ASSUME NEW n \in 1 .. N
      PROVE  g[n] = RecordAct(script[n], g[n - 1])
  <2>1. n \in 0 .. N /\ n - 1 \in 0 .. N
    BY <1>1
  <2>2. g[n] = [commands |-> FirstOf(list, n), states |-> S(n)]
        /\ g[n - 1] = [commands |-> FirstOf(list, n - 1), states |-> S(n - 1)]
    BY <2>1
  <2>3. FirstOf(list, n) = Append(FirstOf(list, n - 1), list[n])
    BY <1>1, <1>3, FirstOfNext
  <2>4. list[n] = [tex |-> script[n].tex, command |-> C(n)]
    OBVIOUS
  <2>5. S(n - 1)[script[n].tex] = Uniform(Subs(script[n].tex), track[n - 1][script[n].tex])
    BY <1>2
  <2> HIDE DEF S, list, g
  <2>7. RecordAct(script[n], g[n - 1]) =
          [commands |-> Append(FirstOf(list, n - 1), [tex |-> script[n].tex, command |-> C(n)]),
           states |-> [S(n - 1) EXCEPT ![script[n].tex] = C(n).after]]
    <3>1. /\ g[n - 1].states[script[n].tex] = Uniform(Subs(script[n].tex), track[n - 1][script[n].tex])
          /\ g[n - 1].states = S(n - 1) /\ g[n - 1].commands = FirstOf(list, n - 1)
      BY <2>2, <2>5
    <3>2. RecordAct(script[n], g[n - 1]) =
            [commands |-> Append(g[n - 1].commands, [tex |-> script[n].tex, command |-> C(n)]),
             states |-> [g[n - 1].states EXCEPT ![script[n].tex] = C(n).after]]
      <4> DEFINE act == script[n]
                 r == g[n - 1]
                 d == Subs(act.tex)
                 x == track[n - 1][act.tex]
      <4>1. r.states[act.tex] = Uniform(d, x)
        BY <3>1
      <4> HIDE DEF act, r, d, x
      <4>2. RecordAct(act, r) =
              [commands |-> Append(r.commands, [tex |-> act.tex, command |-> CommandOf(act, d, x)]),
               states |-> [r.states EXCEPT ![act.tex] = CommandOf(act, d, x).after]]
        BY <4>1, ActRecorded
      <4> QED
        BY <4>2, Zenon DEF act, r, d, x, C
    <3> QED
      BY <3>1, <3>2, Zenon
  <2> QED
    BY <1>6, <2>2, <2>3, <2>4, <2>7
<1>8. g[0] = [commands |-> <<>>, states |-> curr_states]
  <2>1. 0 \in 0 .. N
    BY <1>1
  <2>2. FirstOf(list, 0) = <<>>
    BY DEF FirstOf
  <2> QED
    BY <1>5, <2>1, <2>2
<1>9. Recorded(job) = [commands |-> list, states |-> NewTex]
  <2>1. Recorded(job) = g[N]
    <3> HIDE DEF g
    <3> QED
      BY <1>1, <1>7, <1>8, RecordingIs DEF Recorded
  <2>2. N \in 0 .. N /\ FirstOf(list, N) = list
    BY <1>1 DEF FirstOf
  <2> HIDE DEF list, S
  <2> QED
    BY <1>5, <2>1, <2>2
<1>10. Plays(list, job, h, NewTex)
  <2>1. ASSUME NEW n \in 1 .. N
        PROVE  /\ list[n].tex \in Touches(job)
               /\ Performs(list[n].command, h[n - 1][list[n].tex], h[n][list[n].tex])
               /\ \A t \in Touches(job) : t # list[n].tex => h[n][t] = h[n - 1][t]
               /\ job.op = "estimate" => NamesVideoStates(list[n].command)
    <3>1. list[n].tex = script[n].tex /\ list[n].command = C(n)
      OBVIOUS
    <3>2. h[n] = S(n) /\ h[n - 1] = S(n - 1)
      BY <1>1
    <3>3. \A t \in Textures : /\ S(n)[t] = Uniform(Subs(t), track[n][t])
                              /\ S(n - 1)[t] = Uniform(Subs(t), track[n - 1][t])
      OBVIOUS
    <3>4. \A t \in Textures : t # script[n].tex => track[n][t] = track[n - 1][t]
      BY DEF Drives
    <3>5. \A t \in Touches(job) : t \in Textures
      BY DEF Touches
    <3> HIDE DEF list, h, S, C
    <3> QED
      BY <1>2, <3>1, <3>2, <3>3, <3>4, <3>5
  <2>2. h[N] = NewTex
    BY <1>1, <1>5
  <2> HIDE DEF list, h
  <2> QED
    BY <1>4, <2>1, <2>2 DEF Plays
<1>11. h[0] = NewTex
  BY <1>1, <1>5
<1> HIDE DEF list, h
<1> QED
  BY <1>4, <1>9, <1>10, <1>11 DEF ListFor

(***************************************************************************)
(* What the states are after each act of a script                          *)
(***************************************************************************)

\* A copy has its source from act 1 to act 5 and its target from act 2 to act 6.
CopyTrack(dst, src) ==
    [n \in 0 .. 6 |-> [t \in Textures |->
        IF t = src /\ n \in 1 .. 4 THEN "COPY_SOURCE"
        ELSE IF t = dst /\ n \in 2 .. 5 THEN "COPY_DEST" ELSE "COMMON"]]

\* An upload or a readback has its texture from act 1 to act 3.
OneTrack(dst, state) ==
    [n \in 0 .. 3 |-> [t \in Textures |-> IF t = dst /\ n \in 1 .. 2 THEN state ELSE "COMMON"]]

EstimateTrack(ref, input_frame, output) ==
    [n \in 0 .. 9 |-> [t \in Textures |->
        IF (t = ref /\ n \in 1 .. 6) \/ (t = input_frame /\ n \in 2 .. 7) THEN "VIDEO_ENCODE_READ"
        ELSE IF t = output /\ n \in 5 .. 8 THEN "VIDEO_ENCODE_WRITE" ELSE "COMMON"]]

\* The CPU takes a texture to be in COMMON before it records a list.
LEMMA CommonNow ==
    ASSUME curr_states = NewTex, NEW t \in Textures
    PROVE  curr_states[t][0] = "COMMON" /\ 0 \in Subs(t)
BY DEF NewTex, NewStates, Subs

\* CopyFrom brings both textures into the states of a copy and back.
LEMMA CopyDrives ==
    ASSUME curr_states = NewTex, NEW src \in Textures, NEW dst \in Textures, src # dst,
           NEW p, p \in Subs(src), p \in Subs(dst)
    PROVE  /\ Drives(CopyScript(dst, src, p), CopyTrack(dst, src))
           /\ \A n \in 1 .. Len(CopyScript(dst, src, p)) :
                CopyScript(dst, src, p)[n].tex \in {src, dst}
<1> DEFINE script == CopyScript(dst, src, p)
           track == CopyTrack(dst, src)
<1>1. /\ Len(script) = 6
      /\ script[1] = To(src, "COPY_SOURCE") /\ script[2] = To(dst, "COPY_DEST")
      /\ script[3] = Using(src, p, "COPY_SOURCE") /\ script[4] = Using(dst, p, "COPY_DEST")
      /\ script[5] = To(src, "COMMON") /\ script[6] = To(dst, "COMMON")
  BY CommonNow DEF CopyScript
<1>2. \A n \in 0 .. 6, t \in Textures :
        track[n][t] = IF t = src /\ n \in 1 .. 4 THEN "COPY_SOURCE"
                      ELSE IF t = dst /\ n \in 2 .. 5 THEN "COPY_DEST" ELSE "COMMON"
  BY DEF CopyTrack
<1> HIDE DEF script, track
<1>3. \A n \in 0 .. 6, t \in Textures : track[n][t] \in AllStates
  BY <1>2 DEF AllStates
<1>4. \A t \in Textures : track[0][t] = "COMMON" /\ track[6][t] = "COMMON"
  BY <1>2
<1>5. ASSUME NEW n \in 1 .. 6
      PROVE  /\ script[n].tex \in Textures
             /\ track[n][script[n].tex] = script[n].state
             /\ \A t \in Textures : t # script[n].tex => track[n][t] = track[n - 1][t]
             /\ script[n].act # "to" =>
                  /\ track[n - 1][script[n].tex] = script[n].state
                  /\ script[n].sub_resource \in Subs(script[n].tex)
  <2>1. n \in 0 .. 6 /\ n - 1 \in 0 .. 6
    OBVIOUS
  <2>2. CASE n = 1
    BY <1>1, <1>2, <2>1, <2>2 DEF To, Using
  <2>3. CASE n = 2
    BY <1>1, <1>2, <2>1, <2>3 DEF To, Using
  <2>4. CASE n = 3
    BY <1>1, <1>2, <2>1, <2>4 DEF To, Using
  <2>5. CASE n = 4
    BY <1>1, <1>2, <2>1, <2>5 DEF To, Using
  <2>6. CASE n = 5
    BY <1>1, <1>2, <2>1, <2>6 DEF To, Using
  <2>7. CASE n = 6
    BY <1>1, <1>2, <2>1, <2>7 DEF To, Using
  <2> QED
    BY <2>2, <2>3, <2>4, <2>5, <2>6, <2>7
<1>6. Drives(script, track)
  BY <1>1, <1>3, <1>4, <1>5 DEF Drives
<1>7. \A n \in 1 .. Len(script) : script[n].tex \in {src, dst}
  BY <1>1 DEF To, Using
<1> QED
  BY <1>6, <1>7 DEF script, track

\* Upload brings the texture into the state of a copy and back.
LEMMA UploadDrives ==
    ASSUME curr_states = NewTex, NEW dst \in Textures
    PROVE  /\ Drives(UploadScript(dst), OneTrack(dst, "COPY_DEST"))
           /\ \A n \in 1 .. Len(UploadScript(dst)) : UploadScript(dst)[n].tex = dst
<1> DEFINE script == UploadScript(dst)
           track == OneTrack(dst, "COPY_DEST")
<1>1. /\ Len(script) = 3 /\ script[1] = To(dst, "COPY_DEST")
      /\ script[2] = Using(dst, 0, "COPY_DEST") /\ script[3] = To(dst, "COMMON")
  BY CommonNow DEF UploadScript
<1>2. \A n \in 0 .. 3, t \in Textures :
        track[n][t] = IF t = dst /\ n \in 1 .. 2 THEN "COPY_DEST" ELSE "COMMON"
  BY DEF OneTrack
<1> HIDE DEF script, track
<1>3. \A n \in 1 .. 3 :
        /\ script[n].tex \in Textures
        /\ track[n][script[n].tex] = script[n].state
        /\ \A t \in Textures : t # script[n].tex => track[n][t] = track[n - 1][t]
        /\ script[n].act # "to" =>
             /\ track[n - 1][script[n].tex] = script[n].state
             /\ script[n].sub_resource \in Subs(script[n].tex)
  BY <1>1, <1>2, CommonNow DEF To, Using
<1>4. Drives(script, track)
  BY <1>1, <1>2, <1>3 DEF Drives, AllStates
<1>5. \A n \in 1 .. Len(script) : script[n].tex = dst
  BY <1>1 DEF To, Using
<1> QED
  BY <1>4, <1>5 DEF script, track

\* A readback needs its texture in COMMON.
LEMMA ReadbackDrives ==
    ASSUME curr_states = NewTex, NEW src \in Textures
    PROVE  /\ Drives(ReadbackScript(src), OneTrack(src, "COMMON"))
           /\ \A n \in 1 .. Len(ReadbackScript(src)) : ReadbackScript(src)[n].tex = src
<1> DEFINE script == ReadbackScript(src)
           track == OneTrack(src, "COMMON")
<1>1. /\ Len(script) = 3 /\ script[1] = To(src, "COMMON")
      /\ script[2] = Using(src, 0, "COMMON") /\ script[3] = To(src, "COMMON")
  BY CommonNow DEF ReadbackScript
<1>2. \A n \in 0 .. 3, t \in Textures : track[n][t] = "COMMON"
  BY DEF OneTrack
<1> HIDE DEF script, track
<1>3. \A n \in 1 .. 3 :
        /\ script[n].tex \in Textures
        /\ track[n][script[n].tex] = script[n].state
        /\ \A t \in Textures : t # script[n].tex => track[n][t] = track[n - 1][t]
        /\ script[n].act # "to" =>
             /\ track[n - 1][script[n].tex] = script[n].state
             /\ script[n].sub_resource \in Subs(script[n].tex)
  BY <1>1, <1>2, CommonNow DEF To, Using
<1>4. Drives(script, track)
  BY <1>1, <1>2, <1>3 DEF Drives, AllStates
<1>5. \A n \in 1 .. Len(script) : script[n].tex = src
  BY <1>1 DEF To, Using
<1> QED
  BY <1>4, <1>5 DEF script, track

\* EstimateMotionVectors brings its three textures into the states of the encoder and back.
LEMMA EstimateDrives ==
    ASSUME NEW ref \in Textures, NEW input_frame \in Textures, NEW output \in Textures,
           ref # input_frame, ref # output, input_frame # output
    PROVE  /\ Drives(EstimateScript(ref, input_frame, output), EstimateTrack(ref, input_frame, output))
           /\ \A n \in 0 .. 9, t \in Textures :
                EstimateTrack(ref, input_frame, output)[n][t] \in VideoStates
           /\ Len(EstimateScript(ref, input_frame, output)) = 9
           /\ \A n \in 1 .. 9 :
                EstimateScript(ref, input_frame, output)[n].tex \in {ref, input_frame, output}
<1> DEFINE script == EstimateScript(ref, input_frame, output)
           track == EstimateTrack(ref, input_frame, output)
<1>1. /\ Len(script) = 9
      /\ script[1] = To(ref, "VIDEO_ENCODE_READ")
      /\ script[2] = To(input_frame, "VIDEO_ENCODE_READ")
      /\ script[3] = Using(input_frame, 0, "VIDEO_ENCODE_READ")
      /\ script[4] = Using(ref, 0, "VIDEO_ENCODE_READ")
      /\ script[5] = To(output, "VIDEO_ENCODE_WRITE")
      /\ script[6] = Using(output, 0, "VIDEO_ENCODE_WRITE")
      /\ script[7] = To(ref, "COMMON") /\ script[8] = To(input_frame, "COMMON")
      /\ script[9] = To(output, "COMMON")
  BY DEF EstimateScript
<1>2. \A n \in 0 .. 9, t \in Textures :
        track[n][t] = IF (t = ref /\ n \in 1 .. 6) \/ (t = input_frame /\ n \in 2 .. 7)
                        THEN "VIDEO_ENCODE_READ"
                      ELSE IF t = output /\ n \in 5 .. 8 THEN "VIDEO_ENCODE_WRITE" ELSE "COMMON"
  BY DEF EstimateTrack
<1>3. 0 \in Subs(ref) /\ 0 \in Subs(input_frame) /\ 0 \in Subs(output)
  BY DEF Subs, NewStates
<1> HIDE DEF script, track
<1>4. \A n \in 0 .. 9, t \in Textures : track[n][t] \in VideoStates
  BY <1>2 DEF VideoStates
<1>5. \A t \in Textures : track[0][t] = "COMMON" /\ track[9][t] = "COMMON"
  BY <1>2
<1>6. ASSUME NEW n \in 1 .. 9
      PROVE  /\ script[n].tex \in Textures
             /\ track[n][script[n].tex] = script[n].state
             /\ \A t \in Textures : t # script[n].tex => track[n][t] = track[n - 1][t]
             /\ script[n].act # "to" =>
                  /\ track[n - 1][script[n].tex] = script[n].state
                  /\ script[n].sub_resource \in Subs(script[n].tex)
  <2>1. n \in 0 .. 9 /\ n - 1 \in 0 .. 9
    OBVIOUS
  <2>2. CASE n = 1
    <3>1. \A t \in Textures : /\ track[0][t] = "COMMON"
                             /\ track[1][t] = IF t = ref THEN "VIDEO_ENCODE_READ" ELSE "COMMON"
      BY <1>2
    <3> QED
      BY <1>1, <2>2, <3>1 DEF To
  <2>3. CASE n = 2
    <3>1. \A t \in Textures :
            /\ track[1][t] = IF t = ref THEN "VIDEO_ENCODE_READ" ELSE "COMMON"
            /\ track[2][t] = IF t \in {ref, input_frame} THEN "VIDEO_ENCODE_READ" ELSE "COMMON"
      BY <1>2
    <3> QED
      BY <1>1, <2>3, <3>1 DEF To
  <2>4. CASE n = 3
    BY <1>1, <1>2, <1>3, <2>1, <2>4 DEF To, Using
  <2>5. CASE n = 4
    BY <1>1, <1>2, <1>3, <2>1, <2>5 DEF To, Using
  <2>6. CASE n = 5
    BY <1>1, <1>2, <1>3, <2>1, <2>6 DEF To, Using
  <2>7. CASE n = 6
    BY <1>1, <1>2, <1>3, <2>1, <2>7 DEF To, Using
  <2>8. CASE n = 7
    BY <1>1, <1>2, <1>3, <2>1, <2>8 DEF To, Using
  <2>9. CASE n = 8
    BY <1>1, <1>2, <1>3, <2>1, <2>9 DEF To, Using
  <2>10. CASE n = 9
    BY <1>1, <1>2, <1>3, <2>1, <2>10 DEF To, Using
  <2> QED
    BY <2>2, <2>3, <2>4, <2>5, <2>6, <2>7, <2>8, <2>9, <2>10
<1>7. \A n \in 0 .. 9, t \in Textures : track[n][t] \in AllStates
  BY <1>4 DEF AllStates, VideoStates
<1>8. Drives(script, track)
  BY <1>1, <1>5, <1>6, <1>7 DEF Drives
<1>9. \A n \in 1 .. 9 : script[n].tex \in {ref, input_frame, output}
  BY <1>1 DEF To, Using
<1> QED
  BY <1>1, <1>4, <1>8, <1>9 DEF script, track

\* Views, as pairs of a texture and a subresource.
ViewPairs == Textures \X {0, 1}
Acts == [act : {"to"}, tex : Textures, state : AllStates]
        \cup [act : {"use"}, tex : Textures, sub_resource : {0, 1}, state : AllStates]

Concat(p, q) == p \o q
ActsOf(p, l) == p \in Seq(Acts) /\ Len(p) = l

\* The acts for the views of a dispatch, one for each.
LEMMA ViewActs ==
    ASSUME NEW a \in Nat, NEW views \in [1 .. a -> ViewPairs], NEW state \in AllStates
    PROVE  /\ ActsOf(AllTo(views, state), a)
           /\ \A n \in 1 .. a : AllTo(views, state)[n] = To(views[n][1], state)
           /\ ActsOf(AllUsed(views, state), a)
           /\ \A n \in 1 .. a : AllUsed(views, state)[n] = Using(views[n][1], views[n][2], state)
<1>1. \A n \in 1 .. a : views[n][1] \in Textures /\ views[n][2] \in {0, 1}
  BY DEF ViewPairs
<1>2. AllTo(views, state) \in [1 .. a -> Acts] /\ AllUsed(views, state) \in [1 .. a -> Acts]
  BY <1>1 DEF AllTo, AllUsed, To, Using, Acts
<1>3. /\ \A n \in 1 .. a : AllTo(views, state)[n] = To(views[n][1], state)
      /\ \A n \in 1 .. a : AllUsed(views, state)[n] = Using(views[n][1], views[n][2], state)
  BY DEF AllTo, AllUsed
<1> QED
  BY <1>2, <1>3, FunctionIsSeq DEF ActsOf

\* The sequence c is p, of l, and then q, of m.
FollowedBy(c, p, q, l, m) ==
    /\ \A n \in 1 .. l : c[n] = p[n]
    /\ \A n \in 1 .. m : c[l + n] = q[n]

\* An element of a joined sequence is one of its two parts.
LEMMA TwoParts ==
    ASSUME NEW p, NEW q, NEW l \in Nat, NEW m \in Nat, ActsOf(p, l), ActsOf(q, m)
    PROVE  ActsOf(Concat(p, q), l + m) /\ FollowedBy(Concat(p, q), p, q, l, m)
<1> DEFINE c == Concat(p, q)
<1>1. /\ c \in Seq(Acts) /\ Len(c) = l + m
      /\ \A n \in 1 .. l + m : c[n] = IF n <= l THEN p[n] ELSE q[n - l]
  <2> DEFINE S == Acts
  <2>1. p \in Seq(S) /\ q \in Seq(S) /\ Len(p) = l /\ Len(q) = m
    BY DEF ActsOf
  <2> HIDE DEF S
  <2>2. /\ p \o q \in Seq(S) /\ Len(p \o q) = l + m
        /\ \A n \in 1 .. l + m : (p \o q)[n] = IF n <= l THEN p[n] ELSE q[n - l]
    BY <2>1
  <2> QED
    BY <2>2, Zenon DEF S, Concat
<1> HIDE DEF c
<1>2. \A n \in 1 .. l : c[n] = p[n]
  <2> TAKE n \in 1 .. l
  <2>1. n \in 1 .. l + m /\ n <= l
    OBVIOUS
  <2> QED
    BY <1>1, <2>1
<1>3. \A n \in 1 .. m : c[l + n] = q[n]
  <2> TAKE n \in 1 .. m
  <2>1. l + n \in 1 .. l + m /\ ~(l + n <= l) /\ (l + n) - l = n
    OBVIOUS
  <2>2. c[l + n] = q[(l + n) - l]
    BY <1>1, <2>1
  <2> QED
    BY <2>1, <2>2
<1>4. ActsOf(c, l + m) /\ FollowedBy(c, p, q, l, m)
  BY <1>1, <1>2, <1>3 DEF FollowedBy, ActsOf
<1> QED
  BY <1>4, Zenon DEF c

\* An element of the acts of a dispatch is one of their five parts.
LEMMA FiveParts ==
    ASSUME NEW p, NEW q, NEW r, NEW s, NEW t, NEW a \in Nat, NEW b \in Nat,
           ActsOf(p, a), ActsOf(q, b), ActsOf(r, a), ActsOf(s, b), ActsOf(t, b)
    PROVE  LET all == Concat(Concat(Concat(Concat(p, q), r), s), t)
           IN  /\ Len(all) = 2 * a + 3 * b
               /\ \A k \in 1 .. a : \A n : /\ n = k => all[n] = p[k]
                                           /\ n = a + b + k => all[n] = r[k]
               /\ \A k \in 1 .. b : \A n : /\ n = a + k => all[n] = q[k]
                                           /\ n = 2 * a + b + k => all[n] = s[k]
                                           /\ n = 2 * a + 2 * b + k => all[n] = t[k]
<1> DEFINE k2 == a + b
           k3 == k2 + a
           k4 == k3 + b
           k5 == k4 + b
           u == Concat(p, q)
           v == Concat(u, r)
           w == Concat(v, s)
           all == Concat(w, t)
<1>1. k2 = a + b /\ k3 = k2 + a /\ k4 = k3 + b /\ k5 = k4 + b
  OBVIOUS
<1>2. /\ k2 = a + b /\ k3 = 2 * a + b /\ k4 = 2 * a + 2 * b /\ k5 = 2 * a + 3 * b
      /\ k2 \in Nat /\ k3 \in Nat /\ k4 \in Nat
  OBVIOUS
<1> HIDE DEF k2, k3, k4, k5
<1>3. ActsOf(u, k2) /\ FollowedBy(u, p, q, a, b)
  BY <1>1, TwoParts
<1> HIDE DEF u
<1>4. ActsOf(v, k3) /\ FollowedBy(v, u, r, k2, a)
  BY <1>1, <1>2, <1>3, TwoParts
<1> HIDE DEF v
<1>5. ActsOf(w, k4) /\ FollowedBy(w, v, s, k3, b)
  BY <1>1, <1>2, <1>4, TwoParts
<1> HIDE DEF w
<1>6. ActsOf(all, k5) /\ FollowedBy(all, w, t, k4, b)
  BY <1>1, <1>2, <1>5, TwoParts
<1> HIDE DEF all
<1>7. ASSUME NEW n \in 1 .. a PROVE all[n] = p[n] /\ all[k2 + n] = r[n]
  <2>1. /\ n \in 1 .. k2 /\ n \in 1 .. k3 /\ n \in 1 .. k4
        /\ k2 + n \in 1 .. k3 /\ k2 + n \in 1 .. k4
    BY <1>2
  <2>2. all[n] = w[n] /\ w[n] = v[n] /\ v[n] = u[n] /\ u[n] = p[n]
    BY <1>3, <1>4, <1>5, <1>6, <2>1, Zenon DEF FollowedBy
  <2>3. all[k2 + n] = w[k2 + n] /\ w[k2 + n] = v[k2 + n] /\ v[k2 + n] = r[n]
    BY <1>3, <1>4, <1>5, <1>6, <2>1, Zenon DEF FollowedBy
  <2> QED
    BY <2>2, <2>3, Zenon
<1>8. ASSUME NEW n \in 1 .. b
      PROVE  all[a + n] = q[n] /\ all[k3 + n] = s[n] /\ all[k4 + n] = t[n]
  <2>1. /\ a + n \in 1 .. k2 /\ a + n \in 1 .. k3 /\ a + n \in 1 .. k4
        /\ k3 + n \in 1 .. k4
    BY <1>2
  <2>2. all[a + n] = w[a + n] /\ w[a + n] = v[a + n] /\ v[a + n] = u[a + n] /\ u[a + n] = q[n]
    BY <1>3, <1>4, <1>5, <1>6, <2>1, Zenon DEF FollowedBy
  <2>3. all[k3 + n] = w[k3 + n] /\ w[k3 + n] = s[n] /\ all[k4 + n] = t[n]
    BY <1>3, <1>4, <1>5, <1>6, <2>1, Zenon DEF FollowedBy
  <2> QED
    BY <2>2, <2>3, Zenon
<1> QED
  BY <1>2, <1>6, <1>7, <1>8 DEF ActsOf, all, w, v, u

\* A shader has the texture that it writes from the first transition to the last use.
DispatchTrack(a, b, written) ==
    [n \in 0 .. 2 * a + 3 * b |-> [t \in Textures |->
        IF t = written /\ n \in a + 1 .. 2 * a + 2 * b THEN "UNORDERED_ACCESS" ELSE "COMMON"]]

\* The views that a shader reads and those that it writes, in a pass of the job.
ReadsIn(srvs, a, written, job) ==
    /\ srvs \in [1 .. a -> ViewPairs]
    /\ \A n \in 1 .. a : /\ srvs[n][1] # written /\ srvs[n][2] \in Subs(srvs[n][1])
                        /\ srvs[n][1] \in Touches(job)
WritesIn(uavs, b, written, job) ==
    /\ uavs \in [1 .. b -> ViewPairs]
    /\ written \in Touches(job)
    /\ \A n \in 1 .. b : uavs[n][1] = written /\ uavs[n][2] \in Subs(written)

\* Every act is on one of their textures.
ActsOn(script, srvs, a, written) ==
    \A n \in 1 .. Len(script) :
        script[n].tex = written \/ \E k \in 1 .. a : script[n].tex = srvs[k][1]

\* RunComputeShader brings what is read into COMMON and what is written into
\* UNORDERED_ACCESS and back.
LEMMA DispatchDrives ==
    ASSUME NEW job, NEW a \in Nat, NEW b \in Nat \ {0}, NEW srvs, NEW uavs, NEW written,
           ReadsIn(srvs, a, written, job), WritesIn(uavs, b, written, job)
    PROVE  /\ Drives(Dispatch(srvs, uavs), DispatchTrack(a, b, written))
           /\ ActsOn(Dispatch(srvs, uavs), srvs, a, written)
<1>0. /\ written \in Textures
      /\ srvs \in [1 .. a -> ViewPairs] /\ uavs \in [1 .. b -> ViewPairs]
      /\ \A n \in 1 .. a : srvs[n][1] # written /\ srvs[n][2] \in Subs(srvs[n][1])
      /\ \A n \in 1 .. b : uavs[n][1] = written /\ uavs[n][2] \in Subs(written)
  BY DEF ReadsIn, WritesIn, Touches
<1> USE <1>0
<1> DEFINE script == Dispatch(srvs, uavs)
           track == DispatchTrack(a, b, written)
           N == 2 * a + 3 * b
<1>1. /\ Len(script) = N
      /\ \A k \in 1 .. a : \A n :
           /\ n = k => script[n] = To(srvs[k][1], "COMMON")
           /\ n = a + b + k => script[n] = Using(srvs[k][1], srvs[k][2], "COMMON")
      /\ \A k \in 1 .. b : \A n :
           /\ n = a + k => script[n] = To(written, "UNORDERED_ACCESS")
           /\ n = 2 * a + b + k => script[n] = Using(written, uavs[k][2], "UNORDERED_ACCESS")
           /\ n = 2 * a + 2 * b + k => script[n] = To(written, "COMMON")
  <2> DEFINE p == AllTo(srvs, "COMMON")
             q == AllTo(uavs, "UNORDERED_ACCESS")
             r == AllUsed(srvs, "COMMON")
             s == AllUsed(uavs, "UNORDERED_ACCESS")
             t == AllTo(uavs, "COMMON")
  <2>1. "COMMON" \in AllStates /\ "UNORDERED_ACCESS" \in AllStates /\ b \in Nat
    BY DEF AllStates
  <2>2. /\ ActsOf(p, a) /\ ActsOf(q, b) /\ ActsOf(r, a) /\ ActsOf(s, b) /\ ActsOf(t, b)
        /\ \A n \in 1 .. a : /\ p[n] = To(srvs[n][1], "COMMON")
                            /\ r[n] = Using(srvs[n][1], srvs[n][2], "COMMON")
        /\ \A n \in 1 .. b : /\ q[n] = To(uavs[n][1], "UNORDERED_ACCESS")
                            /\ s[n] = Using(uavs[n][1], uavs[n][2], "UNORDERED_ACCESS")
                            /\ t[n] = To(uavs[n][1], "COMMON")
    <3>1. /\ ActsOf(p, a) /\ ActsOf(r, a)
          /\ \A n \in 1 .. a : /\ p[n] = To(srvs[n][1], "COMMON")
                              /\ r[n] = Using(srvs[n][1], srvs[n][2], "COMMON")
      BY <2>1, ViewActs
    <3>2. /\ ActsOf(q, b) /\ ActsOf(s, b)
          /\ \A n \in 1 .. b : /\ q[n] = To(uavs[n][1], "UNORDERED_ACCESS")
                              /\ s[n] = Using(uavs[n][1], uavs[n][2], "UNORDERED_ACCESS")
      <4>1. ActsOf(q, b) /\ \A n \in 1 .. b : q[n] = To(uavs[n][1], "UNORDERED_ACCESS")
        BY <2>1, ViewActs
      <4>2. ActsOf(s, b) /\ \A n \in 1 .. b : s[n] = Using(uavs[n][1], uavs[n][2], "UNORDERED_ACCESS")
        BY <2>1, ViewActs
      <4> QED
        BY <4>1, <4>2
    <3>3. ActsOf(t, b) /\ \A n \in 1 .. b : t[n] = To(uavs[n][1], "COMMON")
      BY <2>1, ViewActs
    <3> QED
      BY <3>1, <3>2, <3>3
  <2>3. script = Concat(Concat(Concat(Concat(p, q), r), s), t)
    BY Zenon DEF Dispatch, Concat
  <2> HIDE DEF script, p, q, r, s, t
  <2>4. /\ Len(script) = N
        /\ \A k \in 1 .. a : \A n : /\ n = k => script[n] = p[k]
                                    /\ n = a + b + k => script[n] = r[k]
        /\ \A k \in 1 .. b : \A n : /\ n = a + k => script[n] = q[k]
                                    /\ n = 2 * a + b + k => script[n] = s[k]
                                    /\ n = 2 * a + 2 * b + k => script[n] = t[k]
    BY <2>1, <2>2, <2>3, FiveParts
  <2>5. \A k \in 1 .. b : uavs[k][1] = written
    OBVIOUS
  <2>6. \A k \in 1 .. a : \A n :
          /\ n = k => script[n] = To(srvs[k][1], "COMMON")
          /\ n = a + b + k => script[n] = Using(srvs[k][1], srvs[k][2], "COMMON")
    <3> TAKE k \in 1 .. a
    <3> TAKE n
    <3>1. p[k] = To(srvs[k][1], "COMMON") /\ r[k] = Using(srvs[k][1], srvs[k][2], "COMMON")
      BY <2>2
    <3>2. (n = k => script[n] = p[k]) /\ (n = a + b + k => script[n] = r[k])
      BY <2>4
    <3> QED
      BY <3>1, <3>2, Zenon
  <2>7. \A k \in 1 .. b : \A n :
          /\ n = a + k => script[n] = To(written, "UNORDERED_ACCESS")
          /\ n = 2 * a + b + k => script[n] = Using(written, uavs[k][2], "UNORDERED_ACCESS")
          /\ n = 2 * a + 2 * b + k => script[n] = To(written, "COMMON")
    <3> TAKE k \in 1 .. b
    <3> TAKE n
    <3>1. /\ q[k] = To(written, "UNORDERED_ACCESS")
          /\ s[k] = Using(written, uavs[k][2], "UNORDERED_ACCESS")
          /\ t[k] = To(written, "COMMON")
      BY <2>2, <2>5
    <3>2. /\ n = a + k => script[n] = q[k]
          /\ n = 2 * a + b + k => script[n] = s[k]
          /\ n = 2 * a + 2 * b + k => script[n] = t[k]
      BY <2>4
    <3> QED
      BY <3>1, <3>2, Zenon
  <2> QED
    BY <2>4, <2>6, <2>7, Zenon
<1> HIDE DEF script
<1>2. \A n \in 0 .. N, t \in Textures :
        track[n][t] = IF t = written /\ n \in a + 1 .. 2 * a + 2 * b
                        THEN "UNORDERED_ACCESS" ELSE "COMMON"
  BY DEF DispatchTrack
<1> HIDE DEF track
<1>3. N \in Nat /\ 0 \in 0 .. N /\ N \in 0 .. N /\ 0 \notin a + 1 .. 2 * a + 2 * b
      /\ N \notin a + 1 .. 2 * a + 2 * b
  OBVIOUS
<1>4. \A n \in 0 .. N, t \in Textures : track[n][t] \in AllStates
  BY <1>2 DEF AllStates
<1>5. \A t \in Textures : track[0][t] = "COMMON" /\ track[N][t] = "COMMON"
  BY <1>2, <1>3
<1>6. ASSUME NEW n \in 1 .. N
      PROVE  \/ n \in 1 .. a
             \/ \E k \in 1 .. b : n = a + k
             \/ \E k \in 1 .. a : n = a + b + k
             \/ \E k \in 1 .. b : n = 2 * a + b + k
             \/ \E k \in 1 .. b : n = 2 * a + 2 * b + k
  <2>1. CASE n <= a
    BY <2>1
  <2>2. CASE a < n /\ n <= a + b
    <3>1. n - a \in 1 .. b /\ n = a + (n - a)
      BY <2>2
    <3> QED
      BY <3>1
  <2>3. CASE a + b < n /\ n <= 2 * a + b
    <3>1. n - (a + b) \in 1 .. a /\ n = a + b + (n - (a + b))
      BY <2>3
    <3> QED
      BY <3>1
  <2>4. CASE 2 * a + b < n /\ n <= 2 * a + 2 * b
    <3>1. n - (2 * a + b) \in 1 .. b /\ n = 2 * a + b + (n - (2 * a + b))
      BY <2>4
    <3> QED
      BY <3>1
  <2>5. CASE 2 * a + 2 * b < n
    <3>1. n - (2 * a + 2 * b) \in 1 .. b /\ n = 2 * a + 2 * b + (n - (2 * a + 2 * b))
      BY <2>5
    <3> QED
      BY <3>1
  <2> QED
    BY <2>1, <2>2, <2>3, <2>4, <2>5
<1> DEFINE Kept(n) ==
             /\ script[n].tex \in Textures
             /\ track[n][script[n].tex] = script[n].state
             /\ \A t \in Textures : t # script[n].tex => track[n][t] = track[n - 1][t]
             /\ script[n].act # "to" =>
                  /\ track[n - 1][script[n].tex] = script[n].state
                  /\ script[n].sub_resource \in Subs(script[n].tex)
           Within(n) ==
             \/ script[n].tex = written
             \/ \E k \in 1 .. a : script[n].tex = srvs[k][1]
<1>7. \A k \in 1 .. a : srvs[k][1] \in Textures
  BY DEF ViewPairs
<1>8. ASSUME NEW n \in 1 .. N
      PROVE  n \in 0 .. N /\ n - 1 \in 0 .. N
  OBVIOUS
<1>9. ASSUME NEW n \in 1 .. N, NEW k \in 1 .. a, n = k \/ n = a + b + k
      PROVE  Kept(n) /\ Within(n)
  <2>1. script[n].tex = srvs[k][1] /\ script[n].state = "COMMON" /\ script[n].tex # written
        /\ (script[n].act # "to" => script[n].sub_resource \in Subs(script[n].tex))
    <3>1. CASE n = k
      <4>1. script[n] = To(srvs[k][1], "COMMON")
        BY <1>1, <3>1
      <4> QED
        BY <4>1 DEF To
    <3>2. CASE n = a + b + k
      <4>1. script[n] = Using(srvs[k][1], srvs[k][2], "COMMON")
        BY <1>1, <3>2
      <4> QED
        BY <4>1 DEF Using
    <3> QED
      BY <1>9, <3>1, <3>2
  <2>2. n \in a + 1 .. 2 * a + 2 * b <=> n - 1 \in a + 1 .. 2 * a + 2 * b
    BY <1>9
  <2>3. \A t \in Textures : track[n][t] = track[n - 1][t]
    BY <1>2, <1>8, <2>2
  <2>4. track[n][script[n].tex] = "COMMON"
    BY <1>2, <1>7, <1>8, <2>1
  <2> QED
    BY <1>7, <2>1, <2>3, <2>4
<1>10. ASSUME NEW n \in 1 .. N, NEW k \in 1 .. b, n = a + k
       PROVE  Kept(n) /\ Within(n)
  <2>1. script[n].tex = written /\ script[n].state = "UNORDERED_ACCESS" /\ script[n].act = "to"
    <3>1. script[n] = To(written, "UNORDERED_ACCESS")
      BY <1>1, <1>10
    <3> QED
      BY <3>1 DEF To
  <2>2. n \in a + 1 .. 2 * a + 2 * b
    BY <1>10
  <2> QED
    BY <1>2, <1>8, <2>1, <2>2
<1>11. ASSUME NEW n \in 1 .. N, NEW k \in 1 .. b, n = 2 * a + b + k
       PROVE  Kept(n) /\ Within(n)
  <2>1. script[n].tex = written /\ script[n].state = "UNORDERED_ACCESS"
        /\ script[n].sub_resource \in Subs(written)
    <3>1. script[n] = Using(written, uavs[k][2], "UNORDERED_ACCESS")
      BY <1>1, <1>11
    <3> QED
      BY <3>1 DEF Using
  <2>2. n \in a + 1 .. 2 * a + 2 * b /\ n - 1 \in a + 1 .. 2 * a + 2 * b
    BY <1>11
  <2> QED
    BY <1>2, <1>8, <2>1, <2>2
<1>12. ASSUME NEW n \in 1 .. N, NEW k \in 1 .. b, n = 2 * a + 2 * b + k
       PROVE  Kept(n) /\ Within(n)
  <2>1. script[n].tex = written /\ script[n].state = "COMMON" /\ script[n].act = "to"
    <3>1. script[n] = To(written, "COMMON")
      BY <1>1, <1>12
    <3> QED
      BY <3>1 DEF To
  <2>2. n \notin a + 1 .. 2 * a + 2 * b
    BY <1>12
  <2> QED
    BY <1>2, <1>8, <2>1, <2>2
<1>13. \A n \in 1 .. N : Kept(n) /\ Within(n)
  <2> HIDE DEF Kept, Within, N
  <2> TAKE n \in 1 .. N
  <2>1. CASE \E k \in 1 .. a : n = k \/ n = a + b + k
    BY <1>9, <2>1
  <2>2. CASE \E k \in 1 .. b : n = a + k
    BY <1>10, <2>2
  <2>3. CASE \E k \in 1 .. b : n = 2 * a + b + k
    BY <1>11, <2>3
  <2>4. CASE \E k \in 1 .. b : n = 2 * a + 2 * b + k
    BY <1>12, <2>4
  <2> QED
    BY <1>6, <2>1, <2>2, <2>3, <2>4
<1>14. Drives(script, track)
  BY <1>1, <1>3, <1>4, <1>5, <1>13 DEF Drives
<1>15. ActsOn(script, srvs, a, written)
  BY <1>1, <1>13 DEF ActsOn
<1> QED
  BY <1>14, <1>15 DEF script, track

(***************************************************************************)
(* The script of a job                                                     *)
(***************************************************************************)

\* Recorded from new textures, the list of the job leaves them new and can be run.
Playable(job) ==
    \E track :
        /\ Drives(Script(job), track)
        /\ \A n \in 1 .. Len(Script(job)) : Script(job)[n].tex \in Touches(job)
        /\ job.op = "estimate" =>
             \A n \in 0 .. Len(Script(job)), t \in Textures : track[n][t] \in VideoStates

SlotNames == {"frame", "nv12", "rgb", "scaled", "raw_mv", "mv", "blurred", "decoded"}

\* A texture of a slot, and its subresources.
LEMMA SlotTexture ==
    ASSUME NEW name \in SlotNames, NEW slot \in 0 .. FrameCount - 1
    PROVE  /\ TextureOf(name, slot) \in Textures
           /\ TextureOf(name, slot)[1] = name /\ TextureOf(name, slot)[2] = slot
           /\ TextureOf(name, slot) # RandomTable
           /\ 0 \in Subs(TextureOf(name, slot))
           /\ name \in {"nv12", "scaled", "decoded"} \/ (Video /\ name = "frame") =>
                1 \in Subs(TextureOf(name, slot))
<1>1. name # "memory" /\ name \in TexNames \cup {"decoded"} /\ name # "random"
  BY DEF SlotNames, TexNames
<1>2. slot \in Gpu!Slots
  BY SlotNumbers
<1>3. name \in {"nv12", "scaled", "decoded"} \/ (Video /\ name = "frame") =>
        IsNv12(TextureOf(name, slot))
  BY DEF IsNv12, TextureOf
<1> QED
  BY <1>1, <1>2, <1>3 DEF TextureOf, Textures, RandomTable, Subs, NewStates

\* What a list of the compute queue may touch.
LEMMA SlotTouched ==
    ASSUME NEW job, NEW slot \in 0 .. FrameCount - 1, job.slot = slot, job.op # "estimate"
    PROVE  /\ \A name \in SlotNames \ {"scaled", "raw_mv"} : TextureOf(name, slot) \in Touches(job)
           /\ job.op = "to_nv12" => TextureOf("scaled", slot) \in Touches(job)
           /\ job.op = "propagate" => TextureOf("raw_mv", slot) \in Touches(job)
           /\ RandomTable \in Touches(job)
<1>1. RandomTable \in Textures /\ RandomTable[1] = "random"
  BY DEF Textures, RandomTable, TextureOf
<1> QED
  BY <1>1, SlotTexture DEF Touches, SlotNames

\* Textures of different names are different.
LEMMA OtherNames ==
    ASSUME NEW slot, NEW other, NEW a, NEW b, a # b
    PROVE  TextureOf(a, slot) # TextureOf(b, other)
BY DEF TextureOf

\* A copy between two textures of a job can be recorded.
LEMMA CopyPlayable ==
    ASSUME curr_states = NewTex, NEW job, job.op # "estimate",
           NEW src \in Touches(job), NEW dst \in Touches(job), src # dst,
           NEW p, p \in Subs(src), p \in Subs(dst), Script(job) = CopyScript(dst, src, p)
    PROVE  Playable(job)
<1>1. src \in Textures /\ dst \in Textures
  BY DEF Touches
<1>2. /\ Drives(Script(job), CopyTrack(dst, src))
      /\ \A n \in 1 .. Len(Script(job)) : Script(job)[n].tex \in {src, dst}
  BY <1>1, CopyDrives
<1> QED
  BY <1>2 DEF Playable

\* In a pass of the compute queue for slot, some of the textures of the slot.
LEMMA CopiesPlayable ==
    ASSUME curr_states = NewTex, NEW job \in Jobs, job.op \in {"read", "copy_in", "copy_out"},
           job.op \in {"read", "copy_in"} /\ job.plane = 1 => Video
    PROVE  Playable(job)
<1> DEFINE T(name) == TextureOf(name, job.slot)
<1>1. job.slot \in 0 .. FrameCount - 1 /\ job.op # "estimate"
      /\ (job.op \in {"read", "copy_in"} => job.plane \in {0, 1})
  BY DEF Jobs
<1>2. \A name \in SlotNames \ {"scaled", "raw_mv"} : T(name) \in Touches(job)
  BY <1>1, SlotTouched
<1>3. CASE job.op = "read" /\ Video
  <2>1. Script(job) = CopyScript(T("frame"), T("decoded"), job.plane)
    BY <1>3, Zenon DEF Script
  <2>2. T("frame") \in Touches(job) /\ T("decoded") \in Touches(job) /\ T("frame") # T("decoded")
    BY <1>2, OtherNames DEF SlotNames
  <2>3. job.plane \in Subs(T("frame")) /\ job.plane \in Subs(T("decoded"))
    BY <1>1, <1>3, SlotTexture DEF SlotNames
  <2> QED
    BY <1>1, <2>1, <2>2, <2>3, CopyPlayable
<1>4. CASE job.op = "read" /\ ~Video
  <2>1. Script(job) = UploadScript(T("frame"))
    BY <1>4, Zenon DEF Script
  <2>2. T("frame") \in Touches(job) /\ T("frame") \in Textures
    BY <1>2 DEF SlotNames, Touches
  <2> QED
    BY <1>1, <2>1, <2>2, UploadDrives DEF Playable
<1>5. CASE job.op = "copy_in"
  <2> DEFINE name == IF Video THEN "nv12" ELSE "rgb"
  <2>1. Script(job) = CopyScript(T(name), T("frame"), job.plane)
    BY <1>5, Zenon DEF Script
  <2>2. T("frame") \in Touches(job) /\ T(name) \in Touches(job) /\ T("frame") # T(name)
    BY <1>2, OtherNames DEF SlotNames
  <2>3. job.plane \in Subs(T("frame")) /\ job.plane \in Subs(T(name))
    BY <1>1, <1>5, SlotTexture DEF SlotNames
  <2> QED
    BY <1>1, <2>1, <2>2, <2>3, CopyPlayable
<1>6. CASE job.op = "copy_out"
  <2>1. Script(job) = CopyScript(T("blurred"), T("rgb"), 0)
    BY <1>6, Zenon DEF Script
  <2>2. T("blurred") \in Touches(job) /\ T("rgb") \in Touches(job) /\ T("blurred") # T("rgb")
    BY <1>2, OtherNames DEF SlotNames
  <2>3. 0 \in Subs(T("blurred")) /\ 0 \in Subs(T("rgb"))
    BY <1>1, SlotTexture DEF SlotNames
  <2> QED
    BY <1>1, <2>1, <2>2, <2>3, CopyPlayable
<1> QED
  BY <1>3, <1>4, <1>5, <1>6

\* A dispatch on textures of a job can be recorded.
LEMMA DispatchPlayable ==
    ASSUME curr_states = NewTex, NEW job, job.op # "estimate",
           NEW a \in Nat, NEW b \in Nat \ {0}, NEW srvs, NEW uavs, NEW written,
           ReadsIn(srvs, a, written, job), WritesIn(uavs, b, written, job),
           Script(job) = Dispatch(srvs, uavs)
    PROVE  Playable(job)
<1>1. Drives(Script(job), DispatchTrack(a, b, written)) /\ ActsOn(Script(job), srvs, a, written)
  <2>1. /\ Drives(Dispatch(srvs, uavs), DispatchTrack(a, b, written))
        /\ ActsOn(Dispatch(srvs, uavs), srvs, a, written)
    BY DispatchDrives
  <2> QED
    BY <2>1, Zenon
<1>2. \A n \in 1 .. Len(Script(job)) : Script(job)[n].tex \in Touches(job)
  BY <1>1 DEF ActsOn, ReadsIn, WritesIn
<1> QED
  BY <1>1, <1>2 DEF Playable

\* So can the dispatch of each shader.
LEMMA ShadersPlayable ==
    ASSUME curr_states = NewTex, NEW job \in Jobs,
           job.op \in {"to_rgb", "to_nv12", "propagate", "gather", "overlay"}
    PROVE  Playable(job)
<1> DEFINE T(name) == TextureOf(name, job.slot)
<1>1. job.slot \in 0 .. FrameCount - 1 /\ job.op # "estimate"
  BY DEF Jobs
<1>2. /\ \A name \in SlotNames \ {"scaled", "raw_mv"} : T(name) \in Touches(job)
      /\ job.op = "to_nv12" => T("scaled") \in Touches(job)
      /\ job.op = "propagate" => T("raw_mv") \in Touches(job)
      /\ RandomTable \in Touches(job)
  BY <1>1, SlotTouched
<1>3. /\ \A name \in SlotNames : T(name) \in Textures /\ 0 \in Subs(T(name)) /\ T(name) # RandomTable
      /\ 1 \in Subs(T("nv12")) /\ 1 \in Subs(T("scaled"))
  BY <1>1, SlotTexture DEF SlotNames
<1>4. RandomTable \in Textures /\ 0 \in Subs(RandomTable)
  BY DEF Textures, RandomTable, Subs, NewStates
<1>5. \A x, y \in SlotNames : x # y => T(x) # T(y)
  BY OtherNames
<1> HIDE DEF T
<1>6. CASE job.op = "to_rgb"
  <2> DEFINE srvs == << <<T("nv12"), 0>>, <<T("nv12"), 1>> >>
             uavs == << <<T("rgb"), 0>> >>
  <2>1. Script(job) = Dispatch(srvs, uavs)
    BY <1>6, Zenon DEF Script, T
  <2>2. T("nv12") # T("rgb") /\ T("nv12") \in Touches(job) /\ T("rgb") \in Touches(job)
        /\ T("nv12") \in Textures /\ T("rgb") \in Textures /\ 0 \in Subs(T("nv12")) /\ 0 \in Subs(T("rgb"))
    BY <1>2, <1>3, <1>5 DEF SlotNames
  <2>3. srvs \in [1 .. 2 -> ViewPairs] /\ uavs \in [1 .. 1 -> ViewPairs]
    BY <2>2 DEF ViewPairs
  <2>4. /\ \A n \in 1 .. 2 : srvs[n][1] = T("nv12") /\ srvs[n][2] \in Subs(T("nv12"))
        /\ \A n \in 1 .. 1 : uavs[n][1] = T("rgb") /\ uavs[n][2] \in Subs(T("rgb"))
    BY <1>3, <2>2
  <2> HIDE DEF srvs, uavs
  <2>5. ReadsIn(srvs, 2, T("rgb"), job) /\ WritesIn(uavs, 1, T("rgb"), job)
    BY <2>2, <2>3, <2>4 DEF ReadsIn, WritesIn
  <2> QED
    BY <1>1, <2>1, <2>5, DispatchPlayable
<1>7. CASE job.op = "to_nv12"
  <2> DEFINE srvs == << <<T("rgb"), 0>> >>
             uavs == << <<T("scaled"), 0>>, <<T("scaled"), 1>> >>
  <2>1. Script(job) = Dispatch(srvs, uavs)
    BY <1>7, Zenon DEF Script, T
  <2>2. T("rgb") # T("scaled") /\ T("rgb") \in Touches(job) /\ T("scaled") \in Touches(job)
        /\ T("rgb") \in Textures /\ T("scaled") \in Textures /\ 0 \in Subs(T("rgb"))
        /\ 0 \in Subs(T("scaled"))
    BY <1>2, <1>3, <1>5, <1>7 DEF SlotNames
  <2>3. srvs \in [1 .. 1 -> ViewPairs] /\ uavs \in [1 .. 2 -> ViewPairs]
    BY <2>2 DEF ViewPairs
  <2>4. /\ \A n \in 1 .. 1 : srvs[n][1] = T("rgb") /\ srvs[n][2] \in Subs(T("rgb"))
        /\ \A n \in 1 .. 2 : uavs[n][1] = T("scaled") /\ uavs[n][2] \in Subs(T("scaled"))
    BY <1>3, <2>2
  <2> HIDE DEF srvs, uavs
  <2>5. ReadsIn(srvs, 1, T("scaled"), job) /\ WritesIn(uavs, 2, T("scaled"), job)
    BY <2>2, <2>3, <2>4 DEF ReadsIn, WritesIn
  <2> QED
    BY <1>1, <2>1, <2>5, DispatchPlayable
<1>8. CASE job.op = "propagate"
  <2> DEFINE srvs == << <<T("raw_mv"), 0>> >>
             uavs == << <<T("mv"), 0>> >>
  <2>1. Script(job) = Dispatch(srvs, uavs)
    BY <1>8, Zenon DEF Script, T
  <2>2. T("raw_mv") # T("mv") /\ T("raw_mv") \in Touches(job) /\ T("mv") \in Touches(job)
        /\ T("raw_mv") \in Textures /\ T("mv") \in Textures /\ 0 \in Subs(T("raw_mv"))
        /\ 0 \in Subs(T("mv"))
    BY <1>2, <1>3, <1>5, <1>8 DEF SlotNames
  <2>3. srvs \in [1 .. 1 -> ViewPairs] /\ uavs \in [1 .. 1 -> ViewPairs]
    BY <2>2 DEF ViewPairs
  <2>4. /\ \A n \in 1 .. 1 : srvs[n][1] = T("raw_mv") /\ srvs[n][2] \in Subs(T("raw_mv"))
        /\ \A n \in 1 .. 1 : uavs[n][1] = T("mv") /\ uavs[n][2] \in Subs(T("mv"))
    BY <2>2
  <2> HIDE DEF srvs, uavs
  <2>5. ReadsIn(srvs, 1, T("mv"), job) /\ WritesIn(uavs, 1, T("mv"), job)
    BY <2>2, <2>3, <2>4 DEF ReadsIn, WritesIn
  <2> QED
    BY <1>1, <2>1, <2>5, DispatchPlayable
<1>9. CASE job.op = "gather"
  <2> DEFINE srvs == << <<T("rgb"), 0>>, <<T("mv"), 0>>, <<RandomTable, 0>> >>
             uavs == << <<T("blurred"), 0>> >>
  <2>1. Script(job) = Dispatch(srvs, uavs)
    BY <1>9, Zenon DEF Script, T
  <2>2. /\ T("rgb") # T("blurred") /\ T("mv") # T("blurred") /\ RandomTable # T("blurred")
        /\ T("rgb") \in Touches(job) /\ T("mv") \in Touches(job) /\ T("blurred") \in Touches(job)
        /\ T("rgb") \in Textures /\ T("mv") \in Textures /\ T("blurred") \in Textures
        /\ 0 \in Subs(T("rgb")) /\ 0 \in Subs(T("mv")) /\ 0 \in Subs(T("blurred"))
    BY <1>2, <1>3, <1>5 DEF SlotNames
  <2>3. srvs \in [1 .. 3 -> ViewPairs] /\ uavs \in [1 .. 1 -> ViewPairs]
    BY <1>4, <2>2 DEF ViewPairs
  <2>4. /\ \A n \in 1 .. 3 : /\ srvs[n][1] # T("blurred") /\ srvs[n][2] \in Subs(srvs[n][1])
                             /\ srvs[n][1] \in Touches(job)
        /\ \A n \in 1 .. 1 : uavs[n][1] = T("blurred") /\ uavs[n][2] \in Subs(T("blurred"))
    BY <1>2, <1>4, <2>2
  <2> HIDE DEF srvs, uavs
  <2>5. ReadsIn(srvs, 3, T("blurred"), job) /\ WritesIn(uavs, 1, T("blurred"), job)
    BY <2>2, <2>3, <2>4 DEF ReadsIn, WritesIn
  <2> QED
    BY <1>1, <2>1, <2>5, DispatchPlayable
<1>10. CASE job.op = "overlay"
  <2> DEFINE srvs == << <<T("mv"), 0>> >>
             uavs == << <<T("blurred"), 0>> >>
  <2>1. Script(job) = Dispatch(srvs, uavs)
    BY <1>10, Zenon DEF Script, T
  <2>2. T("mv") # T("blurred") /\ T("mv") \in Touches(job) /\ T("blurred") \in Touches(job)
        /\ T("mv") \in Textures /\ T("blurred") \in Textures /\ 0 \in Subs(T("mv"))
        /\ 0 \in Subs(T("blurred"))
    BY <1>2, <1>3, <1>5 DEF SlotNames
  <2>3. srvs \in [1 .. 1 -> ViewPairs] /\ uavs \in [1 .. 1 -> ViewPairs]
    BY <2>2 DEF ViewPairs
  <2>4. /\ \A n \in 1 .. 1 : srvs[n][1] = T("mv") /\ srvs[n][2] \in Subs(T("mv"))
        /\ \A n \in 1 .. 1 : uavs[n][1] = T("blurred") /\ uavs[n][2] \in Subs(T("blurred"))
    BY <2>2
  <2> HIDE DEF srvs, uavs
  <2>5. ReadsIn(srvs, 1, T("blurred"), job) /\ WritesIn(uavs, 1, T("blurred"), job)
    BY <2>2, <2>3, <2>4 DEF ReadsIn, WritesIn
  <2> QED
    BY <1>1, <2>1, <2>5, DispatchPlayable
<1> QED
  BY <1>6, <1>7, <1>8, <1>9, <1>10

\* And so can the list of every job.
LEMMA JobPlayable ==
    ASSUME curr_states = NewTex, NEW job \in Jobs,
           job.op \in {"read", "copy_in"} /\ job.plane = 1 => Video
    PROVE  Playable(job)
<1>1. CASE job.op \in {"read", "copy_in", "copy_out"}
  BY <1>1, CopiesPlayable
<1>2. CASE job.op \in {"to_rgb", "to_nv12", "propagate", "gather", "overlay"}
  BY <1>2, ShadersPlayable
<1>3. CASE job.op = "readback"
  <2> DEFINE src == TextureOf("blurred", job.slot)
  <2>1. Script(job) = ReadbackScript(src)
    BY <1>3, Zenon DEF Script
  <2>2. src \in Touches(job) /\ src \in Textures
    <3>1. job.slot \in 0 .. FrameCount - 1
      BY DEF Jobs
    <3> QED
      BY <1>3, <3>1, SlotTouched DEF SlotNames, Touches
  <2> HIDE DEF src
  <2> QED
    BY <1>3, <2>1, <2>2, ReadbackDrives DEF Playable
<1>4. CASE job.op = "estimate"
  <2> DEFINE ref == TextureOf("scaled", Gpu!PrevSlot(job.slot))
             input_frame == TextureOf("scaled", job.slot)
             output == TextureOf("raw_mv", job.slot)
  <2>1. Script(job) = EstimateScript(ref, input_frame, output)
    BY <1>4, Zenon DEF Script
  <2>2. /\ job.slot \in 0 .. FrameCount - 1 /\ Gpu!PrevSlot(job.slot) \in 0 .. FrameCount - 1
        /\ Gpu!PrevSlot(job.slot) # job.slot
    <3>1. job.slot \in 0 .. FrameCount - 1
      BY DEF Jobs
    <3> QED
      BY <3>1, SlotNumbers, SameConstants, SameAssumption, Known!SlotRing DEF Known!PrevSlot, Gpu!PrevSlot
  <2>3. ref \in Textures /\ input_frame \in Textures /\ output \in Textures
    BY <2>2, SlotTexture DEF SlotNames
  <2>4. ref # input_frame /\ ref # output /\ input_frame # output
    BY <2>2 DEF TextureOf
  <2>5. ref \in Touches(job) /\ input_frame \in Touches(job) /\ output \in Touches(job)
    BY <1>4, <2>3 DEF Touches
  <2> HIDE DEF ref, input_frame, output
  <2> DEFINE script == EstimateScript(ref, input_frame, output)
             track == EstimateTrack(ref, input_frame, output)
  <2>6. /\ Drives(script, track)
        /\ \A n \in 0 .. 9, t \in Textures : track[n][t] \in VideoStates
        /\ Len(script) = 9
        /\ \A n \in 1 .. 9 : script[n].tex \in {ref, input_frame, output}
    BY <2>3, <2>4, EstimateDrives, Zenon
  <2> HIDE DEF script, track
  <2>7. \A n \in 1 .. 9 : script[n].tex \in Touches(job)
    BY <2>5, <2>6
  <2>8. Script(job) = script
    BY <2>1 DEF script
  <2> QED
    BY <2>6, <2>7, <2>8 DEF Playable
<1> QED
  BY <1>1, <1>2, <1>3, <1>4 DEF Jobs

\* Any list of a job, recorded while the textures are as new.
LEMMA JobRecorded ==
    ASSUME curr_states = NewTex, NEW job \in Jobs,
           job.op \in {"read", "copy_in"} /\ job.plane = 1 => Video
    PROVE  /\ Recorded(job).commands \in Seq(Commands)
           /\ Recorded(job).states = NewTex
           /\ ListFor(Recorded(job).commands, job, NewTex, NewTex)
<1>1. PICK track :
        /\ Drives(Script(job), track)
        /\ \A n \in 1 .. Len(Script(job)) : Script(job)[n].tex \in Touches(job)
        /\ job.op = "estimate" =>
             \A n \in 0 .. Len(Script(job)), t \in Textures : track[n][t] \in VideoStates
  BY JobPlayable DEF Playable
<1> QED
  BY <1>1, ListRecorded

(***************************************************************************)
(* The lists of a queue                                                    *)
(***************************************************************************)

\* The lists of a queue s are those of its jobs, in their order: the one at its head can be run
\* as the textures are now, in states g, the others once they are new.
Fits(f, lists_of, s, g, new) ==
    /\ Len(lists_of) \in Nat /\ Len(s) \in Nat
    /\ \A k \in 1 .. Len(lists_of) :
         /\ f[k] \in 1 .. Len(s) /\ IsReal(s[f[k]])
         /\ ListFor(lists_of[k], s[f[k]].job, IF f[k] = 1 THEN g ELSE new, new)
    /\ \A j, k \in 1 .. Len(lists_of) : j < k => f[j] < f[k]
    /\ \A m \in 1 .. Len(s) : IsReal(s[m]) => \E k \in 1 .. Len(lists_of) : f[k] = m
Served(lists_of, s, g, new) == \E f : Fits(f, lists_of, s, g, new)

Starts(s) == Len(s) > 0 /\ IsReal(s[1])

\* Textures in states g and other that are the same for the job.
AgreeOn(g, other, job) == \A t \in Touches(job) : g[t] = other[t]
AtStart(s, g, other) == Starts(s) => AgreeOn(g, other, s[1].job)

\* A list can also be run in other states that agree where it looks.
LEMMA ListAgrees ==
    ASSUME NEW l, NEW job, NEW g, NEW other, NEW new, ListFor(l, job, g, new), AgreeOn(g, other, job)
    PROVE  ListFor(l, job, other, new)
BY DEF ListFor, AgreeOn

\* A list that has run to its end has left its textures as new.
LEMMA ListRun ==
    ASSUME NEW job, NEW g, NEW new, ListFor(<<>>, job, g, new)
    PROVE  AgreeOn(g, new, job)
<1>1. Len(<<>>) = 0
  OBVIOUS
<1> QED
  BY <1>1 DEF ListFor, Plays, AgreeOn

\* The first list of a queue is that of the job at its head.
LEMMA HeadServed ==
    ASSUME NEW L, NEW s, NEW g, NEW new, Served(L, s, g, new), Starts(s)
    PROVE  Len(L) > 0 /\ ListFor(L[1], s[1].job, g, new)
<1>1. PICK f : Fits(f, L, s, g, new)
  BY DEF Served
<1>2. Len(L) \in Nat /\ Len(s) \in Nat /\ 1 \in 1 .. Len(s)
  BY <1>1 DEF Fits, Starts
<1>3. PICK k \in 1 .. Len(L) : f[k] = 1
  BY <1>1, <1>2 DEF Fits, Starts
<1>4. k = 1
  <2>1. 1 \in 1 .. Len(L) /\ f[1] \in 1 .. Len(s)
    BY <1>1, <1>2, <1>3 DEF Fits
  <2>2. 1 < k => f[1] < f[k]
    BY <1>1, <2>1 DEF Fits
  <2> QED
    BY <1>2, <1>3, <2>1, <2>2
<1>5. ListFor(L[k], s[f[k]].job, IF f[k] = 1 THEN g ELSE new, new)
  BY <1>1 DEF Fits
<1> QED
  BY <1>2, <1>3, <1>4, <1>5

\* The states may change where the list at the head does not look.
LEMMA ServedAgrees ==
    ASSUME NEW L, NEW s, NEW g, NEW other, NEW new, Served(L, s, g, new), AtStart(s, g, other)
    PROVE  Served(L, s, other, new)
<1>1. PICK f : Fits(f, L, s, g, new)
  BY DEF Served
<1>2. ASSUME NEW k \in 1 .. Len(L)
      PROVE  ListFor(L[k], s[f[k]].job, IF f[k] = 1 THEN other ELSE new, new)
  <2>1. f[k] \in 1 .. Len(s) /\ IsReal(s[f[k]]) /\ Len(s) \in Nat
        /\ ListFor(L[k], s[f[k]].job, IF f[k] = 1 THEN g ELSE new, new)
    BY <1>1 DEF Fits
  <2>2. CASE f[k] = 1
    BY <2>1, <2>2, ListAgrees DEF AtStart, Starts
  <2>3. CASE f[k] # 1
    BY <2>1, <2>3
  <2> QED
    BY <2>2, <2>3
<1>3. Fits(f, L, s, other, new)
  BY <1>1, <1>2 DEF Fits
<1> QED
  BY <1>3 DEF Served

\* The sequence t goes on where s ends; t is what follows the head of s.
GoesOn(t, s) ==
    /\ Len(s) \in Nat /\ Len(t) \in Nat /\ Len(s) <= Len(t)
    /\ \A m \in 1 .. Len(s) : t[m] = s[m]
TailOf(t, s) ==
    /\ Len(t) \in Nat /\ Len(s) = Len(t) + 1
    /\ \A m \in 1 .. Len(t) : t[m] = s[m + 1]

NothingNew(t, s) == \A m \in Len(s) + 1 .. Len(t) : ~IsReal(t[m])
OneNew(t, s, p) ==
    /\ p \in Len(s) + 1 .. Len(t) /\ IsReal(t[p])
    /\ \A m \in Len(s) + 1 .. Len(t) : IsReal(t[m]) => m = p

\* Entries without a job bring no list.
LEMMA ServedLonger ==
    ASSUME NEW L, NEW s, NEW t, NEW g, NEW new, Served(L, s, g, new), GoesOn(t, s), NothingNew(t, s)
    PROVE  Served(L, t, g, new)
<1>1. PICK f : Fits(f, L, s, g, new)
  BY DEF Served
<1>2. ASSUME NEW k \in 1 .. Len(L)
      PROVE  /\ f[k] \in 1 .. Len(t) /\ IsReal(t[f[k]])
             /\ ListFor(L[k], t[f[k]].job, IF f[k] = 1 THEN g ELSE new, new)
  <2>1. f[k] \in 1 .. Len(s) /\ t[f[k]] = s[f[k]] /\ f[k] \in 1 .. Len(t)
    BY <1>1 DEF Fits, GoesOn
  <2> QED
    BY <1>1, <2>1 DEF Fits
<1>3. ASSUME NEW m \in 1 .. Len(t), IsReal(t[m])
      PROVE  \E k \in 1 .. Len(L) : f[k] = m
  <2>1. m \in 1 .. Len(s)
    BY <1>3 DEF NothingNew, GoesOn
  <2>2. t[m] = s[m]
    BY <2>1 DEF GoesOn
  <2> QED
    BY <1>1, <1>3, <2>1, <2>2 DEF Fits
<1>4. Fits(f, L, t, g, new)
  BY <1>1, <1>2, <1>3 DEF Fits, GoesOn
<1> QED
  BY <1>4 DEF Served

\* A list more.
Adds(M, L, l) ==
    /\ Len(L) \in Nat /\ Len(M) = Len(L) + 1 /\ M[Len(L) + 1] = l
    /\ \A k \in 1 .. Len(L) : M[k] = L[k]

\* An entry with a job brings its list.
LEMMA ServedMore ==
    ASSUME NEW L, NEW s, NEW t, NEW g, NEW new, Served(L, s, g, new), GoesOn(t, s),
           NEW p, OneNew(t, s, p), NEW l, ListFor(l, t[p].job, new, new),
           p = 1 => AgreeOn(new, g, t[p].job),
           NEW M, Adds(M, L, l)
    PROVE  Served(M, t, g, new)
<1>1. PICK f : Fits(f, L, s, g, new)
  BY DEF Served
<1> DEFINE e == [k \in 1 .. Len(M) |-> IF k = Len(L) + 1 THEN p ELSE f[k]]
<1>2. /\ Len(L) \in Nat /\ Len(M) = Len(L) + 1 /\ Len(s) \in Nat /\ Len(t) \in Nat
      /\ p \in 1 .. Len(t) /\ p > Len(s)
  BY DEF Adds, GoesOn, OneNew
<1>3. e[Len(L) + 1] = p /\ \A k \in 1 .. Len(L) : e[k] = f[k]
  BY <1>2
<1> HIDE DEF e
<1>4. ASSUME NEW k \in 1 .. Len(M)
      PROVE  /\ e[k] \in 1 .. Len(t) /\ IsReal(t[e[k]])
             /\ ListFor(M[k], t[e[k]].job, IF e[k] = 1 THEN g ELSE new, new)
  <2>1. CASE k = Len(L) + 1
    <3>1. e[k] = p /\ M[k] = l /\ IsReal(t[p])
      BY <1>3, <2>1 DEF Adds, OneNew
    <3>2. ListFor(l, t[p].job, IF p = 1 THEN g ELSE new, new)
      BY ListAgrees
    <3> QED
      BY <1>2, <3>1, <3>2
  <2>2. CASE k \in 1 .. Len(L)
    <3>1. e[k] = f[k] /\ M[k] = L[k]
      BY <1>3, <2>2 DEF Adds
    <3>2. f[k] \in 1 .. Len(s) /\ t[f[k]] = s[f[k]] /\ f[k] \in 1 .. Len(t)
      BY <1>1, <2>2 DEF Fits, GoesOn
    <3> QED
      BY <1>1, <2>2, <3>1, <3>2 DEF Fits
  <2> QED
    BY <1>2, <2>1, <2>2
<1>5. ASSUME NEW j \in 1 .. Len(M), NEW k \in 1 .. Len(M), j < k
      PROVE  e[j] < e[k]
  <2>1. j \in 1 .. Len(L) /\ e[j] = f[j] /\ f[j] \in 1 .. Len(s)
    BY <1>1, <1>2, <1>3, <1>5 DEF Fits
  <2>2. CASE k = Len(L) + 1
    BY <1>2, <1>3, <2>1, <2>2
  <2>3. CASE k \in 1 .. Len(L)
    BY <1>1, <1>3, <1>5, <2>1, <2>3 DEF Fits
  <2> QED
    BY <1>2, <2>2, <2>3
<1>6. ASSUME NEW m \in 1 .. Len(t), IsReal(t[m])
      PROVE  \E k \in 1 .. Len(M) : e[k] = m
  <2>1. CASE m \in 1 .. Len(s)
    <3>1. PICK k \in 1 .. Len(L) : f[k] = m
      BY <1>1, <1>6, <2>1 DEF Fits, GoesOn
    <3> QED
      BY <1>2, <1>3, <3>1
  <2>2. CASE m \in Len(s) + 1 .. Len(t)
    <3>1. m = p /\ Len(L) + 1 \in 1 .. Len(M)
      BY <1>2, <1>6, <2>2 DEF OneNew
    <3> QED
      BY <1>3, <3>1
  <2> QED
    BY <1>2, <2>1, <2>2
<1>7. Fits(e, M, t, g, new)
  BY <1>2, <1>4, <1>5, <1>6 DEF Fits
<1> QED
  BY <1>7 DEF Served

\* The head of the queue is done with: an entry without a job, or a list that has run.
LEMMA ServedNext ==
    ASSUME NEW L, NEW s, NEW t, NEW g, NEW new, Served(L, s, g, new), TailOf(t, s),
           ~IsReal(s[1]), AtStart(t, new, g)
    PROVE  Served(L, t, g, new)
<1>1. PICK f : Fits(f, L, s, g, new)
  BY DEF Served
<1> DEFINE e == [k \in 1 .. Len(L) |-> f[k] - 1]
<1>2. Len(L) \in Nat /\ Len(t) \in Nat /\ Len(s) = Len(t) + 1
  BY <1>1 DEF Fits, TailOf
<1>3. \A k \in 1 .. Len(L) : e[k] = f[k] - 1
  OBVIOUS
<1> HIDE DEF e
<1>4. ASSUME NEW k \in 1 .. Len(L)
      PROVE  f[k] \in 2 .. Len(s) /\ e[k] \in 1 .. Len(t) /\ t[e[k]] = s[f[k]]
  <2>1. f[k] \in 1 .. Len(s) /\ f[k] # 1
    BY <1>1 DEF Fits
  <2>2. e[k] \in 1 .. Len(t) /\ e[k] + 1 = f[k]
    BY <1>2, <1>3, <2>1
  <2>3. t[e[k]] = s[e[k] + 1]
    BY <2>2 DEF TailOf
  <2> QED
    BY <1>2, <2>1, <2>2, <2>3
<1>5. ASSUME NEW k \in 1 .. Len(L)
      PROVE  IsReal(t[e[k]]) /\ ListFor(L[k], t[e[k]].job, IF e[k] = 1 THEN g ELSE new, new)
  <2>1. f[k] # 1 /\ t[e[k]] = s[f[k]]
    BY <1>2, <1>4
  <2>2. IsReal(t[e[k]]) /\ ListFor(L[k], t[e[k]].job, new, new)
    BY <1>1, <2>1 DEF Fits
  <2>3. CASE e[k] = 1
    <3>1. AgreeOn(new, g, t[e[k]].job)
      BY <1>2, <1>4, <2>2, <2>3 DEF AtStart, Starts
    <3> QED
      BY <2>2, <2>3, <3>1, ListAgrees
  <2> QED
    BY <2>2, <2>3
<1>6. ASSUME NEW j \in 1 .. Len(L), NEW k \in 1 .. Len(L), j < k
      PROVE  e[j] < e[k]
  <2>1. f[j] < f[k] /\ f[j] \in 1 .. Len(s) /\ f[k] \in 1 .. Len(s)
    BY <1>1, <1>6 DEF Fits
  <2> QED
    BY <1>2, <1>3, <2>1
<1>7. ASSUME NEW m \in 1 .. Len(t), IsReal(t[m])
      PROVE  \E k \in 1 .. Len(L) : e[k] = m
  <2>1. m + 1 \in 1 .. Len(s) /\ t[m] = s[m + 1]
    BY <1>2 DEF TailOf
  <2>2. PICK k \in 1 .. Len(L) : f[k] = m + 1
    BY <1>1, <1>7, <2>1 DEF Fits
  <2> QED
    BY <1>3, <2>2
<1>8. Fits(e, L, t, g, new)
  BY <1>2, <1>4, <1>5, <1>6, <1>7 DEF Fits
<1> QED
  BY <1>8 DEF Served

\* The list of a job leaves with its entry.
LEMMA ServedDone ==
    ASSUME NEW L, NEW s, NEW t, NEW g, NEW new, Served(L, s, g, new), TailOf(t, s),
           IsReal(s[1]), AtStart(t, new, g), NEW M, TailOf(M, L)
    PROVE  Served(M, t, g, new)
<1>1. PICK f : Fits(f, L, s, g, new)
  BY DEF Served
<1> DEFINE e == [k \in 1 .. Len(M) |-> f[k + 1] - 1]
<1>2. /\ Len(L) \in Nat /\ Len(t) \in Nat /\ Len(s) = Len(t) + 1 /\ Len(M) \in Nat
      /\ Len(L) = Len(M) + 1
  BY <1>1 DEF Fits, TailOf
<1>3. \A k \in 1 .. Len(M) : e[k] = f[k + 1] - 1
  OBVIOUS
<1> HIDE DEF e
<1>4. ASSUME NEW k \in 1 .. Len(M)
      PROVE  /\ k + 1 \in 1 .. Len(L) /\ M[k] = L[k + 1]
             /\ f[k + 1] \in 2 .. Len(s) /\ e[k] \in 1 .. Len(t) /\ t[e[k]] = s[f[k + 1]]
  <2>1. 1 \in 1 .. Len(L) /\ k + 1 \in 1 .. Len(L) /\ 1 < k + 1 /\ M[k] = L[k + 1]
    BY <1>2 DEF TailOf
  <2>2. f[1] \in 1 .. Len(s) /\ f[k + 1] \in 1 .. Len(s) /\ f[1] < f[k + 1]
    BY <1>1, <2>1 DEF Fits
  <2>3. e[k] \in 1 .. Len(t) /\ e[k] + 1 = f[k + 1]
    <3> DEFINE x == f[k + 1]
    <3>0. e[k] = x - 1
      BY <1>3
    <3>1. e[k] = x - 1 /\ x \in 1 .. Len(s) /\ x > 1
      BY <2>2, <3>0
    <3> HIDE DEF x
    <3>2. e[k] \in 1 .. Len(t) /\ e[k] + 1 = x
      BY <1>2, <3>1
    <3> QED
      BY <3>2 DEF x
  <2>4. t[e[k]] = s[e[k] + 1]
    BY <2>3 DEF TailOf
  <2> QED
    BY <1>2, <2>1, <2>2, <2>3, <2>4
<1>5. ASSUME NEW k \in 1 .. Len(M)
      PROVE  IsReal(t[e[k]]) /\ ListFor(M[k], t[e[k]].job, IF e[k] = 1 THEN g ELSE new, new)
  <2>1. /\ f[k + 1] # 1 /\ t[e[k]] = s[f[k + 1]] /\ k + 1 \in 1 .. Len(L)
        /\ M[k] = L[k + 1] /\ e[k] \in 1 .. Len(t)
    BY <1>2, <1>4
  <2>2. IsReal(s[f[k + 1]]) /\ ListFor(L[k + 1], s[f[k + 1]].job, new, new)
    BY <1>1, <2>1 DEF Fits
  <2>3. IsReal(t[e[k]]) /\ ListFor(M[k], t[e[k]].job, new, new)
    BY <2>1, <2>2
  <2>4. CASE e[k] = 1
    <3>1. AgreeOn(new, g, t[e[k]].job)
      BY <1>2, <2>1, <2>3, <2>4 DEF AtStart, Starts
    <3> QED
      BY <2>3, <2>4, <3>1, ListAgrees
  <2> QED
    BY <2>3, <2>4
<1>6. ASSUME NEW j \in 1 .. Len(M), NEW k \in 1 .. Len(M), j < k
      PROVE  e[j] < e[k]
  <2>1. j + 1 \in 1 .. Len(L) /\ k + 1 \in 1 .. Len(L) /\ j + 1 < k + 1
    BY <1>2, <1>6
  <2>2. f[j + 1] < f[k + 1] /\ f[j + 1] \in 1 .. Len(s) /\ f[k + 1] \in 1 .. Len(s)
    BY <1>1, <2>1 DEF Fits
  <2> QED
    BY <1>2, <1>3, <2>2
<1>7. ASSUME NEW m \in 1 .. Len(t), IsReal(t[m])
      PROVE  \E k \in 1 .. Len(M) : e[k] = m
  <2>1. m + 1 \in 1 .. Len(s) /\ t[m] = s[m + 1] /\ 1 \in 1 .. Len(s)
    BY <1>2 DEF TailOf
  <2>2. PICK k \in 1 .. Len(L) : f[k] = m + 1
    BY <1>1, <1>7, <2>1 DEF Fits
  <2>3. k # 1
    <3>1. PICK j \in 1 .. Len(L) : f[j] = 1
      BY <1>1, <2>1 DEF Fits
    <3>2. k < j => f[k] < f[j]
      BY <1>1 DEF Fits
    <3> QED
      BY <1>2, <2>2, <3>1, <3>2
  <2>4. k - 1 \in 1 .. Len(M) /\ (k - 1) + 1 = k
    BY <1>2, <2>3
  <2>5. e[k - 1] = f[k] - 1
    BY <1>3, <2>4
  <2> QED
    BY <2>2, <2>4, <2>5
<1>8. Fits(e, M, t, g, new)
  BY <1>2, <1>4, <1>5, <1>6, <1>7 DEF Fits
<1> QED
  BY <1>8 DEF Served

\* The GPU runs the first command of a list.
AfterFirst(other, g, c) ==
    /\ other[c.tex] = AfterCommand(c.command, g[c.tex])
    /\ \A t \in Textures : t # c.tex => other[t] = g[t]

\* The first command of a list finds its texture as it needs it, and the rest of the list can
\* be run then.
LEMMA ListFirst ==
    ASSUME NEW l, NEW job, NEW g, NEW new, ListFor(l, job, g, new), NEW rest, TailOf(rest, l),
           NEW other, AfterFirst(other, g, l[1])
    PROVE  /\ l[1].tex \in Touches(job)
           /\ Performs(l[1].command, g[l[1].tex], other[l[1].tex])
           /\ job.op = "estimate" => NamesVideoStates(l[1].command)
           /\ ListFor(rest, job, other, new)
<1>1. PICK h : Plays(l, job, h, new) /\ \A t \in Touches(job) : h[0][t] = g[t]
  BY DEF ListFor
<1> DEFINE c == l[1]
           e == [n \in 0 .. Len(rest) |-> h[n + 1]]
<1>2. Len(rest) \in Nat /\ Len(l) = Len(rest) + 1 /\ 1 \in 1 .. Len(l) /\ 1 - 1 = 0
  BY DEF TailOf
<1>3. /\ c.tex \in Touches(job)
      /\ Performs(c.command, h[1 - 1][c.tex], h[1][c.tex])
      /\ \A t \in Touches(job) : t # c.tex => h[1][t] = h[1 - 1][t]
      /\ job.op = "estimate" => NamesVideoStates(c.command)
  BY <1>1, <1>2, Zenon DEF Plays
<1>4. h[1 - 1] = h[0]
  BY <1>2
<1>5. h[0][c.tex] = g[c.tex]
  BY <1>1, <1>3
<1>6. h[1][c.tex] = other[c.tex]
  <2>1. h[1][c.tex] = AfterCommand(c.command, h[0][c.tex])
    BY <1>3, <1>4, Zenon DEF Performs
  <2>2. other[c.tex] = AfterCommand(c.command, g[c.tex])
    BY Zenon DEF AfterFirst
  <2> QED
    BY <1>5, <2>1, <2>2, Zenon
<1>7. \A t \in Touches(job) : h[1][t] = other[t]
  <2> TAKE t \in Touches(job)
  <2>1. t \in Textures
    BY DEF Touches
  <2>2. CASE t # c.tex
    <3>1. other[t] = g[t]
      BY <2>1, <2>2 DEF AfterFirst
    <3>2. h[1][t] = h[0][t]
      BY <1>3, <1>4, <2>2
    <3> QED
      BY <1>1, <3>1, <3>2
  <2> QED
    BY <1>6, <2>2
<1>8. \A n \in 0 .. Len(rest) : e[n] = h[n + 1]
  OBVIOUS
<1> HIDE DEF e, c
<1>9. ASSUME NEW n \in 1 .. Len(rest)
      PROVE  /\ rest[n].tex \in Touches(job)
             /\ Performs(rest[n].command, e[n - 1][rest[n].tex], e[n][rest[n].tex])
             /\ \A t \in Touches(job) : t # rest[n].tex => e[n][t] = e[n - 1][t]
             /\ job.op = "estimate" => NamesVideoStates(rest[n].command)
  <2> DEFINE m == n + 1
  <2>1. m \in 1 .. Len(l) /\ m - 1 = n /\ n \in 0 .. Len(rest) /\ n - 1 \in 0 .. Len(rest)
        /\ (n - 1) + 1 = n
    BY <1>2
  <2>2. rest[n] = l[m]
    BY DEF TailOf
  <2>3. e[n] = h[m] /\ e[n - 1] = h[n]
    BY <1>8, <2>1
  <2> HIDE DEF m
  <2>4. /\ l[m].tex \in Touches(job)
        /\ Performs(l[m].command, h[m - 1][l[m].tex], h[m][l[m].tex])
        /\ \A t \in Touches(job) : t # l[m].tex => h[m][t] = h[m - 1][t]
        /\ job.op = "estimate" => NamesVideoStates(l[m].command)
    BY <1>1, <2>1, Zenon DEF Plays
  <2> QED
    BY <2>1, <2>2, <2>3, <2>4, Zenon
<1>10. \A t \in Touches(job) : e[Len(rest)][t] = new[t]
  <2>1. e[Len(rest)] = h[Len(l)]
    BY <1>2, <1>8
  <2> QED
    BY <1>1, <2>1 DEF Plays
<1>11. e[0] = h[1]
  BY <1>2, <1>8
<1>12. Plays(rest, job, e, new)
  BY <1>9, <1>10 DEF Plays
<1>13. ListFor(rest, job, other, new)
  BY <1>7, <1>11, <1>12 DEF ListFor
<1>14. Performs(c.command, g[c.tex], other[c.tex])
  BY <1>3, <1>4, <1>5, <1>6
<1> QED
  BY <1>3, <1>13, <1>14 DEF c

\* Its list is left with the rest.
LessFirst(M, L) ==
    /\ Len(L) \in Nat /\ Len(M) = Len(L) /\ TailOf(M[1], L[1])
    /\ \A k \in 1 .. Len(L) : k # 1 => M[k] = L[k]

\* After a command the lists that are left can be run.
LEMMA ServedCommand ==
    ASSUME NEW L, NEW s, NEW g, NEW new, Served(L, s, g, new), Starts(s),
           NEW M, LessFirst(M, L), NEW other, AfterFirst(other, g, L[1][1])
    PROVE  Served(M, s, other, new)
<1>1. PICK f : Fits(f, L, s, g, new)
  BY DEF Served
<1>2. /\ Len(L) \in Nat /\ Len(s) \in Nat /\ 1 \in 1 .. Len(s) /\ Len(M) = Len(L)
      /\ Len(L) > 0 /\ ListFor(L[1], s[1].job, g, new)
  BY <1>1, HeadServed DEF Fits, Starts, LessFirst
<1>3. ListFor(M[1], s[1].job, other, new)
  BY <1>2, ListFirst DEF LessFirst
<1>4. f[1] = 1
  <2>1. PICK k \in 1 .. Len(L) : f[k] = 1
    BY <1>1, <1>2 DEF Fits, Starts
  <2>2. 1 \in 1 .. Len(L) /\ f[1] \in 1 .. Len(s)
    BY <1>1, <1>2 DEF Fits
  <2>3. 1 < k => f[1] < f[k]
    BY <1>1, <2>2 DEF Fits
  <2> QED
    BY <1>2, <2>1, <2>2, <2>3
<1>5. ASSUME NEW k \in 1 .. Len(M)
      PROVE  /\ f[k] \in 1 .. Len(s) /\ IsReal(s[f[k]])
             /\ ListFor(M[k], s[f[k]].job, IF f[k] = 1 THEN other ELSE new, new)
  <2>1. /\ k \in 1 .. Len(L) /\ f[k] \in 1 .. Len(s) /\ IsReal(s[f[k]])
        /\ ListFor(L[k], s[f[k]].job, IF f[k] = 1 THEN g ELSE new, new)
    BY <1>1, <1>2 DEF Fits
  <2>2. CASE k = 1
    BY <1>3, <1>4, <2>1, <2>2
  <2>3. CASE k # 1
    <3>1. 1 \in 1 .. Len(L) /\ 1 < k
      BY <1>2, <2>1, <2>3
    <3>2. f[1] < f[k]
      BY <1>1, <2>1, <3>1 DEF Fits
    <3>3. M[k] = L[k] /\ f[k] # 1
      BY <1>4, <2>1, <2>3, <3>2 DEF LessFirst
    <3> QED
      BY <2>1, <3>3
  <2> QED
    BY <2>2, <2>3
<1>6. Fits(f, M, s, other, new)
  BY <1>1, <1>2, <1>5 DEF Fits
<1> QED
  BY <1>6 DEF Served

(***************************************************************************)
(* The two queues and the textures                                         *)
(***************************************************************************)

\* What a list touches.
LEMMA ListTouches ==
    ASSUME NEW l, NEW job, NEW g, NEW new, ListFor(l, job, g, new), NEW n \in 1 .. Len(l)
    PROVE  l[n].tex \in Touches(job) /\ (job.op = "estimate" => NamesVideoStates(l[n].command))
BY DEF ListFor, Plays

\* No texture is touched by both jobs.
Apart(a, b) == \A t \in Textures : ~(t \in Touches(a) /\ t \in Touches(b))
HeadsApart(s, o) == Starts(s) /\ Starts(o) => Apart(s[1].job, o[1].job)

\* At the heads of the queues are no two jobs one of which needs the other, and what else an
\* estimate works on is its own.
LEMMA QueuesApart ==
    ASSUME NEW s \in Seq(Known!Entry), NEW o \in Seq(Known!Entry), NEW f, NEW newest,
           Half(s, 0, o, f, newest), Half(o, 1, s, f, newest)
    PROVE  HeadsApart(s, o) /\ HeadsApart(o, s)
<1> SUFFICES ASSUME Starts(s), Starts(o), NEW t \in Textures,
                    t \in Touches(s[1].job), t \in Touches(o[1].job)
             PROVE  FALSE
  BY DEF HeadsApart, Apart
<1> DEFINE a == s[1].job
           b == o[1].job
<1>1. /\ 1 \in 1 .. Len(s) /\ 1 \in 1 .. Len(o) /\ s # <<>> /\ o # <<>>
      /\ IsReal(s[1]) /\ IsReal(o[1])
  BY DEF Starts
<1>2. a.op # "estimate" /\ b.op = "estimate"
  BY <1>1 DEF Half, Homes
<1>3. ~Needs(a, b) /\ ~Needs(b, a)
  <2>1. RanksGrow(s) /\ RanksGrow(o) /\ Covered(s, o) /\ Covered(o, s)
    BY DEF Half
  <2>2. ~Needs(a, b)
    BY <1>1, <2>1, HeadJob
  <2>3. ~Needs(b, a)
    BY <1>1, <2>1, HeadJob
  <2> QED
    BY <2>2, <2>3
<1> HIDE DEF a, b
<1>4. t \in {TextureOf("scaled", b.slot), TextureOf("scaled", Gpu!PrevSlot(b.slot)),
             TextureOf("raw_mv", b.slot)}
  BY <1>2 DEF Touches, a, b
<1>5. /\ t = RandomTable \/ t[2] = a.slot
      /\ t[1] = "scaled" => a.op = "to_nv12"
      /\ t[1] = "raw_mv" => a.op = "propagate"
  BY <1>2 DEF Touches, a, b
<1>6. t # RandomTable
  BY <1>4, OtherNames DEF RandomTable
<1>7. CASE t \in {TextureOf("scaled", b.slot), TextureOf("scaled", Gpu!PrevSlot(b.slot))}
  <2>1. t[1] = "scaled" /\ t[2] \in {b.slot, Gpu!PrevSlot(b.slot)}
    BY <1>7 DEF TextureOf
  <2> QED
    BY <1>2, <1>3, <1>5, <1>6, <2>1 DEF Needs
<1>8. CASE t = TextureOf("raw_mv", b.slot)
  <2>1. t[1] = "raw_mv" /\ t[2] = b.slot
    BY <1>8 DEF TextureOf
  <2> QED
    BY <1>2, <1>3, <1>5, <1>6, <2>1 DEF Needs
<1> QED
  BY <1>4, <1>7, <1>8

\* The same for either queue beside the other.
LEMMA HalvesApart ==
    ASSUME NEW q \in {0, 1}, NEW s \in Seq(Known!Entry), NEW o \in Seq(Known!Entry), NEW f, NEW newest,
           Half(s, q, o, f, newest), Half(o, 1 - q, s, f, newest)
    PROVE  HeadsApart(s, o)
<1>1. CASE q = 0
  BY <1>1, QueuesApart
<1>2. CASE q = 1
  BY <1>2, QueuesApart
<1> QED
  BY <1>1, <1>2

\* The two queues of the program work on different textures.
LEMMA HeadsAreApart ==
    ASSUME NEW q \in {0, 1}, ProgramInv, HalvesInv
    PROVE  HeadsApart(queue[q], queue[1 - q])
<1>1. queue[q] \in Seq(Known!Entry) /\ queue[1 - q] \in Seq(Known!Entry)
  BY GpuTypes
<1> QED
  BY <1>1, HalvesApart, Halves

\* The list at the head of s touches the texture.
InHead(s, t) == Starts(s) /\ t \in Touches(s[1].job)

\* Textures that neither queue is at work on are as new.
Tidy(s, o, g, new) == \A t \in Textures : ~InHead(s, t) /\ ~InHead(o, t) => g[t] = new[t]

\* Entries that are added leave the head alone.
LEMMA TidyLonger ==
    ASSUME NEW s, NEW t, NEW o, NEW p, NEW g, NEW new, Tidy(s, o, g, new), GoesOn(t, s), GoesOn(p, o)
    PROVE  Tidy(t, p, g, new)
<1>1. Starts(s) => Starts(t) /\ t[1] = s[1]
  BY DEF Starts, GoesOn
<1>2. Starts(o) => Starts(p) /\ p[1] = o[1]
  BY DEF Starts, GoesOn
<1> QED
  BY <1>1, <1>2 DEF Tidy, InHead

\* It does not matter which queue is named first.
LEMMA TidyOther ==
    ASSUME NEW s, NEW o, NEW g, NEW new, Tidy(s, o, g, new)
    PROVE  Tidy(o, s, g, new)
BY DEF Tidy

\* A list that gets to the head of a queue finds its textures as new.
LEMMA TidyHead ==
    ASSUME NEW s, NEW o, NEW g, NEW new, Tidy(s, o, g, new), NEW t, HeadsApart(t, o),
           Starts(s) => AgreeOn(g, new, s[1].job)
    PROVE  AtStart(t, new, g)
<1> SUFFICES ASSUME Starts(t), NEW x \in Touches(t[1].job)
             PROVE  new[x] = g[x]
  BY DEF AtStart, AgreeOn
<1>1. x \in Textures
  BY DEF Touches
<1>2. ~InHead(o, x)
  BY <1>1 DEF InHead, HeadsApart, Apart
<1> QED
  BY <1>1, <1>2 DEF Tidy, InHead, AgreeOn

\* The head of a queue is done with.
LEMMA TidyNext ==
    ASSUME NEW s, NEW o, NEW g, NEW new, Tidy(s, o, g, new), NEW t,
           Starts(s) => AgreeOn(g, new, s[1].job)
    PROVE  Tidy(t, o, g, new)
BY DEF Tidy, InHead, AgreeOn

\* A command is run.
LEMMA TidyCommand ==
    ASSUME NEW s, NEW o, NEW g, NEW new, Tidy(s, o, g, new), Starts(s), HeadsApart(s, o),
           NEW c, c.tex \in Touches(s[1].job), NEW other, AfterFirst(other, g, c)
    PROVE  Tidy(s, o, other, new) /\ AtStart(o, g, other)
<1>1. Tidy(s, o, other, new)
  BY DEF Tidy, InHead, AfterFirst
<1>2. ASSUME Starts(o), NEW x \in Touches(o[1].job)
      PROVE  g[x] = other[x]
  <2>1. x \in Textures
    BY DEF Touches
  <2>2. x # c.tex
    BY <1>2, <2>1 DEF HeadsApart, Apart
  <2> QED
    BY <2>1, <2>2 DEF AfterFirst
<1> QED
  BY <1>1, <1>2 DEF AtStart, AgreeOn

\* The CPU tracks every texture as new between two lists, the GPU finds its lists as it
\* needs them, and what it is not at work on it has left as new.
StateInv ==
    /\ curr_states = NewTex
    /\ gpu_states = [t \in Textures |-> gpu_states[t]]
    /\ lists \in [{0, 1} -> Seq(Seq(Commands))]
    /\ \A q \in {0, 1} : Served(lists[q], queue[q], gpu_states, NewTex)
    /\ Tidy(queue[0], queue[1], gpu_states, NewTex)

\* The invariant, one queue first.
LEMMA StateAt ==
    ASSUME NEW q \in {0, 1}
    PROVE  StateInv <=>
             /\ curr_states = NewTex
             /\ gpu_states = [t \in Textures |-> gpu_states[t]]
             /\ lists \in [{0, 1} -> Seq(Seq(Commands))]
             /\ Served(lists[q], queue[q], gpu_states, NewTex)
             /\ Served(lists[1 - q], queue[1 - q], gpu_states, NewTex)
             /\ Tidy(queue[q], queue[1 - q], gpu_states, NewTex)
<1>1. CASE q = 0
  BY <1>1 DEF StateInv
<1>2. CASE q = 1
  <2>1. Tidy(queue[0], queue[1], gpu_states, NewTex) <=> Tidy(queue[1], queue[0], gpu_states, NewTex)
    BY TidyOther
  <2> QED
    BY <1>2, <2>1 DEF StateInv
<1> QED
  BY <1>1, <1>2

\* The same after a step.
LEMMA StateThen ==
    ASSUME NEW q \in {0, 1}
    PROVE  StateInv' <=>
             /\ curr_states' = NewTex'
             /\ gpu_states' = [t \in Textures |-> gpu_states'[t]]
             /\ lists' \in [{0, 1} -> Seq(Seq(Commands))]
             /\ Served(lists'[q], queue'[q], gpu_states', NewTex')
             /\ Served(lists'[1 - q], queue'[1 - q], gpu_states', NewTex')
             /\ Tidy(queue'[q], queue'[1 - q], gpu_states', NewTex')
<1>1. CASE q = 0
  BY <1>1 DEF StateInv
<1>2. CASE q = 1
  <2>1. Tidy(queue'[0], queue'[1], gpu_states', NewTex') <=> Tidy(queue'[1], queue'[0], gpu_states', NewTex')
    BY TidyOther
  <2> QED
    BY <1>2, <2>1 DEF StateInv
<1> QED
  BY <1>1, <1>2

(***************************************************************************)
(* The GPU runs a command or an entry                                      *)
(***************************************************************************)

\* No step changes the command line.
LEMMA InputKept == [Next]_vars => input' = input
<1> SUFFICES ASSUME [Next]_vars PROVE input' = input
  OBVIOUS
<1>1. NoWriting => input' = input
  BY DEF NoWriting
<1>2. SaveTexture => input' = input
  BY DEF SaveTexture
<1>3. PollThreads \/ JoinThreads => input' = input
  BY DEF PollThreads, JoinThreads, main_vars
<1>4. (\E k \in DOMAIN writer : WriteFile(k)) => input' = input
  BY DEF WriteFile
<1> QED
  BY <1>1, <1>2, <1>3, <1>4, SavingKinds

\* What a new texture is depends on the command line alone.
LEMMA NewTexKept == input' = input => NewTex' = NewTex
BY SameInput, Zenon DEF NewTex, NewStates, IsNv12, Video

\* The queue is in the list at its head, of which the command is the first that is left.
LEMMA AtWork ==
    ASSUME StateInv, ProgramInv, NEW q \in {0, 1}, Executing(q)
    PROVE  /\ Starts(queue[q]) /\ Head(queue[q]) = queue[q][1]
           /\ lists[q] \in Seq(Seq(Commands)) /\ Len(lists[q]) > 0
           /\ Head(lists[q]) = lists[q][1] /\ lists[q][1] \in Seq(Commands)
           /\ ListFor(lists[q][1], queue[q][1].job, gpu_states, NewTex)
<1>1. queue[q] \in Seq(Known!Entry) /\ queue[q] # <<>>
  BY GpuTypes DEF Executing
<1>2. Head(queue[q]) = queue[q][1] /\ Len(queue[q]) > 0
  BY <1>1
<1>3. Starts(queue[q])
  BY <1>2 DEF Executing, HasCommands, Starts, IsReal
<1>4. lists[q] \in Seq(Seq(Commands)) /\ Served(lists[q], queue[q], gpu_states, NewTex)
  BY DEF StateInv
<1>5. Len(lists[q]) > 0 /\ ListFor(lists[q][1], queue[q][1].job, gpu_states, NewTex)
  BY <1>3, <1>4, HeadServed
<1> QED
  BY <1>2, <1>3, <1>4, <1>5

\* A queue is in the list at its head when its head is a list with a job.
LEMMA StartsExecuting ==
    ASSUME ProgramInv, NEW q \in {0, 1}
    PROVE  Executing(q) <=> Starts(queue[q])
<1>1. queue[q] \in Seq(Known!Entry)
  BY GpuTypes
<1> QED
  BY <1>1 DEF Executing, HasCommands, Starts, IsReal

\* The first of a sequence and the others.
LEMMA FirstOfMany ==
    ASSUME NEW S, NEW l \in Seq(S), l # <<>>
    PROVE  Head(l) = l[1] /\ l[1] \in S /\ Tail(l) \in Seq(S) /\ TailOf(Tail(l), l)
BY DEF TailOf

\* The GPU runs a command of a list.
LEMMA CommandKept ==
    ASSUME StateInv, ProgramInv, HalvesInv, NEW q \in {0, 1}, GpuRunsCommand(q)
    PROVE  StateInv'
<1> DEFINE c == Head(Head(lists[q]))
           job == queue[q][1].job
           L == lists[q]
<1>1. UNCHANGED <<queue, curr_states, input>>
  BY DEF GpuRunsCommand, vars, gpu_vars, main_vars
<1>2. Executing(q) /\ Head(L) # <<>>
      /\ gpu_states' = [gpu_states EXCEPT ![c.tex] = AfterCommand(c.command, @)]
      /\ lists' = [lists EXCEPT ![q][1] = Tail(@)]
  BY DEF GpuRunsCommand
<1>3. /\ Starts(queue[q]) /\ L \in Seq(Seq(Commands)) /\ Len(L) > 0
      /\ Head(L) = L[1] /\ L[1] \in Seq(Commands)
      /\ ListFor(L[1], job, gpu_states, NewTex)
  BY <1>2, AtWork
<1>4. c = L[1][1] /\ c \in Commands /\ Tail(L[1]) \in Seq(Commands) /\ TailOf(Tail(L[1]), L[1])
  BY <1>2, <1>3, FirstOfMany
<1>5. c.tex \in Touches(job)
  <2> DEFINE l == L[1]
  <2>1. l # <<>> /\ l \in Seq(Commands) /\ ListFor(l, job, gpu_states, NewTex) /\ c = l[1]
    BY <1>2, <1>3, <1>4
  <2> HIDE DEF l, c, job
  <2>2. 1 \in 1 .. Len(l)
    BY <2>1
  <2> QED
    BY <2>1, <2>2, ListTouches
<1>6. c.tex \in Textures
  BY <1>5 DEF Touches
<1> HIDE DEF c, job
<1>7. AfterFirst(gpu_states', gpu_states, c) /\ gpu_states' = [t \in Textures |-> gpu_states'[t]]
  BY <1>2, <1>6, StateAt DEF AfterFirst
<1>8. /\ lists' \in [{0, 1} -> Seq(Seq(Commands))]
      /\ lists'[q] = [L EXCEPT ![1] = Tail(L[1])] /\ lists'[1 - q] = lists[1 - q]
  <2>1. lists \in [{0, 1} -> Seq(Seq(Commands))]
    BY DEF StateInv
  <2>2. lists' = [lists EXCEPT ![q] = [L EXCEPT ![1] = Tail(L[1])]]
    BY <1>2
  <2> DEFINE M == [L EXCEPT ![1] = Tail(L[1])]
  <2>3. M \in Seq(Seq(Commands))
    BY <1>3, <1>4
  <2> HIDE DEF M
  <2>4. 1 - q \in {0, 1} /\ 1 - q # q /\ lists' = [lists EXCEPT ![q] = M]
    BY <2>2 DEF M
  <2>5. lists' \in [{0, 1} -> Seq(Seq(Commands))] /\ lists'[q] = M /\ lists'[1 - q] = lists[1 - q]
    BY <2>1, <2>3, <2>4
  <2> QED
    BY <2>5 DEF M
<1>9. LessFirst(lists'[q], L)
  <2> DEFINE rest == Tail(L[1])
             M == lists'[q]
  <2>1. M = [L EXCEPT ![1] = rest] /\ TailOf(rest, L[1]) /\ L \in Seq(Seq(Commands)) /\ Len(L) > 0
    BY <1>3, <1>4, <1>8
  <2> HIDE DEF rest, M, L
  <2>2. Len(L) \in Nat /\ Len(M) = Len(L) /\ M[1] = rest /\ \A k \in 1 .. Len(L) : k # 1 => M[k] = L[k]
    BY <2>1
  <2> QED
    BY <2>1, <2>2 DEF LessFirst, M
<1>10. Served(lists'[q], queue[q], gpu_states', NewTex)
  BY <1>3, <1>4, <1>7, <1>9, StateAt, ServedCommand
<1>11. Tidy(queue[q], queue[1 - q], gpu_states', NewTex) /\ AtStart(queue[1 - q], gpu_states, gpu_states')
  BY <1>3, <1>5, <1>7, HeadsAreApart, StateAt, TidyCommand DEF job
<1>12. Served(lists'[1 - q], queue[1 - q], gpu_states', NewTex)
  BY <1>8, <1>11, StateAt, ServedAgrees
<1>13. NewTex' = NewTex /\ curr_states' = NewTex
  BY <1>1, NewTexKept, StateAt
<1> QED
  BY <1>1, <1>7, <1>8, <1>10, <1>11, <1>12, <1>13, StateThen

\* The GPU is done with an entry, and with its list if it has one.
LEMMA EntryKept ==
    ASSUME StateInv, ProgramInv, CallInv, HalvesInv, NEW q \in {0, 1}, GpuRunsEntry(q)
    PROVE  StateInv'
<1> DEFINE s == queue[q]
           L == lists[q]
<1>1. /\ Executing(q) => Head(L) = <<>>
      /\ lists' = IF Executing(q) THEN [lists EXCEPT ![q] = Tail(@)] ELSE lists
      /\ UNCHANGED <<curr_states, gpu_states, input>> /\ Gpu!GpuStep(q)
  BY DEF GpuRunsEntry, GpuRuns, main_vars
<1>2. /\ s # <<>> /\ queue'[q] = Tail(s) /\ queue'[1 - q] = queue[1 - q] /\ HalvesInv'
  BY <1>1, GpuEffect, GpuHalves
<1>3. s \in Seq(Known!Entry)
  BY GpuTypes
<1>4. TailOf(queue'[q], s)
  BY <1>2, <1>3, FirstOfMany
<1>5. HeadsApart(queue'[q], queue'[1 - q])
  <2>1. queue'[q] \in Seq(Known!Entry) /\ queue'[1 - q] \in Seq(Known!Entry)
    BY <1>2, <1>3, GpuTypes, FirstOfMany
  <2> QED
    BY <1>2, <2>1, HalvesThen, HalvesApart
<1>6. Starts(s) => AgreeOn(gpu_states, NewTex, s[1].job)
  <2> SUFFICES ASSUME Starts(s) PROVE AgreeOn(gpu_states, NewTex, s[1].job)
    OBVIOUS
  <2>1. Executing(q)
    BY StartsExecuting
  <2>2. ListFor(<<>>, s[1].job, gpu_states, NewTex)
    BY <1>1, <2>1, AtWork
  <2> QED
    BY <2>2, ListRun
<1>7. /\ Served(L, s, gpu_states, NewTex) /\ Served(lists[1 - q], queue[1 - q], gpu_states, NewTex)
      /\ Tidy(s, queue[1 - q], gpu_states, NewTex) /\ lists \in [{0, 1} -> Seq(Seq(Commands))]
      /\ gpu_states = [t \in Textures |-> gpu_states[t]] /\ curr_states = NewTex
  BY StateAt
<1>8. AtStart(queue'[q], NewTex, gpu_states)
  BY <1>2, <1>5, <1>6, <1>7, TidyHead
<1>9. Tidy(queue'[q], queue'[1 - q], gpu_states, NewTex)
  BY <1>2, <1>6, <1>7, TidyNext
<1>10. /\ lists' \in [{0, 1} -> Seq(Seq(Commands))] /\ lists'[1 - q] = lists[1 - q]
       /\ Served(lists'[q], queue'[q], gpu_states, NewTex)
  <2>1. CASE Executing(q)
    <3>1. Starts(s) /\ L \in Seq(Seq(Commands)) /\ L # <<>>
      BY <2>1, AtWork
    <3>2. Tail(L) \in Seq(Seq(Commands)) /\ TailOf(Tail(L), L)
      BY <3>1, FirstOfMany
    <3>3. lists'[q] = Tail(L) /\ lists'[1 - q] = lists[1 - q] /\ lists' \in [{0, 1} -> Seq(Seq(Commands))]
      BY <1>1, <1>7, <2>1, <3>2
    <3>4. IsReal(s[1])
      BY <3>1 DEF Starts
    <3>5. Served(Tail(L), queue'[q], gpu_states, NewTex)
      BY <1>4, <1>7, <1>8, <3>2, <3>4, ServedDone
    <3> QED
      BY <3>3, <3>5
  <2>2. CASE ~Executing(q)
    <3>1. ~IsReal(s[1])
      BY <1>2, <1>3, <2>2, StartsExecuting DEF Starts
    <3>2. lists' = lists
      BY <1>1, <2>2
    <3> QED
      BY <1>4, <1>7, <1>8, <3>1, <3>2, ServedNext
  <2> QED
    BY <2>1, <2>2
<1>11. NewTex' = NewTex
  BY <1>1, NewTexKept
<1> QED
  BY <1>1, <1>2, <1>7, <1>9, <1>10, <1>11, StateThen

(***************************************************************************)
(* The CPU hands a list to a queue                                         *)
(***************************************************************************)

\* A queue goes on with an entry more.
LEMMA PutGoesOn ==
    ASSUME NEW s \in Seq(Known!Entry), NEW e \in Known!Entry
    PROVE  /\ Put(s, e) \in Seq(Known!Entry) /\ GoesOn(Put(s, e), s) /\ Len(Put(s, e)) = Len(s) + 1
           /\ Put(s, e)[Len(s) + 1] = e
           /\ ~IsReal(e) => NothingNew(Put(s, e), s)
<1>1. /\ Put(s, e) \in Seq(Known!Entry) /\ Len(Put(s, e)) = Len(s) + 1 /\ Len(s) \in Nat
      /\ Put(s, e)[Len(s) + 1] = e /\ \A m \in 1 .. Len(s) : Put(s, e)[m] = s[m]
  BY DEF Put
<1>2. \A m \in Len(s) + 1 .. Len(Put(s, e)) : m = Len(s) + 1
  BY <1>1
<1> QED
  BY <1>1, <1>2 DEF GoesOn, NothingNew

\* A submission adds its job to the queue and nothing else that is one.
LEMMA EnteredGoesOn ==
    ASSUME ProgramInv, NEW q \in {0, 1}, NEW v \in Nat, NEW job \in Jobs \cup {NoJob}
    PROVE  /\ GoesOn(Entered(q, v, job), queue[q])
           /\ NothingNew(Entered(q, v, job), queue[q]) \/ \E p : OneNew(Entered(q, v, job), queue[q], p)
<1> DEFINE s == queue[q]
           e == Gpu!Exec(frame_index, job)
           g == Gpu!Signal(Newest)
           a == IF v # FenceBound + 1 THEN Put(s, Gpu!Wait(v)) ELSE s
           b == Put(a, e)
           c == Put(b, g)
<1>1. /\ s \in Seq(Known!Entry) /\ Gpu!Wait(v) \in Known!Entry /\ e \in Known!Entry /\ g \in Known!Entry
      /\ ~IsReal(Gpu!Wait(v)) /\ ~IsReal(g)
  <2>1. s \in Seq(Known!Entry) /\ Newest \in Nat /\ frame_index \in Nat
    BY GpuTypes, SlotNumbers
  <2>2. Gpu!Wait(v) \in Known!Entry /\ ~IsReal(Gpu!Wait(v))
    BY EntriesMade
  <2>3. e \in Known!Entry
    BY <2>1, EntriesMade
  <2>4. g \in Known!Entry /\ ~IsReal(g)
    BY <2>1, EntriesMade
  <2> QED
    BY <2>1, <2>2, <2>3, <2>4
<1>2. Entered(q, v, job) = c
  BY DEF Entered
<1> HIDE DEF s, e, g
<1>3. Len(s) \in Nat
  BY <1>1
<1>4. a \in Seq(Known!Entry) /\ GoesOn(a, s) /\ NothingNew(a, s) /\ Len(a) \in Nat
  <2>1. CASE v # FenceBound + 1
    BY <1>1, <1>3, <2>1, PutGoesOn
  <2>2. CASE v = FenceBound + 1
    BY <1>1, <1>3, <2>2 DEF GoesOn, NothingNew
  <2> QED
    BY <2>1, <2>2
<1> HIDE DEF a
<1>5. /\ b \in Seq(Known!Entry) /\ GoesOn(b, a) /\ Len(b) = Len(a) + 1 /\ b[Len(a) + 1] = e
  BY <1>1, <1>4, PutGoesOn
<1> HIDE DEF b
<1>6. GoesOn(c, b) /\ NothingNew(c, b) /\ Len(c) = Len(b) + 1
  BY <1>1, <1>5, PutGoesOn
<1> HIDE DEF c
<1>7. GoesOn(c, s)
  BY <1>4, <1>5, <1>6 DEF GoesOn
<1>8. ASSUME NEW m \in Len(s) + 1 .. Len(c), IsReal(c[m])
      PROVE  m = Len(a) + 1 /\ IsReal(e)
  <2>1. m \notin Len(b) + 1 .. Len(c)
    BY <1>6, <1>8 DEF NothingNew
  <2>2. m \in 1 .. Len(b)
    BY <1>3, <1>4, <1>5, <1>6, <2>1
  <2>3. c[m] = b[m]
    BY <1>6, <2>2 DEF GoesOn
  <2>4. CASE m \in 1 .. Len(a)
    <3>1. b[m] = a[m] /\ m \in Len(s) + 1 .. Len(a)
      BY <1>3, <1>4, <1>5, <2>4 DEF GoesOn
    <3> QED
      BY <1>4, <1>8, <2>3, <3>1 DEF NothingNew
  <2>5. CASE m = Len(a) + 1
    BY <1>5, <1>8, <2>3, <2>5
  <2> QED
    BY <1>4, <1>5, <2>2, <2>4, <2>5
<1>9. CASE IsReal(e)
  <2>1. Len(a) + 1 \in 1 .. Len(b) /\ Len(a) + 1 \in Len(s) + 1 .. Len(c)
    BY <1>3, <1>4, <1>5, <1>6 DEF GoesOn
  <2>2. c[Len(a) + 1] = e
    BY <1>5, <1>6, <2>1 DEF GoesOn
  <2>3. OneNew(c, s, Len(a) + 1)
    BY <1>8, <1>9, <2>1, <2>2 DEF OneNew
  <2> QED
    BY <1>2, <1>7, <2>3 DEF s
<1>10. CASE ~IsReal(e)
  BY <1>2, <1>7, <1>8, <1>10 DEF NothingNew, s
<1> QED
  BY <1>9, <1>10

\* The queues after a step of main, with one job more at most.
OneMore ==
    /\ \A q \in {0, 1} : GoesOn(queue'[q], queue[q])
    /\ \/ \A q \in {0, 1} : NothingNew(queue'[q], queue[q])
       \/ \E q \in {0, 1} : \E p : OneNew(queue'[q], queue[q], p) /\ NothingNew(queue'[1 - q], queue[1 - q])

\* A queue that stays goes on where it ends.
LEMMA SameGoesOn ==
    ASSUME ProgramInv, NEW q \in {0, 1}
    PROVE  GoesOn(queue[q], queue[q]) /\ NothingNew(queue[q], queue[q])
<1>1. Len(queue[q]) \in Nat
  BY GpuTypes
<1> QED
  BY <1>1 DEF GoesOn, NothingNew

\* A signal is no list.
LEMMA SignalGoesOn ==
    ASSUME ProgramInv, NEW q \in {0, 1}
    PROVE  /\ GoesOn(Put(queue[q], Gpu!Signal(Gpu!CurrFenceVal)), queue[q])
           /\ NothingNew(Put(queue[q], Gpu!Signal(Gpu!CurrFenceVal)), queue[q])
<1>1. Gpu!Signal(Gpu!CurrFenceVal) \in Known!Entry /\ ~IsReal(Gpu!Signal(Gpu!CurrFenceVal))
  <2>1. Gpu!CurrFenceVal \in Nat
    BY GpuTypes DEF Gpu!CurrFenceVal
  <2> QED
    BY <2>1, EntriesMade
<1> QED
  BY <1>1, GpuTypes, PutGoesOn

\* Execute and ExecuteAndReset hand one job to one queue at most.
LEMMA SubmissionAdds ==
    ASSUME ProgramInv, CallInv, NEW q \in {0, 1}, NEW v \in Nat, NEW job \in Jobs \cup {NoJob},
           Gpu!Execute(q, v, job) \/ Gpu!ExecuteAndReset(q, v, job)
    PROVE  OneMore
<1>1. queue'[q] = Entered(q, v, job) /\ queue'[1 - q] = queue[1 - q]
  BY SubmitNewest, SubmitEffect
<1>2. 1 - q \in {0, 1} /\ \A p \in {0, 1} : p = q \/ p = 1 - q
  OBVIOUS
<1>3. GoesOn(queue'[1 - q], queue[1 - q]) /\ NothingNew(queue'[1 - q], queue[1 - q])
  BY <1>1, <1>2, SameGoesOn
<1> QED
  BY <1>1, <1>2, <1>3, EnteredGoesOn DEF OneMore

\* Signals for the queues are no jobs.
LEMMA SignalsAdd ==
    ASSUME ProgramInv,
           \A q \in {0, 1} : queue'[q] = queue[q] \/ queue'[q] = Put(queue[q], Gpu!Signal(Gpu!CurrFenceVal))
    PROVE  OneMore
BY SameGoesOn, SignalGoesOn DEF OneMore

\* What a step of main can be.
LEMMA MainKinds ==
    ASSUME ControlInv, ProgramInv, CallInv, Main
    PROVE  Aside \/ SubmitsList \/ SaveTexture \/ Move \/ ReadbackWait \/ FinalWait \/ GpuCall
BY AsideSteps, SubmissionSteps DEF Main

\* A step of main hands one job to one queue at most.
LEMMA MainAdds ==
    ASSUME ControlInv, ProgramInv, CallInv, Main
    PROVE  OneMore
<1>1. CASE Aside
  BY <1>1, SignalsAdd DEF Aside
<1>2. CASE SubmitsList
  BY <1>2, SubmissionAdds DEF SubmitsList
<1>3. CASE SaveTexture
  <2>1. Compute \in {0, 1} /\ NoWait \in Nat
    BY Queues, GpuTypes, SameAssumption DEF Known!GpuAssumption
  <2> QED
    BY <1>3, <2>1, SubmissionAdds DEF SaveTexture
<1>4. CASE Move
  <2>1. queue' = [q \in {0, 1} |-> Put(queue[q], Gpu!Signal(Gpu!CurrFenceVal))]
    BY <1>4 DEF Move, Gpu!MoveToNextFrame, Gpu!CmdQueues, Gpu!Compute, Gpu!VideoEncode, Put
  <2> QED
    BY <2>1, SignalsAdd
<1>5. CASE ReadbackWait \/ FinalWait
  <2>1. queue' = queue
    BY <1>5 DEF ReadbackWait, FinalWait, Gpu!WaitForGpu
  <2> QED
    BY <2>1, SignalsAdd
<1>6. CASE GpuCall
  <2>1. CASE Gpu!FlushSignal
    <3>1. queue' = [queue EXCEPT ![wait_queue] = Put(queue[wait_queue], Gpu!Signal(Gpu!CurrFenceVal))]
      BY <2>1 DEF Gpu!FlushSignal, Put
    <3>2. queue = [q \in {0, 1} |-> queue[q]]
      BY GpuTypes
    <3>3. \A q \in {0, 1} : queue'[q] = IF q = wait_queue
                THEN Put(queue[q], Gpu!Signal(Gpu!CurrFenceVal)) ELSE queue[q]
      BY <3>1, <3>2
    <3> QED
      BY <3>3, SignalsAdd
  <2>2. CASE ~Gpu!FlushSignal
    <3>1. queue' = queue
      BY <1>6, <2>2 DEF GpuCall, Gpu!CallStep, Gpu!PaceWait, Gpu!PaceDone, Gpu!StartSlot, Gpu!FlushWait,
           Gpu!FlushPassed, Gpu!FlushSkip, Gpu!FlushWoken, Gpu!WaitForGpuReturns
    <3> QED
      BY <3>1, SignalsAdd
  <2> QED
    BY <2>1, <2>2
<1> QED
  BY <1>1, <1>2, <1>3, <1>4, <1>5, <1>6, MainKinds

\* A job that is left has the planes that its input has.
LEMMA JobPlanes ==
    ASSUME JobInv, NEW job \in Undone, job.op \in {"read", "copy_in"}, job.plane = 1
    PROVE  Video
<1>1. PICK n \in Window : Of(job, n)
  BY DEF JobInv
<1>2. Rank(job) \in {2, 4} /\ Has(n, Rank(job))
  BY <1>1 DEF Of, Rank
<1> QED
  BY <1>2 DEF Has

\* A texture that comes with a frame is none that either queue is at work on.
LEMMA NewUntouched ==
    ASSUME BaseInv, [Next]_vars, NEW t \in NewTextures
    PROVE  t \in Textures /\ ~InHead(queue[0], t) /\ ~InHead(queue[1], t)
<1>1. Video /\ curr_frame' # curr_frame /\ t \in {TextureOf("decoded", Slot), TextureOf("frame", Slot)}
  BY DEF NewTextures
<1>2. ReadFrame /\ curr_frame < input.frames
  BY <1>1, FrameTaken
<1>3. \A job \in Undone : job.slot # SlotOf(curr_frame + 1)
  BY <1>2, ReadJobs DEF BaseInv
<1>4. Slot = SlotOf(curr_frame + 1) /\ Slot \in 0 .. FrameCount - 1
  <2>1. pc = "loop"
    BY <1>2 DEF ReadFrame
  <2> QED
    BY <2>1, GpuTypes DEF BaseInv, ControlInv, Branches, Body, Reading, Slot
<1>5. /\ t \in Textures /\ t # RandomTable /\ t[2] = Slot /\ t[1] \notin {"scaled", "raw_mv"}
  BY <1>1, <1>4, SlotTexture DEF SlotNames
<1>6. ASSUME NEW q \in {0, 1}, Starts(queue[q]), t \in Touches(queue[q][1].job)
      PROVE  FALSE
  <2> DEFINE job == queue[q][1].job
  <2>1. queue[q] \in Seq(Known!Entry)
    BY GpuTypes DEF BaseInv
  <2>2. 1 \in 1 .. Len(queue[q]) /\ IsReal(queue[q][1])
    BY <1>6, <2>1 DEF Starts
  <2>3. job \in Undone
    BY <2>2 DEF Undone, Left
  <2> HIDE DEF job
  <2>4. job.slot # Slot
    BY <1>3, <1>4, <2>3
  <2>5. job.op = "estimate"
    BY <1>5, <1>6, <2>4 DEF Touches, job
  <2>6. t[1] \in {"scaled", "raw_mv"}
    BY <1>6, <2>5 DEF Touches, TextureOf, job
  <2> QED
    BY <1>5, <2>6
<1> QED
  BY <1>5, <1>6 DEF InHead

\* A step that records no list; the textures of a new frame were as new before.
LEMMA NothingRecorded ==
    ASSUME BaseInv, StateInv, Main, RecordsNothing,
           \A q \in {0, 1} : NothingNew(queue'[q], queue[q])
    PROVE  StateInv'
<1>1. [Next]_vars
  BY DEF Next
<1>2. OneMore
  BY MainAdds DEF BaseInv
<1>3. lists' = lists
  BY DEF RecordsNothing
<1>4. /\ gpu_states = [t \in Textures |-> gpu_states[t]] /\ curr_states = NewTex
      /\ lists \in [{0, 1} -> Seq(Seq(Commands))]
      /\ \A q \in {0, 1} : Served(lists[q], queue[q], gpu_states, NewTex)
      /\ Tidy(queue[0], queue[1], gpu_states, NewTex)
  BY DEF StateInv
<1>5. \A t \in NewTextures : gpu_states[t] = NewTex[t] /\ NewTex[t] = NewStates(t)
  BY <1>1, <1>4, NewUntouched DEF Tidy, NewTex
<1>6. gpu_states' = gpu_states
  BY <1>4, <1>5 DEF RecordsNothing
<1>7. curr_states' = NewTex
  BY <1>4, <1>5 DEF RecordsNothing, NewTex
<1>8. NewTex' = NewTex
  BY <1>1, InputKept, NewTexKept
<1>9. ASSUME NEW q \in {0, 1} PROVE Served(lists[q], queue'[q], gpu_states, NewTex)
  BY <1>2, <1>4, ServedLonger DEF OneMore
<1>10. Tidy(queue'[0], queue'[1], gpu_states, NewTex)
  BY <1>2, <1>4, TidyLonger DEF OneMore
<1> QED
  BY <1>3, <1>4, <1>6, <1>7, <1>8, <1>9, <1>10 DEF StateInv

\* The types of the queues after a step.
LEMMA QueuesThen ==
    ASSUME ProgramInv'
    PROVE  queue'[0] \in Seq(Known!Entry) /\ queue'[1] \in Seq(Known!Entry)
<1>1. queue' \in [{0, 1} -> Seq(Known!Entry)]
  BY DEF ProgramInv, Known!TypeOK, Known!CmdQueues, Known!Compute, Known!VideoEncode
<1> QED
  BY <1>1

\* A step that records a list and hands it to a queue.
LEMMA ListAdded ==
    ASSUME BaseInv, BaseInv', StateInv, Main, NEW q \in {0, 1}, NEW job \in Submitted(q), Records(q, job)
    PROVE  StateInv'
<1> DEFINE s == queue[q]
           t == queue'[q]
           l == Recorded(job).commands
           L == lists[q]
<1>1. [Next]_vars
  BY DEF Next
<1>2. OneMore
  BY MainAdds DEF BaseInv
<1>3. PICK k \in Len(s) + 1 .. Len(t) : IsReal(t[k]) /\ job = t[k].job
  BY DEF Submitted, HasCommands, IsReal
<1>4. PICK p : OneNew(t, s, p) /\ NothingNew(queue'[1 - q], queue[1 - q])
  <2>1. ~NothingNew(t, s)
    BY <1>3 DEF NothingNew
  <2>2. PICK r \in {0, 1} : \E p : OneNew(queue'[r], queue[r], p) /\ NothingNew(queue'[1 - r], queue[1 - r])
    BY <1>2, <2>1 DEF OneMore
  <2>3. r = q
    <3>1. r # q => 1 - r = q
      OBVIOUS
    <3> QED
      BY <2>1, <2>2, <3>1
  <2> QED
    BY <2>2, <2>3
<1>5. job = t[p].job /\ IsReal(t[p])
  BY <1>3, <1>4 DEF OneNew
<1>6. GoesOn(t, s) /\ GoesOn(queue'[1 - q], queue[1 - q])
  BY <1>2 DEF OneMore
<1>7. p \in 1 .. Len(t)
  BY <1>4, <1>6 DEF OneNew, GoesOn
<1>8. job \in Undone'
  BY <1>5, <1>7, HalvesThen DEF Left
<1>9. t \in Seq(Known!Entry) /\ queue'[1 - q] \in Seq(Known!Entry)
  BY QueuesThen DEF BaseInv
<1>10. job \in Jobs
  BY <1>5, <1>7, <1>9, EntryFacts
<1>11. job.op \in {"read", "copy_in"} /\ job.plane = 1 => Video
  <2> SUFFICES ASSUME job.op \in {"read", "copy_in"}, job.plane = 1 PROVE Video
    OBVIOUS
  <2>1. PICK n \in Window' : Of(job, n)'
    BY <1>8 DEF BaseInv, JobInv
  <2>2. Rank(job) \in {2, 4} /\ Has(n, Rank(job))'
    BY <2>1 DEF Of, Rank
  <2>3. Video'
    BY <2>2 DEF Has
  <2> QED
    BY <1>1, <2>3, InputKept, SameInput
<1>12. /\ gpu_states = [x \in Textures |-> gpu_states[x]] /\ curr_states = NewTex
       /\ lists \in [{0, 1} -> Seq(Seq(Commands))]
       /\ Served(L, s, gpu_states, NewTex) /\ Served(lists[1 - q], queue[1 - q], gpu_states, NewTex)
       /\ Tidy(s, queue[1 - q], gpu_states, NewTex)
  BY StateAt
<1>13. l \in Seq(Commands) /\ Recorded(job).states = NewTex /\ ListFor(l, job, NewTex, NewTex)
  BY <1>10, <1>11, <1>12, JobRecorded
<1> HIDE DEF l
<1>14. /\ lists' \in [{0, 1} -> Seq(Seq(Commands))]
       /\ lists'[q] = Append(L, l) /\ lists'[1 - q] = lists[1 - q] /\ L \in Seq(Seq(Commands))
  <2>1. lists' = [lists EXCEPT ![q] = Append(L, l)]
    BY DEF Records, l
  <2>2. L \in Seq(Seq(Commands)) /\ Append(L, l) \in Seq(Seq(Commands))
    BY <1>12, <1>13
  <2> QED
    BY <1>12, <2>1, <2>2
<1>15. Adds(lists'[q], L, l)
  BY <1>13, <1>14 DEF Adds
<1>16. /\ curr_states' = NewTex /\ gpu_states' = gpu_states
  BY <1>13 DEF Records
<1>17. HeadsApart(t, queue'[1 - q])
  BY <1>9, HalvesThen, HalvesApart DEF BaseInv
<1>18. p = 1 => AgreeOn(NewTex, gpu_states, t[p].job)
  <2> SUFFICES ASSUME p = 1 PROVE AgreeOn(NewTex, gpu_states, t[p].job)
    OBVIOUS
  <2>1. ~Starts(s)
    BY <1>4, <1>6 DEF OneNew, GoesOn, Starts
  <2>2. Starts(t)
    BY <1>4, <1>6, <1>7 DEF OneNew, GoesOn, Starts
  <2>3. GoesOn(s, s)
    BY <1>6 DEF GoesOn
  <2>4. Tidy(s, queue'[1 - q], gpu_states, NewTex)
    BY <1>6, <1>12, <2>3, TidyLonger
  <2>5. AtStart(t, NewTex, gpu_states)
    BY <1>17, <2>1, <2>4, TidyHead
  <2> QED
    BY <2>2, <2>5 DEF AtStart
<1>19. Served(lists'[q], t, gpu_states, NewTex)
  BY <1>4, <1>5, <1>6, <1>12, <1>13, <1>15, <1>18, ServedMore
<1>20. Served(lists'[1 - q], queue'[1 - q], gpu_states, NewTex)
  BY <1>4, <1>6, <1>12, <1>14, ServedLonger
<1>21. Tidy(t, queue'[1 - q], gpu_states, NewTex)
  BY <1>6, <1>12, TidyLonger
<1>22. NewTex' = NewTex
  BY <1>1, InputKept, NewTexKept
<1> QED
  BY <1>12, <1>14, <1>16, <1>19, <1>20, <1>21, <1>22, StateThen

(***************************************************************************)
(* Every command finds the states it needs                                 *)
(***************************************************************************)

\* The states of the textures keep in order with every step.
LEMMA StateStep ==
    ASSUME BaseInv, BaseInv', StateInv, [ProgramNext]_resource_vars
    PROVE  StateInv'
<1>1. Gpu!CmdQueues = {0, 1}
  BY DEF Gpu!CmdQueues, Gpu!Compute, Gpu!VideoEncode
<1>2. CASE CpuStep
  <2>1. Main
    BY <1>2 DEF CpuStep
  <2>2. CASE \E q \in {0, 1} : \E job \in Submitted(q) : Records(q, job)
    BY <2>1, <2>2, ListAdded
  <2>3. CASE (\A q \in {0, 1} : Submitted(q) = {}) /\ RecordsNothing
    <3>1. \A q \in {0, 1} : NothingNew(queue'[q], queue[q])
      BY <2>3 DEF Submitted, NothingNew, HasCommands, IsReal
    <3> QED
      BY <2>1, <2>3, <3>1, NothingRecorded
  <2> QED
    BY <1>1, <1>2, <2>2, <2>3 DEF CpuStep
<1>3. CASE SavingStep
  <2>1. UNCHANGED <<curr_states, gpu_states, lists, queue, input>>
    BY <1>3 DEF SavingStep, WriteFile, state_vars, gpu_vars
  <2>2. NewTex' = NewTex
    BY <2>1, NewTexKept
  <2> QED
    BY <2>1, <2>2 DEF StateInv
<1>4. CASE \E q \in {0, 1} : GpuRunsCommand(q) \/ GpuRunsEntry(q)
  BY <1>4, CommandKept, EntryKept DEF BaseInv
<1>5. CASE UNCHANGED <<vars, state_vars>>
  <2>1. UNCHANGED <<curr_states, gpu_states, lists, queue, input>>
    BY <1>5 DEF vars, state_vars, gpu_vars, main_vars
  <2>2. NewTex' = NewTex
    BY <2>1, NewTexKept
  <2> QED
    BY <2>1, <2>2 DEF StateInv
<1> QED
  BY <1>1, <1>2, <1>3, <1>4, <1>5, ResourceSteps DEF ResourceNext

\* They begin in order.
LEMMA StateInit == ProgramInit => StateInv
<1> SUFFICES ASSUME ProgramInit PROVE StateInv
  OBVIOUS
<1>1. queue = [q \in {0, 1} |-> <<>>]
  BY Zenon DEF ProgramInit, ResourceInit, Init, Gpu!Init, Gpu!CmdQueues, Gpu!Compute, Gpu!VideoEncode
<1>2. lists = [q \in {0, 1} |-> <<>>]
  BY Zenon DEF ProgramInit, ResourceInit, Gpu!CmdQueues, Gpu!Compute, Gpu!VideoEncode
<1>3. curr_states = NewTex /\ gpu_states = NewTex
  BY DEF ProgramInit, ResourceInit, NewTex
<1>4. Fits(<<>>, <<>>, <<>>, gpu_states, NewTex)
  <2>1. Len(<<>>) = 0
    OBVIOUS
  <2> QED
    BY <2>1 DEF Fits
<1>5. \A q \in {0, 1} : Served(lists[q], queue[q], gpu_states, NewTex)
  BY <1>1, <1>2, <1>4 DEF Served
<1>6. Tidy(queue[0], queue[1], gpu_states, NewTex)
  BY <1>3 DEF Tidy
<1>7. lists \in [{0, 1} -> Seq(Seq(Commands))]
  BY <1>2
<1>8. gpu_states = [t \in Textures |-> gpu_states[t]]
  BY <1>3 DEF NewTex
<1> QED
  BY <1>3, <1>5, <1>6, <1>7, <1>8 DEF StateInv

\* The command that a queue has reached is the first one of a list that can be run.
LEMMA CommandsFound == ASSUME BaseInv, StateInv PROVE CommandsFindTheirStates
<1>1. ASSUME NEW q \in {0, 1}, NEW kind, Reached(q, kind)
      PROVE  LET c == AtHead(q)
             IN  /\ c.command.kind = kind
                 /\ kind = "barrier" => \A s \in c.command.covered : gpu_states[c.tex][s] = c.command.before[s]
                 /\ kind = "use" => gpu_states[c.tex][c.command.sub_resource] = c.command.state
  <2> DEFINE c == AtHead(q)
             l == lists[q][1]
             other == [gpu_states EXCEPT ![c.tex] = AfterCommand(c.command, @)]
  <2>1. Executing(q) /\ Head(lists[q]) # <<>> /\ c.command.kind = kind
    BY <1>1 DEF Reached
  <2>2. /\ Head(lists[q]) = l /\ l \in Seq(Commands)
        /\ ListFor(l, queue[q][1].job, gpu_states, NewTex)
    BY <2>1, AtWork DEF BaseInv
  <2>3. c = l[1] /\ TailOf(Tail(l), l) /\ 1 \in 1 .. Len(l)
    BY <2>1, <2>2, FirstOfMany DEF AtHead
  <2>4. c.tex \in Textures
    BY <2>2, <2>3, ListTouches DEF Touches
  <2>5. AfterFirst(other, gpu_states, l[1])
    <3>1. gpu_states = [t \in Textures |-> gpu_states[t]]
      BY DEF StateInv
    <3> QED
      BY <2>3, <2>4, <3>1 DEF AfterFirst
  <2> HIDE DEF other, c, l
  <2>6. Performs(l[1].command, gpu_states[l[1].tex], other[l[1].tex])
    BY <2>2, <2>3, <2>5, ListFirst
  <2> QED
    BY <2>1, <2>3, <2>6 DEF Performs, c
<1>2. Gpu!CmdQueues = {0, 1}
  BY DEF Gpu!CmdQueues, Gpu!Compute, Gpu!VideoEncode
<1> QED
  BY <1>1, <1>2 DEF CommandsFindTheirStates, BarriersFindTheirStates, UsesFindTheirStates

\* Two lists that are being run are those of two heads.
LEMMA QueuesApartFound == ASSUME BaseInv, StateInv PROVE QueuesKeepApart
<1>1. Compute = 0 /\ VideoEncode = 1
  BY DEF Compute, VideoEncode, Gpu!Compute, Gpu!VideoEncode
<1>2. ASSUME NEW q \in {0, 1}, Executing(q), NEW n \in DOMAIN Head(lists[q])
      PROVE  Starts(queue[q]) /\ Head(lists[q])[n].tex \in Touches(queue[q][1].job)
  <2>1. /\ Starts(queue[q]) /\ Head(lists[q]) = lists[q][1] /\ lists[q][1] \in Seq(Commands)
        /\ ListFor(lists[q][1], queue[q][1].job, gpu_states, NewTex)
    BY <1>2, AtWork DEF BaseInv
  <2>2. n \in 1 .. Len(lists[q][1])
    <3> DEFINE l == lists[q][1]
    <3>1. l \in Seq(Commands) /\ n \in DOMAIN l
      BY <1>2, <2>1
    <3> HIDE DEF l
    <3>2. n \in 1 .. Len(l)
      BY <3>1
    <3> QED
      BY <3>2 DEF l
  <2> QED
    BY <2>1, <2>2, ListTouches
<1>3. QueuesShareNoTexture
  <2> SUFFICES ASSUME Executing(0), Executing(1), NEW n \in DOMAIN Head(lists[0]), NEW m \in DOMAIN Head(lists[1])
               PROVE  Head(lists[0])[n].tex # Head(lists[1])[m].tex
    BY <1>1 DEF QueuesShareNoTexture
  <2>1. HeadsApart(queue[0], queue[1])
    BY HeadsAreApart, 1 - 0 = 1 DEF BaseInv
  <2>2. /\ Starts(queue[0]) /\ Head(lists[0])[n].tex \in Touches(queue[0][1].job)
        /\ Starts(queue[1]) /\ Head(lists[1])[m].tex \in Touches(queue[1][1].job)
    BY <1>2
  <2> QED
    BY <2>1, <2>2 DEF HeadsApart, Apart, Touches
<1>4. VideoListStates
  <2> SUFFICES ASSUME NEW n \in DOMAIN lists[1], NEW k \in DOMAIN lists[1][n]
               PROVE  NamesVideoStates(lists[1][n][k].command)
    BY <1>1 DEF VideoListStates, NamesVideoStates, VideoStates
  <2>1. lists[1] \in Seq(Seq(Commands)) /\ Served(lists[1], queue[1], gpu_states, NewTex)
    BY DEF StateInv
  <2>2. n \in 1 .. Len(lists[1]) /\ k \in 1 .. Len(lists[1][n])
    BY <2>1
  <2>3. PICK f : Fits(f, lists[1], queue[1], gpu_states, NewTex)
    BY <2>1 DEF Served
  <2>4. /\ f[n] \in 1 .. Len(queue[1]) /\ IsReal(queue[1][f[n]])
        /\ ListFor(lists[1][n], queue[1][f[n]].job, IF f[n] = 1 THEN gpu_states ELSE NewTex, NewTex)
    BY <2>2, <2>3 DEF Fits
  <2>5. queue[1][f[n]].job.op = "estimate"
    BY <2>4 DEF BaseInv, HalvesInv, Half, Homes
  <2> QED
    BY <2>2, <2>4, <2>5, ListTouches
<1> QED
  BY <1>3, <1>4 DEF QueuesKeepApart

\* The program with its resources is always in such a state.
LEMMA Everywhere == Faultless => (ProgramSpec => [](BaseInv /\ StateInv))
<1> SUFFICES ASSUME Faultless PROVE ProgramSpec => [](BaseInv /\ StateInv)
  OBVIOUS
<1>1. FullInv /\ FullInv' /\ StateInv /\ [ProgramNext]_resource_vars => StateInv'
  BY StateStep DEF FullInv
<1>2. FullInv => BaseInv
  BY DEF FullInv
<1>3. ProgramSpec => []FullInv
  BY ResourcesFollowProgram, Invariant
<1> QED
  BY <1>1, <1>2, <1>3, StateInit, PTL DEF ProgramSpec

\* When the GPU reaches a command, its texture is in the states that GpuTexture2D::Transition
\* had tracked when the command was recorded, for inputs that the readers decode and calls that
\* do not fail.
THEOREM CommandsFindStates == Faultless => (ProgramSpec => []CommandsFindTheirStates)
<1> SUFFICES ASSUME Faultless PROVE ProgramSpec => []CommandsFindTheirStates
  OBVIOUS
<1> QED
  BY Everywhere, CommandsFound, PTL

\* The compute queue and the video queue never work on one texture at a time, and a list of the
\* video queue (EstimateMotionVectors) names only states that this queue knows, for inputs that the
\* readers decode and calls that do not fail.
THEOREM QueuesApartAlways == Faultless => (ProgramSpec => []QueuesKeepApart)
<1> SUFFICES ASSUME Faultless PROVE ProgramSpec => []QueuesKeepApart
  OBVIOUS
<1> QED
  BY Everywhere, QueuesApartFound, PTL

=============================================================================
