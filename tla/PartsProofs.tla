---------------------------- MODULE PartsProofs -----------------------------
(***************************************************************************)
(* Theorems about parts that share no state with the rest of the program:  *)
(* one texture, whose handle tracks the states that its barriers find, and *)
(* what Upload and Readback keep, for pictures, blocks and alignments of   *)
(* every size; how the motion blur generator starts, the sizes made for    *)
(* the first frame, for every motion estimator and every frame; and what a *)
(* group of threads leaves in motion_vector_tex and in                     *)
(* motion_vector_neighbor_max_tex, for groups, margins and textures of     *)
(* every size.                                                             *)
(***************************************************************************)
EXTENDS GpuTexture2D, TextureCopy, DeviceSelection, MotionVectorSizes, NeighborMax, TLAPS

(***************************************************************************)
(* States (GpuTexture2D)                                                   *)
(***************************************************************************)

Commands == BarrierCommands \cup UseCommands

\* A command leaves the states as it says if it finds them as it says, and a use finds its
\* subresource as it needs it.
Sound(c) ==
    /\ AfterCommand(c, c.before) = c.after
    /\ c.kind = "use" => c.before[c.sub_resource] = c.state

\* From the states first on, each of the commands finds what the one before it leaves,
\* and the last leaves the states last.
Chain(first, cmds, last) ==
    /\ cmds = <<>> => first = last
    /\ cmds # <<>> => first = cmds[1].before /\ cmds[Len(cmds)].after = last
    /\ \A n \in 1 .. Len(cmds) - 1 : cmds[n].after = cmds[n + 1].before
    /\ \A n \in 1 .. Len(cmds) : Sound(cmds[n])

Tracked ==
    /\ TypeOK
    /\ curr_states = Empty <=> gpu_states = Empty
    /\ curr_states = Empty => commands = <<>>
    /\ Chain(gpu_states, commands, curr_states)

\* The states of a command are states of the texture.
LEMMA CommandFields ==
  ASSUME NEW c \in Commands
  PROVE  /\ c.covered \subseteq SubResources
         /\ c.before \in TextureStates
         /\ c.after \in TextureStates
  BY DEF Commands, BarrierCommands, UseCommands

\* A texture that exists has states.
LEMMA NotEmpty == ASSUME NEW states \in TextureStates PROVE states # Empty
<1>1. 0 \in DOMAIN states
  BY TextureAssumption DEF TextureStates, SubResources
<1> QED
  BY <1>1 DEF Empty

\* The barrier of a whole texture is sound, if the shortcut is safe.
LEMMA TransitionSound ==
  ASSUME NEW curr \in TextureStates, NEW target \in States,
         OnlyOrders(curr, target) => SameState(curr)
  PROVE  /\ Transition(curr, target) \in Commands
         /\ Transition(curr, target).before = curr
         /\ Transition(curr, target).after = [s \in SubResources |-> target]
         /\ Sound(Transition(curr, target))
<1> DEFINE c == Transition(curr, target)
<1>1. DOMAIN curr = SubResources /\ 0 \in SubResources
  BY TextureAssumption DEF TextureStates, SubResources
<1>2. /\ All(curr, target) = [s \in SubResources |-> target]
      /\ All(curr, target) \in TextureStates
  BY <1>1 DEF All, TextureStates
<1>3. SameState(curr) => All(curr, curr[0]) = curr
  BY <1>1 DEF All, SameState, TextureStates
<1>4. CASE OnlyOrders(curr, target)
  <2>1. c = Barrier({}, curr, All(curr, target))
    BY <1>4 DEF Transition
  <2>2. All(curr, target) = curr
    BY <1>3, <1>4 DEF OnlyOrders
  <2> QED
    BY <1>1, <1>2, <2>1, <2>2
    DEF Barrier, Sound, AfterCommand, Commands, BarrierCommands, TextureStates
<1>5. CASE ~OnlyOrders(curr, target) /\ SameState(curr)
  <2>1. c = Barrier(IF curr[0] # target THEN SubResources ELSE {}, curr, All(curr, target))
    BY <1>1, <1>3, <1>5 DEF Transition
  <2>2. curr[0] = target => All(curr, target) = curr
    BY <1>3, <1>5
  <2> QED
    BY <1>1, <1>2, <2>1, <2>2
    DEF Barrier, Sound, AfterCommand, Commands, BarrierCommands, TextureStates
<1>6. CASE ~OnlyOrders(curr, target) /\ ~SameState(curr)
  <2>1. c = Barrier({s \in SubResources : curr[s] # target}, curr, All(curr, target))
    BY <1>1, <1>6 DEF Transition
  <2>2. /\ c.kind = "barrier" /\ c.before = curr /\ c.after = All(curr, target)
        /\ c.covered = {s \in SubResources : curr[s] # target}
    BY <2>1 DEF Barrier
  <2>3. AfterCommand(c, curr) = All(curr, target)
    BY <1>1, <1>2, <2>2 DEF AfterCommand, TextureStates
  <2>4. c \in BarrierCommands
    BY <1>2, <2>1 DEF Barrier, BarrierCommands
  <2> QED
    BY <1>2, <2>2, <2>3, <2>4 DEF Sound, Commands
<1> QED
  BY <1>4, <1>5, <1>6

\* So is the barrier of one subresource.
LEMMA TransitionSubSound ==
  ASSUME NEW curr \in TextureStates, NEW s \in SubResources, NEW target \in States
  PROVE  /\ TransitionSub(curr, s, target) \in Commands
         /\ TransitionSub(curr, s, target).before = curr
         /\ Sound(TransitionSub(curr, s, target))
<1> DEFINE c == TransitionSub(curr, s, target)
<1>1. /\ c.kind = "barrier" /\ c.before = curr /\ c.after = [curr EXCEPT ![s] = target]
      /\ c.covered = IF curr[s] # target THEN {s} ELSE {}
  BY DEF TransitionSub, Barrier
<1>2. AfterCommand(c, curr) = [curr EXCEPT ![s] = target]
  BY <1>1 DEF AfterCommand, TextureStates
<1>3. c \in BarrierCommands
  BY DEF TransitionSub, Barrier, BarrierCommands, TextureStates
<1> QED
  BY <1>1, <1>2, <1>3 DEF Sound, Commands

\* A sound command may follow a chain that leaves what it finds.
LEMMA ChainAppend ==
  ASSUME NEW first, NEW cmds \in Seq(Commands), NEW c \in Commands,
         Chain(first, cmds, c.before), Sound(c)
  PROVE  /\ Append(cmds, c) \in Seq(Commands)
         /\ Chain(first, Append(cmds, c), c.after)
<1> DEFINE new == Append(cmds, c)
<1>1. /\ new \in Seq(Commands)
      /\ Len(cmds) \in Nat
      /\ Len(new) = Len(cmds) + 1
      /\ \A n \in 1 .. Len(cmds) : new[n] = cmds[n]
      /\ new[Len(cmds) + 1] = c
      /\ new # <<>>
  OBVIOUS
<1>2. cmds = <<>> <=> Len(cmds) = 0
  OBVIOUS
<1> HIDE DEF new
<1>3. first = new[1].before
  BY <1>1, <1>2 DEF Chain
<1>4. ASSUME NEW n \in 1 .. Len(new) - 1 PROVE new[n].after = new[n + 1].before
  <2>1. n \in 1 .. Len(cmds)
    BY <1>1
  <2>2. CASE n = Len(cmds)
    BY <1>1, <1>2, <2>1, <2>2 DEF Chain
  <2>3. CASE n # Len(cmds)
    BY <1>1, <2>1, <2>3 DEF Chain
  <2> QED
    BY <2>2, <2>3
<1>5. ASSUME NEW n \in 1 .. Len(new) PROVE Sound(new[n])
  BY <1>1 DEF Chain
<1> QED
  BY <1>1, <1>3, <1>4, <1>5 DEF Chain, new

\* What the first command of a chain leaves, the rest of the chain finds.
LEMMA ChainTail ==
  ASSUME NEW first, NEW cmds \in Seq(Commands), NEW last,
         Chain(first, cmds, last), cmds # <<>>
  PROVE  /\ Tail(cmds) \in Seq(Commands)
         /\ Chain(AfterCommand(Head(cmds), first), Tail(cmds), last)
<1> DEFINE rest == Tail(cmds)
<1>1. /\ rest \in Seq(Commands)
      /\ Len(cmds) \in Nat \ {0}
      /\ Len(rest) = Len(cmds) - 1
      /\ \A n \in 1 .. Len(rest) : rest[n] = cmds[n + 1]
      /\ Head(cmds) = cmds[1]
  OBVIOUS
<1> HIDE DEF rest
<1>2. rest = <<>> <=> Len(rest) = 0
  BY <1>1
<1>3. AfterCommand(Head(cmds), first) = cmds[1].after
  BY <1>1 DEF Chain, Sound
<1>4. cmds[Len(cmds)].after = last
  BY DEF Chain
<1>5. rest = <<>> => Len(cmds) = 1
  BY <1>1, <1>2
<1>6. rest = <<>> => cmds[1].after = last
  BY <1>4, <1>5
<1>7. rest # <<>> => cmds[1].after = rest[1].before /\ rest[Len(rest)].after = last
  BY <1>1, <1>2, <1>4 DEF Chain
<1>8. \A n \in 1 .. Len(rest) - 1 : rest[n].after = rest[n + 1].before
  BY <1>1 DEF Chain
<1>9. \A n \in 1 .. Len(rest) : Sound(rest[n])
  BY <1>1 DEF Chain
<1> QED
  BY <1>1, <1>3, <1>6, <1>7, <1>8, <1>9 DEF Chain, rest

\* The transitions around a copy and the copy are a chain.
LEMMA CopyKeeps ==
  ASSUME Tracked, NEW s \in SubResources, NEW state \in States, Copy(s, state)
  PROVE  Tracked'
<1> DEFINE there == Transition(curr_states, state)
           copy == Use(s, state, there.after)
           back == Transition(there.after, curr_states[0])
           cmds1 == Append(commands, there)
           cmds2 == Append(cmds1, copy)
<1>1. /\ curr_states \in TextureStates /\ commands \in Seq(Commands)
      /\ gpu_states \in TextureStates
      /\ Chain(gpu_states, commands, curr_states)
      /\ 0 \in SubResources
  BY TextureAssumption DEF Tracked, TypeOK, Copy, Commands, SubResources
<1>2. /\ commands' = Append(cmds2, back)
      /\ curr_states' = back.after
      /\ gpu_states' = gpu_states
      /\ OnlyOrders(curr_states, state) => SameState(curr_states)
  BY DEF Copy, ShortcutSafe, OnlyOrders, SameState, Tracked, TypeOK, TextureStates
<1>3. curr_states[0] \in States
  BY <1>1 DEF TextureStates
<1>4. /\ there \in Commands /\ there.before = curr_states /\ Sound(there)
      /\ there.after = [t \in SubResources |-> state]
  BY <1>1, <1>2, TransitionSound
<1>5. there.after \in TextureStates /\ SameState(there.after)
  BY <1>1, <1>4 DEF TextureStates, SameState
<1>6. /\ back \in Commands /\ back.before = there.after /\ Sound(back)
      /\ back.after = [t \in SubResources |-> curr_states[0]]
  BY <1>3, <1>5, TransitionSound
<1> HIDE DEF there
<1>7. /\ copy \in Commands /\ copy.before = there.after /\ copy.after = there.after
  BY <1>5 DEF Use, Commands, UseCommands
<1>8. Sound(copy)
  <2>1. copy.covered = {} /\ copy.sub_resource = s /\ copy.state = state
    BY DEF Use
  <2>2. AfterCommand(copy, copy.before) = copy.before
    BY <1>5, <1>7, <2>1 DEF AfterCommand, TextureStates
  <2> QED
    BY <1>4, <1>7, <2>1, <2>2 DEF Sound
<1> HIDE DEF copy, back
<1>9. cmds1 \in Seq(Commands) /\ Chain(gpu_states, cmds1, there.after)
  BY <1>1, <1>4, ChainAppend
<1> HIDE DEF cmds1
<1>10. cmds2 \in Seq(Commands) /\ Chain(gpu_states, cmds2, copy.after)
  BY <1>7, <1>8, <1>9, ChainAppend
<1> HIDE DEF cmds2
<1>11. commands' \in Seq(Commands) /\ Chain(gpu_states, commands', back.after)
  BY <1>2, <1>6, <1>7, <1>10, ChainAppend
<1>12. curr_states' \in TextureStates
  BY <1>2, <1>3, <1>6 DEF TextureStates
<1>13. curr_states' # Empty /\ gpu_states # Empty
  BY <1>1, <1>12, NotEmpty
<1> QED
  BY <1>1, <1>2, <1>11, <1>12, <1>13 DEF Tracked, TypeOK, Commands

\* A single barrier.
LEMMA BarrierKeeps ==
  ASSUME Tracked, curr_states # Empty, NEW c \in Commands, Sound(c), c.before = curr_states,
         commands' = Append(commands, c), curr_states' = c.after, UNCHANGED gpu_states
  PROVE  Tracked'
<1>1. /\ commands \in Seq(Commands) /\ Chain(gpu_states, commands, c.before)
      /\ gpu_states \in TextureStates
  BY DEF Tracked, TypeOK, Commands
<1>2. commands' \in Seq(Commands) /\ Chain(gpu_states, commands', c.after)
  BY <1>1, ChainAppend
<1>3. c.after \in TextureStates
  BY CommandFields
<1>4. c.after # Empty /\ gpu_states # Empty
  BY <1>1, <1>3, NotEmpty
<1> QED
  BY <1>1, <1>2, <1>3, <1>4 DEF Tracked, TypeOK, Commands

\* A new texture is in the states its handle starts with, and nothing is recorded.
LEMMA TrackedInit == Init => Tracked
<1> SUFFICES ASSUME Init PROVE Tracked
  OBVIOUS
<1>1. commands = <<>> /\ curr_states = gpu_states /\ curr_states = Empty
  BY DEF Init
<1>2. Chain(gpu_states, commands, curr_states)
  BY <1>1 DEF Chain
<1> QED
  BY <1>1, <1>2 DEF Tracked, TypeOK

\* Recording extends the chain of commands at its end, running one takes its head off.
LEMMA TrackedStep == Tracked /\ [Next]_vars => Tracked'
<1> SUFFICES ASSUME Tracked, [Next]_vars PROVE Tracked'
  OBVIOUS
<1>1. ASSUME NEW state \in States, Create(state) PROVE Tracked'
  <2>1. /\ curr_states' = [s \in SubResources |-> state]
        /\ gpu_states' = curr_states' /\ commands' = <<>>
    BY <1>1 DEF Create, Tracked
  <2>2. curr_states' \in TextureStates
    BY <2>1 DEF TextureStates
  <2>3. Chain(gpu_states, commands, curr_states)'
    BY <2>1 DEF Chain
  <2> QED
    BY <2>1, <2>2, <2>3 DEF Tracked, TypeOK
<1>2. ASSUME NEW state \in States, TransitionAll(state) PROVE Tracked'
  <2>1. curr_states # Empty /\ curr_states \in TextureStates
    BY <1>2 DEF TransitionAll, Tracked, TypeOK
  <2>2. OnlyOrders(curr_states, state) => SameState(curr_states)
    BY <1>2, <2>1 DEF TransitionAll, ShortcutSafe, OnlyOrders, SameState, TextureStates
  <2> QED
    BY <1>2, <2>1, <2>2, TransitionSound, BarrierKeeps DEF TransitionAll
<1>3. CASE Reset
  <2>1. curr_states' = Empty /\ gpu_states' = Empty /\ commands' = <<>>
    BY <1>3 DEF Reset
  <2>2. Chain(gpu_states, commands, curr_states)'
    BY <2>1 DEF Chain
  <2> QED
    BY <2>1, <2>2 DEF Tracked, TypeOK
<1>4. ASSUME NEW s \in SubResources, NEW state \in States, TransitionOne(s, state) PROVE Tracked'
  <2>1. curr_states # Empty /\ curr_states \in TextureStates
    BY <1>4 DEF TransitionOne, Tracked, TypeOK
  <2> QED
    BY <1>4, <2>1, TransitionSubSound, BarrierKeeps DEF TransitionOne
<1>5. ASSUME NEW s \in SubResources,
             Upload(s) \/ Readback(s) \/ CopyFrom(s) \/ CopyFromOther(s)
      PROVE  Tracked'
  BY <1>5, CopyKeeps, TextureAssumption DEF Upload, Readback, CopyFrom, CopyFromOther
<1>6. CASE GpuRuns
  <2>1. /\ commands \in Seq(Commands) /\ commands # <<>>
        /\ Chain(gpu_states, commands, curr_states)
        /\ curr_states \in TextureStates /\ gpu_states \in TextureStates
    BY <1>6 DEF GpuRuns, Tracked, TypeOK, Commands
  <2>2. /\ gpu_states' = AfterCommand(Head(commands), gpu_states)
        /\ commands' = Tail(commands) /\ curr_states' = curr_states
    BY <1>6 DEF GpuRuns
  <2>3. commands' \in Seq(Commands) /\ Chain(gpu_states', commands', curr_states')
    BY <2>1, <2>2, ChainTail
  <2>4. Head(commands) \in Commands
    BY <2>1
  <2>5. gpu_states' \in TextureStates
    BY <2>1, <2>2, <2>4, CommandFields DEF AfterCommand, TextureStates
  <2>6. gpu_states' # Empty /\ curr_states' # Empty
    BY <2>1, <2>2, <2>5, NotEmpty
  <2> QED
    BY <2>1, <2>2, <2>3, <2>5, <2>6 DEF Tracked, TypeOK, Commands
<1>7. CASE UNCHANGED vars
  <2>1. curr_states' = curr_states /\ gpu_states' = gpu_states /\ commands' = commands
    BY <1>7 DEF vars
  <2>2. TypeOK' <=> TypeOK
    BY <2>1 DEF TypeOK
  <2>3. Chain(gpu_states, commands, curr_states)' <=> Chain(gpu_states, commands, curr_states)
    BY <2>1, Zenon DEF Chain
  <2> QED
    BY <2>1, <2>2, <2>3 DEF Tracked
<1> QED
  BY <1>1, <1>2, <1>3, <1>4, <1>5, <1>6, <1>7 DEF Next

\* Every command and both views of a texture give a state to each subresource, and only
\* one of States.
THEOREM TypeCorrect == Spec => []TypeOK
<1>1. Tracked => TypeOK
  BY DEF Tracked
<1> QED
  BY <1>1, TrackedInit, TrackedStep, PTL DEF Spec

\* For every number of subresources and every sequence of calls that respects the shortcut of
\* Transition (ShortcutSafe), barriers and copies find
\* the states they were recorded with (Transition, Upload, Readback, CopyFrom).
THEOREM CommandsCorrect == Spec => []CommandsMatch
<1>1. Tracked => BarriersMatch
  BY DEF Tracked, TypeOK, Chain, BarriersMatch
<1>2. Tracked => CopiesMatch
  BY DEF Tracked, TypeOK, Chain, Sound, CopiesMatch
<1>3. Tracked => CommandsMatch
  BY <1>1, <1>2 DEF CommandsMatch
<1> QED
  BY <1>3, TrackedInit, TrackedStep, PTL DEF Spec

\* The handle knows the states of an idle texture.
THEOREM IdleCorrect == Spec => []TrackedWhenIdle
<1>1. Tracked => TrackedWhenIdle
  BY DEF Tracked, Chain, TrackedWhenIdle
<1> QED
  BY <1>1, TrackedInit, TrackedStep, PTL DEF Spec

(***************************************************************************)
(* Bytes (TextureCopy)                                                     *)
(***************************************************************************)

\* A number by its quotient and its rest.
LEMMA Quotient ==
  ASSUME NEW n \in Nat, NEW d \in Positive
  PROVE  /\ n \div d \in Nat /\ n % d \in Nat
         /\ n = d * (n \div d) + (n % d)
         /\ n % d < d
<1>1. d \in Nat /\ d > 0
  BY DEF Positive
<1>2. n % d \in Nat /\ n % d < d
  BY <1>1
<1>3. n \div d \in Nat
  BY <1>1
<1>4. n = d * (n \div d) + (n % d)
  BY <1>1
<1> QED
  BY <1>2, <1>3, <1>4

\* Both are determined by that.
LEMMA QuotientUnique ==
  ASSUME NEW d \in Positive, NEW row \in Nat, NEW column \in Nat, column < d
  PROVE  /\ (row * d + column) \div d = row
         /\ (row * d + column) % d = column
<1> DEFINE n == row * d + column
           q == n \div d
           r == n % d
<1>1. n \in Nat
  <2>1. row * d \in Nat
    BY DEF Positive
  <2> QED
    BY <2>1
<1>2. q \in Nat /\ r \in Nat /\ n = d * q + r /\ r < d
  <2> HIDE DEF n
  <2> QED
    BY <1>1, Quotient
<1>3. row * d + column = d * q + r
  BY <1>2
<1> HIDE DEF n, q, r
<1>4. q = row
  <2>1. ~(q >= row + 1)
    BY <1>2, <1>3 DEF Positive
  <2>2. ~(row >= q + 1)
    BY <1>2, <1>3 DEF Positive
  <2> QED
    BY <1>2, <2>1, <2>2
<1>5. r = column
  BY <1>2, <1>3, <1>4 DEF Positive
<1> QED
  BY <1>4, <1>5 DEF n, q, r

\* Rows of the footprint are as far apart as they are long, or farther.
LEMMA PitchBound ==
  ASSUME NEW s \in [width : Positive, height : Positive]
  PROVE  /\ RowPitch(s) \in Positive
         /\ RowPitch(s) >= s.width
         /\ s.width % RowAlignment = 0 => RowPitch(s) = s.width
<1> DEFINE n == s.width + RowAlignment - 1
           q == n \div RowAlignment
<1>1. RowAlignment \in Positive /\ s.width \in Positive /\ n \in Nat
  BY CopyAssumption DEF Positive
<1>2. /\ q \in Nat /\ n % RowAlignment \in Nat /\ n % RowAlignment < RowAlignment
      /\ n = RowAlignment * q + (n % RowAlignment)
  BY <1>1, Quotient
<1>3. RowPitch(s) = q * RowAlignment
  BY DEF RowPitch
<1>4. RowPitch(s) \in Nat /\ RowPitch(s) >= s.width
  <2>1. n = s.width + RowAlignment - 1
    OBVIOUS
  <2> HIDE DEF n, q
  <2>2. RowAlignment * q + RowAlignment > s.width + RowAlignment - 1
    BY <1>1, <1>2, <2>1 DEF Positive
  <2>3. q * RowAlignment = RowAlignment * q /\ RowAlignment * q \in Nat
    BY <1>1, <1>2 DEF Positive
  <2> QED
    BY <1>1, <1>3, <2>2, <2>3 DEF Positive
<1>5. ASSUME s.width % RowAlignment = 0
      PROVE  RowPitch(s) = s.width
  <2> DEFINE k == s.width \div RowAlignment
  <2>1. k \in Nat /\ s.width = RowAlignment * k
    <3>1. s.width \in Nat
      BY <1>1 DEF Positive
    <3>2. k \in Nat /\ s.width = RowAlignment * k + (s.width % RowAlignment)
      BY <1>1, <3>1, Quotient
    <3>3. RowAlignment * k \in Nat
      BY <1>1, <3>2 DEF Positive
    <3> QED
      BY <1>5, <3>2, <3>3
  <2>2. n = k * RowAlignment + (RowAlignment - 1)
    BY <1>1, <2>1 DEF Positive
  <2>3. RowAlignment - 1 \in Nat /\ RowAlignment - 1 < RowAlignment
    BY <1>1 DEF Positive
  <2> HIDE DEF n, k
  <2>4. q = k
    <3>1. (k * RowAlignment + (RowAlignment - 1)) \div RowAlignment = k
      BY <1>1, <2>1, <2>3, QuotientUnique
    <3> QED
      BY <2>2, <3>1
  <2> QED
    BY <1>1, <1>3, <2>1, <2>4 DEF Positive
<1> QED
  BY <1>1, <1>4, <1>5 DEF Positive

\* A texel of a row has its place inside the footprint, with either idea of a row.
LEMMA PlaceBound ==
  ASSUME NEW w \in Positive, NEW h \in Positive, NEW p \in Positive, p >= w,
         NEW column \in Nat, column < w, NEW row \in Nat, row < h
  PROVE  /\ row * p + column \in Nat /\ row * p + column < p * (h - 1) + w
         /\ row * w + column \in Nat /\ row * w + column < p * (h - 1) + w
<1>1. row * p \in Nat /\ row * w \in Nat /\ p * (h - 1) \in Nat
  BY DEF Positive
<1>2. row * p <= p * (h - 1)
  BY DEF Positive
<1>3. row * w <= row * p
  BY DEF Positive
<1> QED
  BY <1>1, <1>2, <1>3 DEF Positive

Aligned == shape.width % RowAlignment = 0 \/ shape.height = 1

\* Rows that the processor has written are in the block, and what the steps have moved of an
\* aligned picture is whole; no place of the block has what belongs to others.
CopyInv ==
    /\ CopyTypeOK
    /\ \A a \in Page \ Block : upload[a] = Others /\ readback[a] = Others
    /\ \A a \in Block : upload[a] # Others /\ readback[a] # Others
    /\ \A t \in Texels : texture[t] # Others /\ picture[t] # Others
    /\ step \in {"fill", "copy in"} =>
         \A t \in Texels : t[2] < y => upload[RowStart(t[2]) + t[1]] = t
    /\ Aligned /\ step \in {"copy out", "read", "done"} => \A t \in Texels : texture[t] = t
    /\ Aligned /\ step \in {"read", "done"} =>
         /\ \A t \in Texels : readback[Placed(t)] = t
         /\ \A t \in Texels : t[2] < y => picture[t] = t

\* What the shape and the block of any state have in common.
LEMMA Places ==
  ASSUME CopyTypeOK
  PROVE  /\ shape.width \in Positive /\ shape.height \in Positive /\ offset \in Nat
         /\ RowPitch(shape) \in Positive /\ RowPitch(shape) >= shape.width
         /\ Block \subseteq Page
         /\ \A t \in Texels : /\ t[1] \in Nat /\ t[1] < shape.width
                              /\ t[2] \in Nat /\ t[2] < shape.height
                              /\ t = <<t[1], t[2]>>
                              /\ Placed(t) \in Block
                              /\ RowStart(t[2]) + t[1] \in Block
         /\ Aligned => \A t \in Texels : Placed(t) = RowStart(t[2]) + t[1]
<1> DEFINE w == shape.width
           h == shape.height
           p == RowPitch(shape)
<1>1. shape \in [width : Positive, height : Positive] /\ offset \in Nat
  BY CopyAssumption DEF CopyTypeOK
<1>2. w \in Positive /\ h \in Positive
  BY <1>1
<1>3. p \in Positive /\ p >= w /\ (w % RowAlignment = 0 => p = w)
  BY <1>1, PitchBound
<1>4. RequiredSize(shape) = p * (h - 1) + w
  BY DEF RequiredSize
<1>5. RequiredSize(shape) \in Nat /\ offset + RequiredSize(shape) <= PageSize
  <2>1. offset + RequiredSize(shape) <= PageSize
    BY CopyAssumption DEF CopyTypeOK
  <2>2. p * (h - 1) \in Nat
    BY <1>2, <1>3 DEF Positive
  <2> QED
    BY <1>2, <1>4, <2>1, <2>2 DEF Positive
<1>6. Block \subseteq Page
  BY <1>1, <1>5, CopyAssumption DEF Block, Page
<1>7. ASSUME NEW t \in Texels
      PROVE  /\ t[1] \in Nat /\ t[1] < w /\ t[2] \in Nat /\ t[2] < h /\ t = <<t[1], t[2]>>
             /\ Placed(t) \in Block
             /\ RowStart(t[2]) + t[1] \in Block
             /\ Aligned => Placed(t) = RowStart(t[2]) + t[1]
  <2>1. t[1] \in Nat /\ t[1] < w /\ t[2] \in Nat /\ t[2] < h /\ t = <<t[1], t[2]>>
    BY <1>2 DEF Texels, Positive
  <2>2. Placed(t) = offset + t[2] * p + t[1] /\ RowStart(t[2]) = offset + t[2] * w
    BY DEF Placed, RowStart
  <2> HIDE DEF w, h, p
  <2>3. /\ t[2] * p + t[1] \in Nat /\ t[2] * p + t[1] < RequiredSize(shape)
        /\ t[2] * w + t[1] \in Nat /\ t[2] * w + t[1] < RequiredSize(shape)
    BY <1>2, <1>3, <1>4, <2>1, PlaceBound
  <2>4. t[2] * p \in Nat /\ t[2] * w \in Nat
    BY <1>2, <1>3, <2>1 DEF Positive
  <2>5. Placed(t) \in Block /\ RowStart(t[2]) + t[1] \in Block
    BY <1>1, <1>5, <2>1, <2>2, <2>3, <2>4 DEF Block
  <2>6. ASSUME Aligned PROVE t[2] * p = t[2] * w
    <3>1. CASE w % RowAlignment = 0
      BY <1>3, <3>1
    <3>2. CASE h = 1
      <4>1. t[2] = 0
        BY <2>1, <3>2
      <4> QED
        BY <1>2, <1>3, <4>1 DEF Positive
    <3> QED
      BY <2>6, <3>1, <3>2 DEF Aligned, w, h
  <2> QED
    BY <2>1, <2>2, <2>5, <2>6
<1> QED
  BY <1>1, <1>2, <1>3, <1>6, <1>7

\* The invariant of a copy holds before the first row.
LEMMA CopyInvAtStart == CopyInit => CopyInv
<1> SUFFICES ASSUME CopyInit PROVE CopyInv
  OBVIOUS
<1>1. CopyTypeOK
  <2>1. shape.height \in Positive
    BY CopyAssumption DEF CopyInit
  <2> QED
    BY <2>1 DEF CopyInit, CopyTypeOK, Blank, Positive
<1>2. Block \subseteq Page
  BY <1>1, Places
<1>3. \A a \in Page : upload[a] = (IF a \in Block THEN Stale ELSE Others) /\ readback[a] = upload[a]
  BY DEF CopyInit, Blank, Block
<1>4. Stale # Others
  BY DEF Stale, Others
<1>5. \A t \in Texels : texture[t] = Stale /\ picture[t] = Stale
  BY DEF CopyInit
<1>6. y = 0 /\ step = "fill"
  BY DEF CopyInit
<1>7. \A t \in Texels : ~(t[2] < y)
  BY <1>1, <1>6, Places
<1> QED
  BY <1>1, <1>2, <1>3, <1>4, <1>5, <1>6, <1>7 DEF CopyInv

\* Where a row of the block begins is a place.
LEMMA StartBound ==
  ASSUME CopyTypeOK, NEW row \in Nat
  PROVE  RowStart(row) \in Nat /\ shape.width \in Positive
<1>1. shape.width \in Positive /\ offset \in Nat
  BY Places
<1>2. row * shape.width \in Nat
  BY <1>1 DEF Positive
<1> QED
  BY <1>1, <1>2 DEF RowStart

\* No two texels share a place in the rows of the processor.
LEMMA RowsApart ==
  ASSUME CopyTypeOK, NEW t \in Texels, NEW row \in Nat, row < shape.height,
         RowStart(t[2]) + t[1] \in RowStart(row) .. RowStart(row) + shape.width - 1
  PROVE  t[2] = row
<1> DEFINE w == shape.width
<1>1. w \in Positive /\ offset \in Nat /\ t[1] \in Nat /\ t[1] < w /\ t[2] \in Nat
  BY Places
<1>2. t[2] * w \in Nat /\ row * w \in Nat
  BY <1>1 DEF Positive
<1>3. row * w <= t[2] * w + t[1] /\ t[2] * w + t[1] < row * w + w
  BY <1>1, <1>2 DEF RowStart, Positive
<1> HIDE DEF w
<1>4. ~(t[2] >= row + 1)
  BY <1>1, <1>2, <1>3 DEF Positive
<1>5. ~(row >= t[2] + 1)
  <2> SUFFICES ASSUME row >= t[2] + 1 PROVE FALSE
    OBVIOUS
  <2>1. row * w >= (t[2] + 1) * w
    BY <1>1 DEF Positive
  <2>2. (t[2] + 1) * w = t[2] * w + w
    BY <1>1 DEF Positive
  <2> QED
    BY <1>1, <1>2, <1>3, <2>1, <2>2 DEF Positive
<1> QED
  BY <1>1, <1>4, <1>5

\* What a step that keeps the shape and the block keeps with them.
LEMMA Fixed ==
  ASSUME shape' = shape, offset' = offset
  PROVE  /\ Block' = Block /\ Texels' = Texels /\ Aligned' = Aligned
         /\ \A t : Placed(t)' = Placed(t)
         /\ \A row : RowStart(row)' = RowStart(row)
  BY DEF Block, Texels, Aligned, Placed, RowStart

\* Upload copies one more row into the block and leaves the rest of the page alone.
LEMMA FillRowStep ==
  ASSUME CopyInv, FillRow
  PROVE  CopyInv'
<1>1. CopyTypeOK /\ step = "fill" /\ y < shape.height
  BY DEF CopyInv, FillRow
<1>2. shape.height \in Positive /\ y \in Nat
  <2>1. y \in 0 .. shape.height
    BY <1>1 DEF CopyTypeOK
  <2>2. shape.height \in Positive
    BY <1>1, Places
  <2> QED
    BY <2>1, <2>2 DEF Positive
<1>3. /\ shape' = shape /\ offset' = offset /\ texture' = texture /\ picture' = picture
      /\ readback' = readback /\ upload' = CopiedRow /\ y' = y + 1
      /\ step' = IF y' = shape.height THEN "copy in" ELSE "fill"
  BY DEF FillRow
<1>4. /\ Block' = Block /\ Texels' = Texels /\ Aligned' = Aligned
      /\ \A row : RowStart(row)' = RowStart(row)
  BY <1>3, Fixed
<1>5. CopyTypeOK'
  <2>1. step' # "fill" => y' = shape.height
    BY <1>3
  <2>2. y' \in 0 .. shape.height
    <3>1. y + 1 \in 0 .. shape.height
      BY <1>1, <1>2 DEF Positive
    <3> QED
      BY <1>3, <3>1
  <2>3. DOMAIN CopiedRow = Page
    BY DEF CopiedRow
  <2>4. step' \in {"fill", "copy in"}
    BY <1>3
  <2> QED
    BY <1>1, <1>3, <1>4, <2>1, <2>2, <2>3, <2>4 DEF CopyTypeOK
<1>6. ASSUME NEW a \in Page, a \in RowStart(y) .. RowStart(y) + shape.width - 1
      PROVE  /\ CopiedRow[a] = <<a - RowStart(y), y>>
             /\ <<a - RowStart(y), y>> \in Texels
             /\ a \in Block
  <2>1. RowStart(y) \in Nat /\ shape.width \in Positive
    BY <1>1, <1>2, StartBound
  <2>2. CopiedRow[a] = <<a - RowStart(y), y>>
    BY <1>6 DEF CopiedRow
  <2>3. <<a - RowStart(y), y>> \in Texels
    BY <1>1, <1>2, <1>6, <2>1 DEF Texels, Positive
  <2>4. RowStart(y) + (a - RowStart(y)) = a
    BY <1>6, <2>1 DEF Positive
  <2>5. a \in Block
    BY <1>1, <2>3, <2>4, Places
  <2> QED
    BY <2>2, <2>3, <2>5
<1>7. ASSUME NEW a \in Page, a \notin RowStart(y) .. RowStart(y) + shape.width - 1
      PROVE  CopiedRow[a] = upload[a]
  BY <1>7 DEF CopiedRow
<1>8. \A a \in Page \ Block : CopiedRow[a] = Others
  BY <1>6, <1>7 DEF CopyInv
<1>9. \A a \in Block : CopiedRow[a] # Others
  <2>1. \A t \in Texels : t # Others
    BY <1>1, Places DEF Others
  <2>2. Block \subseteq Page
    BY <1>1, Places
  <2> QED
    BY <1>6, <1>7, <2>1, <2>2 DEF CopyInv
<1>10. ASSUME NEW t \in Texels, t[2] < y + 1
       PROVE  CopiedRow[RowStart(t[2]) + t[1]] = t
  <2> DEFINE a == RowStart(t[2]) + t[1]
  <2>1. /\ a \in Page /\ t = <<t[1], t[2]>>
        /\ t[1] \in Nat /\ t[1] < shape.width /\ t[2] \in Nat
    BY <1>1, Places
  <2>2. CASE t[2] = y
    <3>1. RowStart(y) \in Nat /\ shape.width \in Positive
      BY <1>1, <1>2, StartBound
    <3>2. a \in RowStart(y) .. RowStart(y) + shape.width - 1 /\ a - RowStart(y) = t[1]
      BY <2>1, <2>2, <3>1 DEF Positive
    <3> QED
      BY <1>6, <2>1, <2>2, <3>2
  <2>3. CASE t[2] # y
    <3>1. a \notin RowStart(y) .. RowStart(y) + shape.width - 1
      BY <1>1, <1>2, <2>3, RowsApart
    <3>2. t[2] < y
      BY <1>2, <1>10, <2>1, <2>3
    <3>3. upload[a] = t
      BY <1>1, <3>2 DEF CopyInv
    <3> QED
      BY <1>7, <2>1, <3>1, <3>3
  <2> QED
    BY <2>2, <2>3
<1>11. step' \notin {"copy out", "read", "done"}
  BY <1>3
<1> QED
  BY <1>3, <1>4, <1>5, <1>8, <1>9, <1>10, <1>11 DEF CopyInv

\* Where rows are aligned, the copy in brings each texel to its place.
LEMMA CopyInStep ==
  ASSUME CopyInv, CopyIn
  PROVE  CopyInv'
<1>1. CopyTypeOK /\ step = "copy in" /\ y = shape.height
  BY DEF CopyInv, CopyIn, CopyTypeOK
<1>2. /\ shape' = shape /\ offset' = offset /\ upload' = upload /\ picture' = picture
      /\ readback' = readback /\ y' = y /\ step' = "copy out"
      /\ texture' = [t \in Texels |-> upload[Placed(t)]]
  BY DEF CopyIn
<1>3. Block' = Block /\ Texels' = Texels /\ Aligned' = Aligned
  BY <1>2, Fixed
<1>4. CopyTypeOK'
  BY <1>1, <1>2, <1>3 DEF CopyTypeOK
<1>5. \A t \in Texels : texture'[t] # Others
  BY <1>1, <1>2, Places DEF CopyInv
<1>6. ASSUME Aligned, NEW t \in Texels
      PROVE  texture'[t] = t
  <2>1. t[2] < y /\ Placed(t) = RowStart(t[2]) + t[1]
    BY <1>1, <1>6, Places
  <2> QED
    BY <1>1, <1>2, <2>1 DEF CopyInv
<1> QED
  BY <1>2, <1>3, <1>4, <1>5, <1>6 DEF CopyInv

\* Where rows are aligned, the copy out brings each texel to its place in the second block.
LEMMA CopyOutStep ==
  ASSUME CopyInv, CopyOut
  PROVE  CopyInv'
<1> DEFINE column(a) == (a - offset) % RowPitch(shape)
           row(a) == (a - offset) \div RowPitch(shape)
<1>1. CopyTypeOK /\ step = "copy out"
  BY DEF CopyInv, CopyOut
<1>2. /\ shape' = shape /\ offset' = offset /\ upload' = upload /\ picture' = picture
      /\ texture' = texture /\ y' = 0 /\ step' = "read"
  BY DEF CopyOut
<1>3. readback' = [a \in Page |-> IF a >= offset /\ <<column(a), row(a)>> \in Texels
                                   THEN texture[<<column(a), row(a)>>] ELSE readback[a]]
  BY DEF CopyOut
<1>4. Block' = Block /\ Texels' = Texels /\ Aligned' = Aligned /\ \A t : Placed(t)' = Placed(t)
  BY <1>2, Fixed
<1>5. offset \in Nat /\ RowPitch(shape) \in Positive /\ Block \subseteq Page
  BY <1>1, Places
<1>6. CopyTypeOK'
  <2>1. 0 \in 0 .. shape.height
    <3>1. shape.height \in Positive
      BY <1>1, Places
    <3> QED
      BY <3>1 DEF Positive
  <2>2. DOMAIN readback' = Page
    BY <1>3
  <2> QED
    BY <1>1, <1>2, <1>4, <2>1, <2>2 DEF CopyTypeOK
<1>7. ASSUME NEW a \in Page, a >= offset, <<column(a), row(a)>> \in Texels
      PROVE  Placed(<<column(a), row(a)>>) = a
  <2> DEFINE n == a - offset
             q == n \div RowPitch(shape)
             r == n % RowPitch(shape)
  <2>1. n \in Nat /\ a \in Int
    BY <1>5, <1>7, CopyAssumption DEF Page
  <2> HIDE DEF n
  <2>2. n = RowPitch(shape) * q + r /\ q \in Nat /\ r \in Nat
    BY <1>5, <2>1, Quotient
  <2>3. Placed(<<r, q>>) = offset + q * RowPitch(shape) + r
    BY DEF Placed
  <2> HIDE DEF q, r
  <2>4. RowPitch(shape) * q = q * RowPitch(shape) /\ q * RowPitch(shape) \in Nat
    BY <1>5, <2>2 DEF Positive
  <2>5. Placed(<<r, q>>) = offset + n
    BY <1>5, <2>2, <2>3, <2>4
  <2>6. offset + n = a
    BY <1>5, <2>1 DEF n
  <2> QED
    BY <2>5, <2>6 DEF q, r, n
<1>8. \A a \in Page \ Block : readback'[a] = Others
  BY <1>1, <1>3, <1>7, Places DEF CopyInv
<1>9. \A a \in Block : readback'[a] # Others
  BY <1>3, <1>5 DEF CopyInv
<1>10. ASSUME NEW t \in Texels
       PROVE  readback'[Placed(t)] = texture[t]
  <2>1. /\ Placed(t) \in Page /\ t = <<t[1], t[2]>> /\ t[1] \in Nat /\ t[2] \in Nat
        /\ t[1] < RowPitch(shape)
    <3>1. /\ Placed(t) \in Page /\ t = <<t[1], t[2]>> /\ t[1] \in Nat /\ t[2] \in Nat
          /\ t[1] < shape.width /\ shape.width \in Positive /\ RowPitch(shape) >= shape.width
      BY <1>1, <1>5, Places
    <3> QED
      BY <1>5, <3>1 DEF Positive
  <2>2. t[2] * RowPitch(shape) \in Nat
    BY <1>5, <2>1 DEF Positive
  <2>3. /\ Placed(t) = offset + t[2] * RowPitch(shape) + t[1]
        /\ Placed(t) - offset = t[2] * RowPitch(shape) + t[1]
        /\ Placed(t) >= offset
    BY <1>5, <2>1, <2>2 DEF Placed
  <2>4. column(Placed(t)) = t[1] /\ row(Placed(t)) = t[2]
    BY <1>5, <2>1, <2>3, QuotientUnique
  <2> QED
    BY <1>3, <2>1, <2>3, <2>4
<1>11. ASSUME NEW t \in Texels
       PROVE  ~(t[2] < 0)
  <2>1. t[2] \in Nat
    BY <1>1, Places
  <2> QED
    BY <2>1
<1> QED
  BY <1>1, <1>2, <1>4, <1>6, <1>8, <1>9, <1>10, <1>11 DEF CopyInv

\* Readback copies one more row of the second block.
LEMMA ReadRowStep ==
  ASSUME CopyInv, ReadRow
  PROVE  CopyInv'
<1>1. CopyTypeOK /\ step = "read" /\ y < shape.height
  BY DEF CopyInv, ReadRow
<1>2. shape.height \in Positive /\ y \in Nat
  <2>1. y \in 0 .. shape.height
    BY <1>1 DEF CopyTypeOK
  <2>2. shape.height \in Positive
    BY <1>1, Places
  <2> QED
    BY <2>1, <2>2 DEF Positive
<1>3. /\ shape' = shape /\ offset' = offset /\ upload' = upload /\ texture' = texture
      /\ readback' = readback /\ y' = y + 1
      /\ step' = IF y' = shape.height THEN "done" ELSE "read"
      /\ picture' = [t \in Texels |-> IF t[2] = y THEN readback[RowStart(y) + t[1]]
                                      ELSE picture[t]]
  BY DEF ReadRow
<1>4. Block' = Block /\ Texels' = Texels /\ Aligned' = Aligned /\ \A t : Placed(t)' = Placed(t)
  BY <1>3, Fixed
<1>5. CopyTypeOK'
  <2>1. y' \in 0 .. shape.height /\ (step' # "read" => y' = shape.height)
    BY <1>1, <1>2, <1>3 DEF Positive
  <2>2. step' \in {"read", "done"} /\ DOMAIN picture' = Texels
    BY <1>3
  <2> QED
    BY <1>1, <1>3, <1>4, <2>1, <2>2 DEF CopyTypeOK
<1>6. \A t \in Texels : picture'[t] # Others
  <2> SUFFICES ASSUME NEW t \in Texels PROVE picture'[t] # Others
    OBVIOUS
  <2>1. RowStart(t[2]) + t[1] \in Block
    BY <1>1, Places
  <2> QED
    BY <1>3, <2>1 DEF CopyInv
<1>7. ASSUME Aligned, NEW t \in Texels, t[2] < y + 1
      PROVE  picture'[t] = t
  <2>1. t[2] \in Nat /\ Placed(t) = RowStart(t[2]) + t[1]
    BY <1>1, <1>7, Places
  <2>2. CASE t[2] = y
    BY <1>1, <1>3, <1>7, <2>1, <2>2 DEF CopyInv
  <2>3. CASE t[2] # y
    <3>1. t[2] < y
      BY <1>2, <1>7, <2>1, <2>3
    <3> QED
      BY <1>1, <1>3, <1>7, <2>3, <3>1 DEF CopyInv
  <2> QED
    BY <2>2, <2>3
<1>8. step' \in {"read", "done"}
  BY <1>3
<1> QED
  BY <1>1, <1>3, <1>4, <1>5, <1>6, <1>7, <1>8 DEF CopyInv

\* Every step of a copy keeps the invariant.
LEMMA CopyInvStep == CopyInv /\ [CopyNext]_copy_vars => CopyInv'
<1> SUFFICES ASSUME CopyInv, [CopyNext]_copy_vars PROVE CopyInv'
  OBVIOUS
<1>1. CASE UNCHANGED copy_vars
  <2>1. /\ shape' = shape /\ offset' = offset /\ step' = step /\ y' = y /\ upload' = upload
        /\ texture' = texture /\ readback' = readback /\ picture' = picture
    BY <1>1 DEF copy_vars
  <2>2. /\ Block' = Block /\ Texels' = Texels /\ Aligned' = Aligned
        /\ \A t : Placed(t)' = Placed(t)
        /\ \A row : RowStart(row)' = RowStart(row)
    BY <2>1, Fixed
  <2>3. CopyTypeOK'
    BY <2>1, <2>2 DEF CopyInv, CopyTypeOK
  <2> QED
    BY <2>1, <2>2, <2>3 DEF CopyInv
<1> QED
  BY <1>1, FillRowStep, CopyInStep, CopyOutStep, ReadRowStep DEF CopyNext

\* So it always holds.
LEMMA CopyInvariant == CopySpec => []CopyInv
  BY CopyInvAtStart, CopyInvStep, PTL DEF CopySpec

\* The rows of every picture are moved in order, each once.
THEOREM CopyTypeCorrect == CopySpec => []CopyTypeOK
<1>1. CopyInv => CopyTypeOK
  BY DEF CopyInv
<1> QED
  BY CopyInvariant, <1>1, PTL

\* Whatever the width and wherever the block is, what others have in a page is left alone.
THEOREM OthersCorrect == CopySpec => []OthersKept
<1>1. CopyInv => OthersKept
  BY DEF CopyInv, OthersKept
<1> QED
  BY CopyInvariant, <1>1, PTL

\* Every picture with rows of a multiple of the alignment comes back as it was.
THEOREM AlignedCorrect == CopySpec => []AlignedRoundTrip
<1>1. CopyInv => AlignedRoundTrip
  <2> SUFFICES ASSUME CopyInv, step = "done", Aligned PROVE IsWhole(picture)
    BY DEF AlignedRoundTrip, Aligned
  <2>1. CopyTypeOK /\ y = shape.height
    BY DEF CopyInv, CopyTypeOK
  <2>2. \A t \in Texels : t[2] < y
    BY <2>1, Places
  <2> QED
    BY <2>2 DEF CopyInv, IsWhole
<1> QED
  BY CopyInvariant, <1>1, PTL

Loops == INSTANCE FreeListProofs

(***************************************************************************)
(* The start (DeviceSelection)                                             *)
(***************************************************************************)

\* While the search is on, no device is there and no adapter passed was usable; a device is
\* the adapter at which the search ended.
SearchInv ==
    /\ adapters \in Seq(Adapter)
    /\ adapter_id \in 0 .. Len(adapters)
    /\ pc \in {"enumerate", "inspect", "not_found"} => device = None
    /\ pc = "inspect" => adapter_id < Len(adapters)
    /\ pc = "not_found" => adapter_id = Len(adapters)
    /\ \A i \in 1 .. adapter_id : ~Usable(adapters[i])
    /\ \/ device = None
       \/ device = adapter_id /\ adapter_id < Len(adapters) /\ Usable(Current)
       \/ device = Warp /\ Debug /\ adapter_id = Len(adapters)

\* The constructor makes one thing after the other.
ConstructInv ==
    /\ pc \notin {"heaps", "shaders", "running", "failed"} => ~estimator
    /\ ~estimator => heaps = 0 /\ shaders = 0
    /\ pc = "heaps" => estimator /\ heaps < FrameCount /\ shaders = 0
    /\ pc = "shaders" => estimator /\ heaps = FrameCount /\ shaders < ShaderCount

StartInv == StartTypeOK /\ SearchInv /\ ConstructInv /\ NoShadersAlone

\* The search begins with nothing found and nothing made.
LEMMA StartInvAtStart == StartInit => StartInv
<1> SUFFICES ASSUME StartInit PROVE StartInv
  OBVIOUS
<1>1. adapters \in AdapterLists /\ adapters \in Seq(Adapter) /\ Len(adapters) \in Nat
  BY SelectionAssumption DEF StartInit
<1>2. estimator \in BOOLEAN /\ ~estimator
  BY Zenon DEF StartInit
<1>3. adapter_id = 0 /\ device = None /\ pc = "enumerate" /\ heaps = 0 /\ shaders = 0
  BY DEF StartInit
<1>4. SearchInv
  BY <1>1, <1>3 DEF SearchInv
<1> QED
  BY <1>1, <1>2, <1>3, <1>4, SelectionAssumption DEF StartInv, StartTypeOK, ConstructInv, NoShadersAlone

\* Where the constructor of the generator stands, with what it has made.
Early == {"enumerate", "inspect", "not_found", "verify", "construct", "failed"}

\* The loop over the adapters.
LEMMA SearchKept ==
    ASSUME SearchInv, Enumerate \/ SkipSoftware \/ Take \/ TryNext \/ Throw \/ FallBack
    PROVE  /\ SearchInv' /\ adapters' = adapters
           /\ pc \in Early \ {"failed"} /\ pc' \in Early /\ heaps' = heaps /\ shaders' = shaders
           /\ estimator' = estimator
<1>1. adapters \in Seq(Adapter) /\ Len(adapters) \in Nat /\ device = None
  BY DEF SearchInv, Enumerate, SkipSoftware, Take, TryNext, Throw, FallBack
<1>2. adapters' = adapters /\ heaps' = heaps /\ shaders' = shaders
  BY DEF Enumerate, SkipSoftware, Take, TryNext, Throw, FallBack
<1>3. estimator' = estimator
  BY Zenon DEF Enumerate, SkipSoftware, Take, TryNext, Throw, FallBack
<1>4. pc \in Early \ {"failed"} /\ pc' \in Early
  BY DEF Enumerate, SkipSoftware, Take, TryNext, Throw, FallBack, Early
<1>5. SearchInv'
  <2>1. CASE Enumerate
    BY <1>1, <2>1 DEF Enumerate, SearchInv
  <2>2. CASE SkipSoftware
    BY <1>1, <2>2 DEF SkipSoftware, SearchInv
  <2>3. CASE Take
    BY <1>1, <2>3 DEF Take, SearchInv, Current
  <2>4. CASE TryNext
    <3>1. adapter_id + 1 \in 0 .. Len(adapters) /\ ~Usable(adapters[adapter_id + 1])
      BY <1>1, <2>4 DEF TryNext, SearchInv, Current
    <3> QED
      BY <1>1, <2>4, <3>1 DEF TryNext, SearchInv
  <2>5. CASE Throw
    BY <1>1, <2>5 DEF Throw, SearchInv
  <2>6. CASE FallBack
    BY <1>1, <2>6 DEF FallBack, SearchInv
  <2> QED
    BY <2>1, <2>2, <2>3, <2>4, <2>5, <2>6
<1> QED
  BY <1>2, <1>3, <1>4, <1>5

\* A step of the loop over adapters keeps what is known of those it has passed.
LEMMA SearchStep ==
    ASSUME StartInv, Enumerate \/ SkipSoftware \/ Take \/ TryNext \/ Throw \/ FallBack
    PROVE  StartInv'
<1>1. /\ SearchInv' /\ adapters' = adapters
      /\ pc \in Early \ {"failed"} /\ pc' \in Early /\ heaps' = heaps /\ shaders' = shaders
  BY SearchKept DEF StartInv
<1>2. estimator' \in BOOLEAN /\ (estimator' <=> estimator) /\ estimator' = estimator
  BY SearchKept DEF StartInv, StartTypeOK
<1>3. ~estimator /\ heaps = 0 /\ shaders = 0
  BY <1>1 DEF StartInv, ConstructInv, Early
<1>4. ConstructInv' /\ NoShadersAlone'
  BY <1>1, <1>2, <1>3 DEF ConstructInv, NoShadersAlone, Early
<1>5. StartTypeOK'
  BY <1>1, <1>2 DEF StartTypeOK, StartInv, Early, SearchInv
<1> QED
  BY <1>1, <1>4, <1>5 DEF StartInv

\* The rest of the two constructors.
LEMMA ConstructStep ==
    ASSUME StartInv, VerifyDevice \/ ConstructEstimator \/ ConstructHeap \/ ConstructShader
    PROVE  StartInv'
<1>1. /\ adapters' = adapters /\ adapter_id' = adapter_id /\ device' = device
      /\ pc \in {"verify", "construct", "heaps", "shaders"}
      /\ pc' \in {"construct", "heaps", "shaders", "running", "failed"}
  BY DEF VerifyDevice, ConstructEstimator, ConstructHeap, ConstructShader, GiveUp
<1>2. SearchInv'
  BY <1>1 DEF SearchInv, StartInv, Current
<1>3. /\ estimator \in BOOLEAN /\ heaps \in Nat /\ shaders \in Nat
      /\ FrameCount \in Nat \ {0} /\ ShaderCount \in Nat \ {0}
  <2>1. estimator \in BOOLEAN
    BY Zenon DEF StartInv, StartTypeOK
  <2> QED
    BY <2>1, SelectionAssumption DEF StartInv, StartTypeOK
<1>4. ASSUME estimator' = estimator PROVE estimator' \in BOOLEAN /\ (estimator' <=> estimator)
  BY <1>3, <1>4, Zenon
<1>5. CASE VerifyDevice \/ ConstructEstimator
  <2>1. heaps' = heaps /\ shaders' = shaders
    BY <1>5 DEF VerifyDevice, ConstructEstimator, GiveUp
  <2>2. ~estimator /\ heaps = 0 /\ shaders = 0
    BY <1>5 DEF VerifyDevice, ConstructEstimator, StartInv, ConstructInv
  <2>3. \/ estimator' = estimator /\ pc' \in {"construct", "running", "failed"}
        \/ estimator' = TRUE /\ pc' = "heaps"
    BY <1>5 DEF VerifyDevice, ConstructEstimator, GiveUp
  <2>4. CASE estimator' = estimator /\ pc' \in {"construct", "running", "failed"}
    BY <1>1, <1>2, <1>3, <1>4, <2>1, <2>2, <2>4
    DEF StartInv, StartTypeOK, ConstructInv, NoShadersAlone
  <2>5. CASE estimator' = TRUE /\ pc' = "heaps"
    <3>1. estimator' \in BOOLEAN /\ estimator'
      BY <2>5, Zenon
    <3> QED
      BY <1>1, <1>2, <1>3, <2>1, <2>2, <2>5, <3>1
      DEF StartInv, StartTypeOK, ConstructInv, NoShadersAlone
  <2> QED
    BY <2>3, <2>4, <2>5
<1>6. CASE ConstructHeap
  <2>1. shaders' = shaders /\ shaders = 0 /\ estimator' = estimator /\ estimator /\ heaps < FrameCount
    BY <1>6, Zenon DEF ConstructHeap, GiveUp, StartInv, ConstructInv
  <2>2. \/ heaps' = heaps /\ pc' = "running"
        \/ heaps' = heaps + 1 /\ pc' = IF heaps' = FrameCount THEN "shaders" ELSE "heaps"
    BY <1>6, Zenon DEF ConstructHeap, GiveUp
  <2> QED
    BY <1>1, <1>2, <1>3, <1>4, <2>1, <2>2
    DEF StartInv, StartTypeOK, ConstructInv, NoShadersAlone
<1>7. CASE ConstructShader
  <2>1. /\ heaps' = heaps /\ estimator' = estimator
        /\ estimator /\ heaps = FrameCount /\ shaders < ShaderCount
    BY <1>7, Zenon DEF ConstructShader, StartInv, ConstructInv
  <2>2. \/ shaders' = shaders + 1 /\ pc' = IF shaders' = ShaderCount THEN "running" ELSE "shaders"
        \/ shaders' = shaders /\ pc' = "failed"
    BY <1>7, Zenon DEF ConstructShader
  <2> QED
    BY <1>1, <1>2, <1>3, <1>4, <2>1, <2>2
    DEF StartInv, StartTypeOK, ConstructInv, NoShadersAlone
<1> QED
  BY <1>5, <1>6, <1>7

\* Every step of the start keeps the invariant.
LEMMA StartInvStep == StartInv /\ [StartNext]_start_vars => StartInv'
<1> SUFFICES ASSUME StartInv, [StartNext]_start_vars PROVE StartInv'
  OBVIOUS
<1>1. CASE Stop \/ UNCHANGED start_vars
  BY <1>1 DEF Stop, start_vars, StartInv, StartTypeOK, SearchInv, ConstructInv, NoShadersAlone, Current
<1> QED
  BY <1>1, SearchStep, ConstructStep DEF StartNext

\* So it always holds.
LEMMA StartInvAlways == StartSpec => []StartInv
  BY StartInvAtStart, StartInvStep, PTL DEF StartSpec

\* The device that GpuSystem takes is that of the first adapter that the generator can use,
\* and WARP only in a debug build in which no hardware adapter can be used.
THEOREM FirstUsableAdapter == StartSpec => []FirstUsableTaken
<1>1. StartInv => FirstUsableTaken
  BY SelectionAssumption DEF StartInv, SearchInv, FirstUsableTaken, StartTypeOK, Current
<1> QED
  BY <1>1, StartInvAlways, PTL

\* Wherever the constructor of the generator gives up or throws, the shaders are never there
\* without the estimator and its heaps, and AddFrame finds none of them or all.
THEOREM AllShadersOrNone == StartSpec => []NoShadersAlone
<1>1. StartInv => NoShadersAlone
  BY DEF StartInv
<1> QED
  BY <1>1, StartInvAlways, PTL

(***************************************************************************)
(* Sizes (MotionVectorSizes)                                               *)
(***************************************************************************)

PositiveSizes == [width : Positive, height : Positive]

\* A quotient by its divisor.
LEMMA QuotientBetween ==
  ASSUME NEW x \in Nat, NEW d \in Positive
  PROVE  /\ x \div d \in Nat
         /\ d * (x \div d) <= x
         /\ x < d * (x \div d) + d
  BY DEF Positive

\* A quotient stays below a bound that the number stays below times the divisor.
LEMMA QuotientBound ==
  ASSUME NEW n \in Nat, NEW d \in Positive, NEW m \in Nat, n < m * d
  PROVE  n \div d < m
<1> DEFINE q == n \div d
           r == n % d
<1>1. q \in Nat /\ r \in Nat /\ n = d * q + r
  BY Quotient
<1> HIDE DEF q, r
<1>2. ~(q >= m)
  BY <1>1 DEF Positive
<1> QED
  BY <1>1, <1>2 DEF q

\* What is scaled by a ratio that is not too large stays below what the ratio gives.
LEMMA ScaledBound ==
  ASSUME NEW side \in Positive, NEW limit \in Positive, NEW other \in Positive,
         NEW bound \in Nat, side * limit <= bound * other
  PROVE  Scaled(side, limit, other) \in Nat /\ Scaled(side, limit, other) <= bound
<1> DEFINE q == Scaled(side, limit, other)
<1>1. side * limit \in Nat
  BY DEF Positive
<1>2. q \in Nat /\ other * q <= side * limit
  BY <1>1, QuotientBetween DEF Scaled
<1> HIDE DEF q
<1>3. other * q <= bound * other
  BY <1>1, <1>2 DEF Positive
<1>4. q <= bound
  BY <1>2, <1>3 DEF Positive
<1> QED
  BY <1>2, <1>4 DEF q

\* And does not vanish if the ratio is not too small.
LEMMA ScaledPositive ==
  ASSUME NEW side \in Positive, NEW limit \in Positive, NEW other \in Positive,
         2 * other <= side * limit
  PROVE  Scaled(side, limit, other) >= 2
<1> DEFINE q == Scaled(side, limit, other)
<1>1. side * limit \in Nat
  BY DEF Positive
<1>2. q \in Nat /\ side * limit < other * q + other
  BY <1>1, QuotientBetween DEF Scaled
<1> HIDE DEF q
<1>3. 2 * other < other * (q + 1)
  BY <1>1, <1>2 DEF Positive
<1>4. 2 < q + 1
  BY <1>2, <1>3 DEF Positive
<1> QED
  BY <1>2, <1>4 DEF q

\* Rounding down to an even number takes one at most.
LEMMA EvenBound ==
  ASSUME NEW a \in Nat
  PROVE  /\ Even(a) \in Nat /\ Even(a) <= a /\ a <= Even(a) + 1
         /\ a >= 2 => Even(a) >= 2
  BY DEF Even

\* The number of units that cover a positive length is positive.
LEMMA DivUpPositive ==
  ASSUME NEW a \in Positive, NEW b \in Positive
  PROVE  DivUp(a, b) \in Positive
<1> DEFINE q == DivUp(a, b)
<1>1. a + b - 1 \in Nat
  BY DEF Positive
<1>2. q \in Nat /\ a + b - 1 < b * q + b
  BY <1>1, QuotientBetween DEF DivUp
<1> HIDE DEF q
<1>3. q # 0
  BY <1>2 DEF Positive
<1> QED
  BY <1>2, <1>3 DEF q, Positive

\* A frame fits limits in both sides and meets one of them.
LEMMA FitBound ==
  ASSUME NEW size \in PositiveSizes, NEW lw \in Positive, NEW lh \in Positive
  PROVE  /\ Fit(size, lw, lh) \in [width : Nat, height : Nat]
         /\ Fit(size, lw, lh).width <= lw
         /\ Fit(size, lw, lh).height <= lh
         /\ Fit(size, lw, lh).width = lw \/ Fit(size, lw, lh).height = lh
<1>1. size.width \in Positive /\ size.height \in Positive
  BY DEF PositiveSizes
<1>2. CASE lw * size.height < lh * size.width
  <2>1. Fit(size, lw, lh) = Size(lw, Scaled(size.height, lw, size.width))
    BY <1>2 DEF Fit
  <2>2. size.height * lw <= lh * size.width
    BY <1>1, <1>2 DEF Positive
  <2>3. /\ Scaled(size.height, lw, size.width) \in Nat
        /\ Scaled(size.height, lw, size.width) <= lh
    BY <1>1, <2>2, ScaledBound DEF Positive
  <2> QED
    BY <2>1, <2>3 DEF Size, Positive
<1>3. CASE ~(lw * size.height < lh * size.width)
  <2>1. Fit(size, lw, lh) = Size(Scaled(size.width, lh, size.height), lh)
    BY <1>3 DEF Fit
  <2>2. size.width * lh <= lw * size.height
    BY <1>1, <1>3 DEF Positive
  <2>3. /\ Scaled(size.width, lh, size.height) \in Nat
        /\ Scaled(size.width, lh, size.height) <= lw
    BY <1>1, <2>2, ScaledBound DEF Positive
  <2> QED
    BY <2>1, <2>3 DEF Size, Positive
<1> QED
  BY <1>2, <1>3

\* Neither side vanishes, if both ratios leave two pixels.
LEMMA FitPositive ==
  ASSUME NEW size \in PositiveSizes, NEW lw \in Positive, NEW lh \in Positive, lw >= 2, lh >= 2,
         2 * size.width <= size.height * lw, 2 * size.height <= size.width * lh
  PROVE  Fit(size, lw, lh).width >= 2 /\ Fit(size, lw, lh).height >= 2
<1>1. size.width \in Positive /\ size.height \in Positive
  BY DEF PositiveSizes
<1>2. Scaled(size.height, lw, size.width) >= 2
  BY <1>1, ScaledPositive
<1>3. Scaled(size.width, lh, size.height) >= 2
  BY <1>1, ScaledPositive
<1> QED
  BY <1>2, <1>3 DEF Fit, Size

\* The limits are numbers that the constructor has made from the estimator's range.
LimitsOK ==
    /\ limits.max_width \in Positive /\ limits.max_height \in Positive
    /\ limits.min_width \in Positive /\ limits.min_height \in Positive
    /\ limits.max_width >= 2 /\ limits.max_height >= 2
    /\ limits.min_width >= 512 /\ limits.min_height >= 384

SizesInv ==
    /\ range \in SizeRanges
    /\ mv_block_size \in {0, 8, 16}
    /\ mv_block_size # 0 => LimitsOK
    /\ Made => /\ mv_block_size # 0
               /\ frame \in PositiveSizes
               /\ scaled = ScaledSize(frame, limits)
               /\ raw_mv = BlockCount(scaled, mv_block_size)

\* The invariant of the sizes holds before the constructor.
LEMMA SizesInvAtStart == SizesInit => SizesInv
  BY DEF SizesInit, SizesInv, Made

\* What the constructor makes of any range.
LEMMA LimitsBound ==
  ASSUME NEW r, r.MaxWidth \in 512 .. SideBound, r.MinWidth \in 1 .. SideBound
  PROVE  /\ Limits(r).max_width \in Positive /\ Limits(r).max_height \in Positive
         /\ Limits(r).min_width \in Positive /\ Limits(r).min_height \in Positive
         /\ Limits(r).max_width >= 2 /\ Limits(r).max_height >= 2
         /\ Limits(r).min_width >= 512 /\ Limits(r).min_height >= 384
<1> DEFINE maxw == Smaller(1920, r.MaxWidth)
           maxh == Smaller(1080, r.MaxWidth)
           minw == Larger(512, r.MinWidth)
           minh == Larger(384, r.MinWidth)
<1>1. /\ Limits(r).max_width = maxw /\ Limits(r).max_height = maxh
      /\ Limits(r).min_width = minw /\ Limits(r).min_height = minh
  BY DEF Limits
<1>2. maxw \in Nat /\ maxw >= 512 /\ maxh \in Nat /\ maxh >= 512
  BY DEF Smaller
<1>3. minw \in Nat /\ minw >= 512 /\ minh \in Nat /\ minh >= 384
  BY DEF Larger
<1> HIDE DEF maxw, maxh, minw, minh
<1> QED
  BY <1>1, <1>2, <1>3 DEF Positive

\* The constructor and the first frame keep it.
LEMMA SizesInvStep == SizesInv /\ [SizesNext]_size_vars => SizesInv'
<1> SUFFICES ASSUME SizesInv, [SizesNext]_size_vars PROVE SizesInv'
  OBVIOUS
<1>1. CASE Construct
  <2>1. range' = range /\ frame' = frame /\ limits' = Limits(range) /\ mv_block_size' \in {8, 16}
    BY <1>1 DEF Construct
  <2>2. range.MaxWidth \in 512 .. SideBound /\ range.MinWidth \in 1 .. SideBound
    <3>1. range \in SizeRange
      BY SizesAssumption DEF SizesInv
    <3> QED
      BY <3>1 DEF SizeRange
  <2>3. LimitsOK'
    BY <2>1, <2>2, LimitsBound DEF LimitsOK
  <2>4. ~Made'
    BY <1>1, <2>1 DEF SizesInv, Made, Construct
  <2> QED
    BY <2>1, <2>3, <2>4 DEF SizesInv
<1>2. ASSUME NEW width \in Widths, NEW height \in Heights, AddFirstFrame(width, height)
      PROVE  SizesInv'
  <2>1. /\ frame' = Size(width, height)
        /\ scaled' = ScaledSize(frame', limits)
        /\ raw_mv' = BlockCount(scaled', mv_block_size)
        /\ range' = range /\ limits' = limits /\ mv_block_size' = mv_block_size
        /\ mv_block_size # 0
    BY <1>2 DEF AddFirstFrame
  <2>2. frame' \in PositiveSizes
    <3>1. width \in Positive /\ height \in Positive
      BY SizesAssumption DEF Positive
    <3> QED
      BY <2>1, <3>1 DEF Size, PositiveSizes
  <2>3. LimitsOK'
    BY <2>1 DEF SizesInv, LimitsOK
  <2>4. scaled' = ScaledSize(frame, limits)' /\ raw_mv' = BlockCount(scaled, mv_block_size)'
    BY <2>1
  <2> QED
    BY <2>1, <2>2, <2>3, <2>4 DEF SizesInv
<1>3. CASE UNCHANGED size_vars
  BY <1>3 DEF SizesInv, LimitsOK, Made, size_vars
<1> QED
  BY <1>1, <1>2, <1>3 DEF SizesNext

\* What the limits ask for, before it is rounded.
Wanted ==
    IF Below(frame, limits) THEN Fit(frame, limits.min_width, limits.min_height)
    ELSE IF Above(frame, limits) THEN Fit(frame, limits.max_width, limits.max_height)
    ELSE frame

\* The scaled size is the wanted one, each side rounded down to an even number.
LEMMA ScaledIsEvenWanted ==
  ASSUME SizesInv, Made
  PROVE  /\ frame \in PositiveSizes
         /\ LimitsOK
         /\ Wanted \in [width : Nat, height : Nat]
         /\ scaled.width = Even(Wanted.width) /\ scaled.height = Even(Wanted.height)
<1>1. frame \in PositiveSizes /\ LimitsOK
  BY DEF SizesInv
<1>2. Wanted \in [width : Nat, height : Nat]
  BY <1>1, FitBound DEF Wanted, LimitsOK, PositiveSizes, Positive
<1>3. scaled = Size(Even(Wanted.width), Even(Wanted.height))
  BY DEF SizesInv, ScaledSize, Wanted
<1> QED
  BY <1>1, <1>2, <1>3 DEF Size

\* What is not below the minimum is scaled to within the maximum.
LEMMA MaximumHolds == SizesInv => FitsMaximum
<1> SUFFICES ASSUME SizesInv, Made, ~Below(frame, limits)
             PROVE  scaled.width <= limits.max_width /\ scaled.height <= limits.max_height
  BY DEF FitsMaximum
<1>1. /\ frame \in PositiveSizes /\ LimitsOK
      /\ Wanted \in [width : Nat, height : Nat]
      /\ scaled.width = Even(Wanted.width) /\ scaled.height = Even(Wanted.height)
  BY ScaledIsEvenWanted
<1>2. Wanted.width <= limits.max_width /\ Wanted.height <= limits.max_height
  <2>1. CASE Above(frame, limits)
    BY <1>1, <2>1, FitBound DEF Wanted, LimitsOK
  <2>2. CASE ~Above(frame, limits)
    BY <1>1, <2>2 DEF Wanted, Above, LimitsOK, PositiveSizes, Positive
  <2> QED
    BY <2>1, <2>2
<1>3. Even(Wanted.width) <= Wanted.width /\ Even(Wanted.height) <= Wanted.height
  BY <1>1, EvenBound
<1>4. Even(Wanted.width) \in Nat /\ Even(Wanted.height) \in Nat
  BY <1>1, EvenBound
<1> QED
  BY <1>1, <1>2, <1>3, <1>4 DEF LimitsOK, Positive

\* What is below the minimum reaches it in one side.
LEMMA MinimumHolds == SizesInv => FitsMinimum
<1> SUFFICES ASSUME SizesInv, Made, Below(frame, limits)
             PROVE  /\ scaled.width <= limits.min_width /\ scaled.height <= limits.min_height
                    /\ \/ scaled.width = Even(limits.min_width)
                       \/ scaled.height = Even(limits.min_height)
  BY DEF FitsMinimum
<1>1. /\ frame \in PositiveSizes /\ LimitsOK
      /\ Wanted \in [width : Nat, height : Nat]
      /\ scaled.width = Even(Wanted.width) /\ scaled.height = Even(Wanted.height)
  BY ScaledIsEvenWanted
<1>2. /\ Wanted.width <= limits.min_width /\ Wanted.height <= limits.min_height
      /\ Wanted.width = limits.min_width \/ Wanted.height = limits.min_height
  BY <1>1, FitBound DEF Wanted, LimitsOK
<1>3. /\ Even(Wanted.width) <= Wanted.width /\ Even(Wanted.height) <= Wanted.height
      /\ Even(Wanted.width) \in Nat /\ Even(Wanted.height) \in Nat
  BY <1>1, EvenBound
<1> QED
  BY <1>1, <1>2, <1>3 DEF LimitsOK, Positive

\* No side is empty unless the frame is longer than the limits allow.
LEMMA PositiveHolds == SizesInv => SidesPositive
<1> DEFINE limit == IF Below(frame, limits) THEN Size(limits.min_width, limits.min_height)
                    ELSE Size(limits.max_width, limits.max_height)
<1> SUFFICES ASSUME SizesInv, Made,
                    2 * frame.width <= frame.height * limit.width,
                    2 * frame.height <= frame.width * limit.height
             PROVE  /\ scaled.width > 0 /\ scaled.height > 0
                    /\ raw_mv.width > 0 /\ raw_mv.height > 0
  BY DEF SidesPositive
<1>1. /\ frame \in PositiveSizes /\ LimitsOK
      /\ Wanted \in [width : Nat, height : Nat]
      /\ scaled.width = Even(Wanted.width) /\ scaled.height = Even(Wanted.height)
  BY ScaledIsEvenWanted
<1>2. Wanted.width >= 2 /\ Wanted.height >= 2
  <2>1. CASE Below(frame, limits)
    <3>1. limit.width = limits.min_width /\ limit.height = limits.min_height
      BY <2>1 DEF Size
    <3>2. Wanted = Fit(frame, limits.min_width, limits.min_height)
      BY <2>1 DEF Wanted
    <3> QED
      BY <1>1, <3>1, <3>2, FitPositive DEF LimitsOK, Positive
  <2>2. CASE ~Below(frame, limits) /\ Above(frame, limits)
    <3>1. limit.width = limits.max_width /\ limit.height = limits.max_height
      BY <2>2 DEF Size
    <3>2. Wanted = Fit(frame, limits.max_width, limits.max_height)
      BY <2>2 DEF Wanted
    <3> QED
      BY <1>1, <3>1, <3>2, FitPositive DEF LimitsOK
  <2>3. CASE ~Below(frame, limits) /\ ~Above(frame, limits)
    BY <1>1, <2>3 DEF Wanted, Below, LimitsOK, PositiveSizes, Positive
  <2> QED
    BY <2>1, <2>2, <2>3
<1>3. Even(Wanted.width) >= 2 /\ Even(Wanted.height) >= 2
  BY <1>1, <1>2, EvenBound
<1>4. Even(Wanted.width) \in Nat /\ Even(Wanted.height) \in Nat
  BY <1>1, EvenBound
<1>5. scaled.width \in Positive /\ scaled.height \in Positive
  BY <1>1, <1>3, <1>4 DEF Positive
<1>6. mv_block_size \in Positive
  BY DEF SizesInv, Positive
<1>7. raw_mv.width \in Positive /\ raw_mv.height \in Positive
  <2>1. raw_mv = Size(DivUp(scaled.width, mv_block_size), DivUp(scaled.height, mv_block_size))
    BY DEF SizesInv, BlockCount
  <2>2. /\ DivUp(scaled.width, mv_block_size) \in Positive
        /\ DivUp(scaled.height, mv_block_size) \in Positive
    BY <1>5, <1>6, DivUpPositive
  <2> QED
    BY <2>1, <2>2 DEF Size
<1> QED
  BY <1>5, <1>7 DEF Positive

\* For every estimator and every frame, the sizes keep the limits that the constructor takes
\* and AddFrame works with.
THEOREM LimitsKept == SizesSpec => []SizesInLimits
<1>1. SizesInv => SizesInLimits
  BY MaximumHolds, MinimumHolds, PositiveHolds DEF SizesInLimits
<1> QED
  BY <1>1, SizesInvAtStart, SizesInvStep, PTL DEF SizesSpec

(***************************************************************************)
(* Places (MotionVectorSizes)                                              *)
(***************************************************************************)

PlacesInv ==
    /\ SizesInv /\ SizesTypeOK
    /\ Made => mv = BlockCount(frame, 16)

\* A grid of blocks has a size.
LEMMA BlockCountNat ==
  ASSUME NEW size \in [width : Nat, height : Nat], NEW block \in Positive
  PROVE  BlockCount(size, block) \in [width : Nat, height : Nat]
<1>1. size.width + block - 1 \in Nat /\ size.height + block - 1 \in Nat
  BY DEF Positive
<1>2. DivUp(size.width, block) \in Nat /\ DivUp(size.height, block) \in Nat
  BY <1>1, QuotientBetween DEF DivUp
<1> QED
  BY <1>2 DEF BlockCount, Size

\* The invariant of the grids holds before the constructor.
LEMMA PlacesInit == SizesInit => PlacesInv
<1> SUFFICES ASSUME SizesInit PROVE PlacesInv
  OBVIOUS
<1>1. SizesTypeOK /\ ~Made
  BY DEF SizesInit, SizesTypeOK, NoSize, Size, Made
<1> QED
  BY <1>1, SizesInvAtStart DEF PlacesInv

\* The constructor and the first frame keep it.
LEMMA PlacesStep == PlacesInv /\ [SizesNext]_size_vars => PlacesInv'
<1> SUFFICES ASSUME PlacesInv, [SizesNext]_size_vars PROVE PlacesInv'
  OBVIOUS
<1>1. SizesInv'
  BY SizesInvStep DEF PlacesInv
<1>2. CASE Construct
  <2>1. /\ range' = range /\ frame' = frame /\ scaled' = scaled /\ raw_mv' = raw_mv /\ mv' = mv
        /\ limits' = Limits(range) /\ mv_block_size' \in {8, 16}
    BY <1>2 DEF Construct
  <2>2. limits' \in [max_width : Nat, max_height : Nat, min_width : Nat, min_height : Nat]
    <3>1. range.MaxWidth \in 512 .. SideBound /\ range.MinWidth \in 1 .. SideBound
      BY SizesAssumption DEF PlacesInv, SizesInv, SizeRange
    <3>2. limits' = [max_width |-> Limits(range).max_width, max_height |-> Limits(range).max_height,
                     min_width |-> Limits(range).min_width, min_height |-> Limits(range).min_height]
      BY <2>1 DEF Limits
    <3>3. /\ Limits(range).max_width \in Nat /\ Limits(range).max_height \in Nat
          /\ Limits(range).min_width \in Nat /\ Limits(range).min_height \in Nat
      BY <3>1, LimitsBound DEF Positive
    <3> QED
      BY <3>2, <3>3
  <2> QED
    BY <1>1, <2>1, <2>2 DEF PlacesInv, SizesTypeOK, Made
<1>3. ASSUME NEW width \in Widths, NEW height \in Heights, AddFirstFrame(width, height)
      PROVE  PlacesInv'
  <2>1. /\ frame' = Size(width, height)
        /\ scaled' = ScaledSize(frame', limits)
        /\ raw_mv' = BlockCount(scaled', mv_block_size)
        /\ mv' = BlockCount(frame', 16)
        /\ range' = range /\ limits' = limits /\ mv_block_size' = mv_block_size
        /\ mv_block_size \in {8, 16}
    BY <1>3 DEF AddFirstFrame, PlacesInv, SizesInv
  <2>2. frame' \in PositiveSizes
    <3>1. width \in Positive /\ height \in Positive
      BY SizesAssumption DEF Positive
    <3> QED
      BY <2>1, <3>1 DEF Size, PositiveSizes
  <2>3. frame' \in [width : Nat, height : Nat]
    BY <2>2 DEF PositiveSizes, Positive
  <2>4. scaled' \in [width : Nat, height : Nat]
    <3> DEFINE fit == IF Below(frame', limits) THEN Fit(frame', limits.min_width, limits.min_height)
                      ELSE IF Above(frame', limits) THEN Fit(frame', limits.max_width, limits.max_height)
                      ELSE frame'
    <3>1. LimitsOK
      BY <2>1 DEF PlacesInv, SizesInv
    <3>2. fit \in [width : Nat, height : Nat]
      BY <2>2, <2>3, <3>1, FitBound DEF LimitsOK
    <3>3. scaled' = Size(Even(fit.width), Even(fit.height))
      BY <2>1, Zenon DEF ScaledSize
    <3> HIDE DEF fit
    <3> QED
      BY <3>2, <3>3, EvenBound DEF Size
  <2>5. raw_mv' \in [width : Nat, height : Nat] /\ mv' \in [width : Nat, height : Nat]
    BY <2>1, <2>3, <2>4, BlockCountNat DEF Positive
  <2> QED
    BY <1>1, <2>1, <2>3, <2>4, <2>5 DEF PlacesInv, SizesTypeOK
<1>4. CASE UNCHANGED size_vars
  BY <1>1, <1>4 DEF PlacesInv, SizesTypeOK, Made, size_vars
<1> QED
  BY <1>2, <1>3, <1>4 DEF SizesNext

\* A side that follows the other by a ratio has lost less than one of the other's.
LEMMA ScaledLoses ==
  ASSUME NEW side \in Positive, NEW limit \in Positive, NEW other \in Positive
  PROVE  \E lost \in 0 .. other - 1 : limit * side = Scaled(side, limit, other) * other + lost
<1> DEFINE q == Scaled(side, limit, other)
           r == (side * limit) % other
<1>1. side * limit \in Nat
  BY DEF Positive
<1>2. q \in Nat /\ r \in Nat /\ side * limit = other * q + r /\ r < other
  BY <1>1, Quotient DEF Scaled
<1> HIDE DEF q, r
<1>3. r \in 0 .. other - 1 /\ limit * side = q * other + r
  BY <1>2 DEF Positive
<1> QED
  BY <1>3 DEF q

\* Making both sides even moves the ratio by less than the larger side.
LEMMA RoundedAspect ==
  ASSUME NEW w \in Positive, NEW h \in Positive, NEW fw \in Nat, NEW fh \in Nat,
         NEW ew \in 0 .. 1, NEW eh \in 0 .. 1,
         NEW lost \in Int, fw * h = fh * w + lost, -h < lost, lost < w
  PROVE  /\ (fw - ew) * h - (fh - eh) * w <= 2 * Larger(w, h)
         /\ (fh - eh) * w - (fw - ew) * h <= 2 * Larger(w, h)
<1>1. (fw - ew) * h = fw * h - ew * h /\ (fh - eh) * w = fh * w - eh * w
  BY DEF Positive
<1>2. ew * h \in 0 .. h /\ eh * w \in 0 .. w
  BY DEF Positive
<1>3. fw * h \in Int /\ fh * w \in Int
  BY DEF Positive
<1>4. w <= Larger(w, h) /\ h <= Larger(w, h) /\ Larger(w, h) \in Nat
  BY DEF Larger, Positive
<1> DEFINE a == fw * h
           b == fh * w
           c == ew * h
           d == eh * w
<1> HIDE DEF a, b, c, d
<1>5. (fw - ew) * h = a - c /\ (fh - eh) * w = b - d /\ a = b + lost
  BY <1>1 DEF a, b, c, d
<1>6. a \in Int /\ b \in Int /\ c \in 0 .. h /\ d \in 0 .. w
  BY <1>2, <1>3 DEF a, b, c, d
<1> QED
  BY <1>4, <1>5, <1>6 DEF Positive

\* The side that follows loses less than one unit of the aspect.
LEMMA WantedAspect ==
  ASSUME SizesInv, Made
  PROVE  \E lost \in Int : /\ Wanted.width * frame.height = Wanted.height * frame.width + lost
                           /\ -frame.height < lost /\ lost < frame.width
<1> DEFINE w == frame.width
           h == frame.height
<1>1. w \in Positive /\ h \in Positive /\ frame \in PositiveSizes /\ LimitsOK
  BY DEF SizesInv, PositiveSizes
<1>2. ASSUME NEW lw \in Positive, NEW lh \in Positive
      PROVE  \E lost \in Int : /\ Fit(frame, lw, lh).width * h = Fit(frame, lw, lh).height * w + lost
                               /\ -h < lost /\ lost < w
  <2>1. CASE lw * h < lh * w
    <3>1. Fit(frame, lw, lh).width = lw /\ Fit(frame, lw, lh).height = Scaled(h, lw, w)
      BY <2>1 DEF Fit, Size
    <3>2. PICK lost \in 0 .. w - 1 : lw * h = Scaled(h, lw, w) * w + lost
      BY <1>1, ScaledLoses
    <3>3. lost \in Int /\ -h < lost /\ lost < w
      BY <1>1 DEF Positive
    <3> QED
      BY <3>1, <3>2, <3>3
  <2>2. CASE ~(lw * h < lh * w)
    <3>1. Fit(frame, lw, lh).width = Scaled(w, lh, h) /\ Fit(frame, lw, lh).height = lh
      BY <2>2 DEF Fit, Size
    <3>2. PICK lost \in 0 .. h - 1 : lh * w = Scaled(w, lh, h) * h + lost
      BY <1>1, ScaledLoses
    <3>3. Scaled(w, lh, h) \in Nat
      <4>1. w * lh \in Nat
        BY <1>1 DEF Positive
      <4> QED
        BY <1>1, <4>1, QuotientBetween DEF Scaled
    <3> DEFINE a == lh * w
               b == Scaled(w, lh, h) * h
    <3>4. a \in Int /\ b \in Int
      BY <1>1, <3>3 DEF Positive
    <3> HIDE DEF a, b
    <3>5. a = b + lost /\ lost \in Nat /\ lost < h /\ w \in Nat /\ h \in Nat /\ w > 0
      <4> HIDE DEF w, h
      <4> QED
        BY <1>1, <3>2 DEF a, b, Positive
    <3> HIDE DEF w, h
    <3>6. b = a + (-lost) /\ -lost \in Int /\ -h < -lost /\ -lost < w
      BY <3>4, <3>5
    <3> QED
      BY <3>1, <3>6 DEF a, b
  <2> QED
    BY <2>1, <2>2
<1>3. CASE Below(frame, limits)
  BY <1>1, <1>2, <1>3 DEF Wanted, LimitsOK
<1>4. CASE ~Below(frame, limits) /\ Above(frame, limits)
  BY <1>1, <1>2, <1>4 DEF Wanted, LimitsOK
<1>5. CASE ~Below(frame, limits) /\ ~Above(frame, limits)
  <2>1. Wanted.width = w /\ Wanted.height = h
    BY <1>5 DEF Wanted
  <2>2. w * h = h * w + 0 /\ -h < 0 /\ 0 < w
    BY <1>1 DEF Positive
  <2> QED
    BY <2>1, <2>2
<1> QED
  BY <1>3, <1>4, <1>5

\* So the scaled picture has the aspect of the frame up to its rounding.
LEMMA AspectHolds == SizesInv => AspectKept
<1> SUFFICES ASSUME SizesInv, Made
             PROVE  Distance(scaled.width * frame.height, scaled.height * frame.width)
                      <= 2 * Larger(frame.width, frame.height)
  BY DEF AspectKept
<1> DEFINE w == frame.width
           h == frame.height
           fw == Wanted.width
           fh == Wanted.height
           ew == fw % 2
           eh == fh % 2
<1>1. w \in Positive /\ h \in Positive /\ fw \in Nat /\ fh \in Nat
  BY ScaledIsEvenWanted DEF PositiveSizes
<1>2. scaled.width = Even(fw) /\ scaled.height = Even(fh)
  BY ScaledIsEvenWanted
<1>3. PICK lost \in Int : fw * h = fh * w + lost /\ -h < lost /\ lost < w
  BY WantedAspect
<1>4. /\ ew \in 0 .. 1 /\ eh \in 0 .. 1
      /\ scaled.width = fw - ew /\ scaled.height = fh - eh
  BY <1>1, <1>2 DEF Even
<1> HIDE DEF w, h, fw, fh, ew, eh
<1>5. /\ (fw - ew) * h - (fh - eh) * w <= 2 * Larger(w, h)
      /\ (fh - eh) * w - (fw - ew) * h <= 2 * Larger(w, h)
  BY <1>1, <1>3, <1>4, RoundedAspect
<1>6. (fw - ew) * h \in Int /\ (fh - eh) * w \in Int
  BY <1>1, <1>4 DEF Positive
<1>7. Distance((fw - ew) * h, (fh - eh) * w) <= 2 * Larger(w, h)
  BY <1>5, <1>6 DEF Distance
<1> QED
  BY <1>4, <1>7 DEF w, h

\* A side of an even number of pixels is written whole by groups of 16 threads.
LEMMA EvenCovered ==
  ASSUME NEW a \in Nat
  PROVE  Covers(Even(a) \div 2, 2, Even(a))
<1> DEFINE half == Even(a) \div 2
           q == DivUp(half, 16)
<1>1. half \in Nat /\ Even(a) = 2 * half
  BY DEF Even
<1> HIDE DEF half
<1>2. q * 16 >= half /\ q \in Nat
  BY <1>1 DEF DivUp
<1> HIDE DEF q
<1>3. q * 16 * 2 >= 2 * half
  BY <1>1, <1>2
<1> QED
  BY <1>1, <1>3 DEF Covers, q, half

\* The groups of the conversion cover the scaled picture.
LEMMA ConvertHolds == SizesInv => ConvertCovers
<1> SUFFICES ASSUME SizesInv, Made PROVE ConvertCovers
  BY DEF ConvertCovers
<1>1. /\ Wanted.width \in Nat /\ Wanted.height \in Nat
      /\ scaled.width = Even(Wanted.width) /\ scaled.height = Even(Wanted.height)
  BY ScaledIsEvenWanted
<1> QED
  BY <1>1, EvenCovered DEF ConvertCovers

\* The blocks of a side reach over its end by less than one.
LEMMA DivUpBetween ==
  ASSUME NEW a \in Nat, NEW b \in Positive
  PROVE  DivUp(a, b) \in Nat /\ \E over \in 0 .. b - 1 : b * DivUp(a, b) = a + over
<1> DEFINE q == DivUp(a, b)
<1>1. a + b - 1 \in Nat
  BY DEF Positive
<1>2. q \in Nat /\ b * q <= a + b - 1 /\ a + b - 1 < b * q + b
  BY <1>1, QuotientBetween DEF DivUp
<1>3. b * q \in Nat
  BY <1>2 DEF Positive
<1> DEFINE p == b * q
<1> HIDE DEF p
<1>4. p - a \in 0 .. b - 1 /\ p = a + (p - a)
  BY <1>2, <1>3 DEF p, Positive
<1> QED
  BY <1>2, <1>4 DEF p

\* Multiplying keeps the order of natural numbers.
LEMMA ProductOrder ==
  ASSUME NEW a \in Nat, NEW b \in Nat, a <= b, NEW c \in Nat
  PROVE  a * c <= b * c /\ c * a <= c * b /\ a * c \in Nat
BY SMTT(20)

\* A positive factor can be taken off an inequality.
LEMMA FactorOrder ==
  ASSUME NEW a \in Int, NEW b \in Int, NEW c \in Positive, c * a <= c * b
  PROVE  a <= b
<1>1. ~(a >= b + 1)
  BY DEF Positive
<1> QED
  BY <1>1

\* A cell of one grid and the cell of the other that is read for it are near each other: m cells
\* of 16 pixels over a side, and raw_cells of some pixels over the scaled side.
LEMMA NearbyHolds ==
  ASSUME NEW side \in Positive, NEW scaled_side \in Positive,
         NEW block \in Positive, mv_block_size = block,
         NEW cells \in Positive, NEW raw_cells \in Nat,
         NEW over \in 0 .. 15, 16 * cells = side + over,
         NEW raw_over \in 0 .. block - 1, block * raw_cells = scaled_side + raw_over,
         NEW cell \in 0 .. cells - 1
  PROVE  Nearby(cell, cells, raw_cells, side, scaled_side)
<1> DEFINE k == 2 * cell + 1
           rc == RawCell(cell, cells, raw_cells)
           X == block * side
           Y == 16 * scaled_side
           D == (2 * rc + 1) * X - k * Y
           U == raw_over * side
           V == over * scaled_side
           t == (k * raw_cells) % (2 * cells)
<1>1. k \in Nat /\ k <= 2 * cells /\ 2 * cells \in Positive /\ k * raw_cells \in Nat
  BY DEF Positive
<1>2. rc \in Nat /\ t \in Nat /\ k * raw_cells = 2 * cells * rc + t /\ t < 2 * cells
  <2> DEFINE n == k * raw_cells
             d == 2 * cells
  <2>1. n \in Nat /\ d \in Positive
    BY <1>1
  <2>2. rc = n \div d /\ t = n % d
    BY DEF RawCell
  <2> HIDE DEF n, d, rc, t
  <2>3. rc \in Nat /\ t \in Nat /\ n = d * rc + t /\ t < d
    BY <2>1, <2>2, Quotient
  <2> QED
    BY <2>3 DEF n, d
<1> HIDE DEF rc, t, k
<1>3. X \in Nat /\ Y \in Nat /\ U \in Nat /\ V \in Nat
  BY DEF Positive
<1>4. U <= X /\ V <= Y
  <2>1. raw_over \in Nat /\ block \in Nat /\ raw_over <= block /\ side \in Nat
    BY DEF Positive
  <2>2. over \in Nat /\ over <= 16 /\ scaled_side \in Nat
    BY DEF Positive
  <2> QED
    BY <2>1, <2>2, ProductOrder
<1>5. cells * D = k * U - k * V + (cells - t) * X
  <2>1. 2 * cells * rc = k * raw_cells - t
    BY <1>1, <1>2 DEF Positive
  <2>2. cells * ((2 * rc + 1) * X) = (k * raw_cells - t + cells) * X
    <3>1. cells * (2 * rc + 1) = k * raw_cells - t + cells
      BY <1>1, <1>2, <2>1 DEF Positive
    <3>2. cells * ((2 * rc + 1) * X) = (cells * (2 * rc + 1)) * X
      BY <1>2, <1>3 DEF Positive
    <3> QED
      BY <3>1, <3>2
  <2>3. (k * raw_cells) * X = k * (scaled_side * side) + k * U
    <3>1. raw_cells * X = (scaled_side + raw_over) * side
      <4>1. raw_cells * X = (block * raw_cells) * side
        BY DEF Positive
      <4> QED
        BY <4>1
    <3>2. (k * raw_cells) * X = k * (raw_cells * X)
      BY <1>1, <1>3
    <3>3. k * ((scaled_side + raw_over) * side) = k * (scaled_side * side) + k * U
      BY <1>1 DEF Positive
    <3> QED
      BY <3>1, <3>2, <3>3
  <2>4. cells * (k * Y) = k * (scaled_side * side) + k * V
    <3>1. cells * (k * Y) = k * ((16 * cells) * scaled_side)
      BY <1>1 DEF Positive
    <3>2. k * ((side + over) * scaled_side) = k * (scaled_side * side) + k * V
      BY <1>1 DEF Positive
    <3> QED
      BY <3>1, <3>2
  <2>5. cells * D = cells * ((2 * rc + 1) * X) - cells * (k * Y)
    BY <1>1, <1>2, <1>3 DEF Positive
  <2>6. (k * raw_cells - t + cells) * X = (k * raw_cells) * X + (cells - t) * X
    BY <1>1, <1>2, <1>3 DEF Positive
  <2> DEFINE e == k * (scaled_side * side)
  <2>7. e \in Int /\ k * U \in Int /\ k * V \in Int /\ (cells - t) * X \in Int
    BY <1>1, <1>2, <1>3 DEF Positive
  <2> HIDE DEF D, U, V, X, Y, e
  <2> QED
    BY <2>2, <2>3, <2>4, <2>5, <2>6, <2>7 DEF e
<1> HIDE DEF X, Y, U, V
<1>6. /\ k * U \in Nat /\ k * U <= 2 * (cells * X)
      /\ k * V \in Nat /\ k * V <= 2 * (cells * Y)
  <2>1. k * U <= (2 * cells) * U /\ (2 * cells) * U <= (2 * cells) * X /\ k * U \in Nat
    BY <1>1, <1>3, <1>4, ProductOrder DEF Positive
  <2>2. k * V <= (2 * cells) * V /\ (2 * cells) * V <= (2 * cells) * Y /\ k * V \in Nat
    BY <1>1, <1>3, <1>4, ProductOrder DEF Positive
  <2>3. (2 * cells) * X = 2 * (cells * X) /\ (2 * cells) * Y = 2 * (cells * Y)
    BY <1>3 DEF Positive
  <2>4. (2 * cells) * U \in Nat /\ (2 * cells) * V \in Nat /\ cells * X \in Nat /\ cells * Y \in Nat
    BY <1>3 DEF Positive
  <2> QED
    BY <2>1, <2>2, <2>3, <2>4
<1>7. (cells - t) * X <= cells * X /\ -(cells * X) <= (cells - t) * X
  <2>1. (cells - t) * X = cells * X - t * X
    BY <1>2, <1>3 DEF Positive
  <2>2. 0 <= t * X /\ t * X <= 2 * (cells * X) /\ t * X \in Nat /\ cells * X \in Nat
    <3>1. t * X <= (2 * cells) * X /\ t * X \in Nat
      BY <1>1, <1>2, <1>3, ProductOrder DEF Positive
    <3>2. (2 * cells) * X = 2 * (cells * X) /\ cells * X \in Nat
      BY <1>3 DEF Positive
    <3> QED
      BY <3>1, <3>2
  <2> QED
    BY <2>1, <2>2
<1>8. D \in Int
  BY <1>1, <1>2, <1>3
<1>9. cells * D <= cells * (3 * X + 2 * Y) /\ cells * (-(3 * X + 2 * Y)) <= cells * D
  <2> DEFINE p == cells * X
             q == cells * Y
             r == (cells - t) * X
             u == k * U
             v == k * V
  <2>1. p \in Nat /\ q \in Nat /\ r \in Int
    BY <1>2, <1>3 DEF Positive
  <2>2. cells * (3 * X + 2 * Y) = 3 * p + 2 * q /\ cells * (-(3 * X + 2 * Y)) = -(3 * p + 2 * q)
    BY <1>3 DEF Positive
  <2>3. cells * D = u - v + r
    BY <1>5
  <2>4. u \in Nat /\ u <= 2 * p /\ v \in Nat /\ v <= 2 * q /\ r <= p /\ -p <= r
    BY <1>6, <1>7
  <2> HIDE DEF p, q, r, u, v, D
  <2> QED
    BY <2>1, <2>2, <2>3, <2>4
<1>10. D <= 3 * X + 2 * Y /\ -(3 * X + 2 * Y) <= D
  <2> HIDE DEF D
  <2>1. 3 * X + 2 * Y \in Int /\ -(3 * X + 2 * Y) \in Int
    BY <1>3
  <2> QED
    BY <1>8, <1>9, <2>1, FactorOrder
<1>11. /\ (2 * rc + 1) * mv_block_size * side = (2 * rc + 1) * X
       /\ (2 * cell + 1) * 16 * scaled_side = k * Y
       /\ 2 * 16 * scaled_side + 3 * mv_block_size * side = 3 * X + 2 * Y
  BY <1>2 DEF X, Y, k, Positive
<1>12. (2 * rc + 1) * X \in Int /\ k * Y \in Int
  BY <1>1, <1>2, <1>3
<1> DEFINE g == (2 * rc + 1) * X
           f == k * Y
<1>13. Distance(g, f) <= 3 * X + 2 * Y
  <2>1. g - f <= 3 * X + 2 * Y /\ -(3 * X + 2 * Y) <= g - f
    BY <1>10
  <2>2. g \in Int /\ f \in Int
    BY <1>12
  <2> HIDE DEF g, f
  <2> QED
    BY <1>3, <2>1, <2>2 DEF Distance
<1>14. Distance((2 * rc + 1) * mv_block_size * side, (2 * cell + 1) * 16 * scaled_side)
         <= 2 * 16 * scaled_side + 3 * mv_block_size * side
  BY <1>11, <1>13
<1> QED
  BY <1>14, Zenon DEF Nearby, rc

\* The vector that is looked up for a block comes from nearby.
LEMMA NearbyFound == PlacesInv => VectorsFromNearby
<1> SUFFICES ASSUME PlacesInv, Made, scaled.width > 0, scaled.height > 0 PROVE VectorsFromNearby
  BY DEF VectorsFromNearby
<1>1. /\ frame.width \in Positive /\ frame.height \in Positive
      /\ scaled.width \in Positive /\ scaled.height \in Positive
      /\ mv_block_size \in Positive
  BY DEF PlacesInv, SizesInv, SizesTypeOK, PositiveSizes, Positive
<1>2. /\ mv.width = DivUp(frame.width, 16) /\ mv.height = DivUp(frame.height, 16)
      /\ raw_mv.width = DivUp(scaled.width, mv_block_size)
      /\ raw_mv.height = DivUp(scaled.height, mv_block_size)
  BY DEF PlacesInv, SizesInv, BlockCount, Size
<1>3. ASSUME NEW side \in Positive, NEW scaled_side \in Positive,
             NEW cell \in 0 .. DivUp(side, 16) - 1
      PROVE  Nearby(cell, DivUp(side, 16), DivUp(scaled_side, mv_block_size), side, scaled_side)
  <2> DEFINE cells == DivUp(side, 16)
             raw_cells == DivUp(scaled_side, mv_block_size)
  <2>1. side \in Nat /\ scaled_side \in Nat /\ 16 \in Positive /\ 16 - 1 = 15
    BY DEF Positive
  <2>2. cells \in Positive
    BY <2>1, DivUpPositive
  <2>3. PICK over \in 0 .. 15 : 16 * cells = side + over
    BY <2>1, DivUpBetween
  <2>4. /\ raw_cells \in Nat
        /\ \E rest \in 0 .. mv_block_size - 1 : mv_block_size * raw_cells = scaled_side + rest
    BY <1>1, <2>1, DivUpBetween
  <2>5. PICK raw_over \in 0 .. mv_block_size - 1 : mv_block_size * raw_cells = scaled_side + raw_over
    BY <2>4
  <2>6. cell \in 0 .. cells - 1
    OBVIOUS
  <2> HIDE DEF cells, raw_cells
  <2>7. Nearby(cell, cells, raw_cells, side, scaled_side)
    BY <1>1, <2>2, <2>3, <2>4, <2>5, <2>6, NearbyHolds
  <2> QED
    BY <2>7 DEF cells, raw_cells
<1> QED
  BY <1>1, <1>2, <1>3 DEF VectorsFromNearby

\* For every estimator and every frame, the scaled picture has the frame's aspect and is
\* converted whole, and the vectors that the shaders look up for a block of the frame come
\* from near it, although every grid is rounded by itself (AddFrame, RgbToNv12 and the
\* neighbour-max shader).
THEOREM VectorsOfPlaces == SizesSpec => []VectorsMatchPlaces
<1>1. PlacesInv => VectorsMatchPlaces
  BY AspectHolds, ConvertHolds, NearbyFound DEF PlacesInv, VectorsMatchPlaces
<1> QED
  BY <1>1, PlacesInit, PlacesStep, PTL DEF SizesSpec

(***************************************************************************)
(* Groups (NeighborMax)                                                    *)
(***************************************************************************)

GroupSize == BlockDim * BlockDim

\* The sizes of a group, its tile and its threads are positive.
LEMMA GroupSizes ==
  /\ BlockDim \in Positive /\ KernelRadius \in Nat
  /\ TileDim \in Positive /\ TileDim = BlockDim + 2 * KernelRadius
  /\ GroupSize \in Positive /\ TileCells \in Nat
  /\ Threads = 0 .. GroupSize - 1
<1>1. BlockDim \in Positive /\ KernelRadius \in Nat
  BY GroupAssumption DEF Positive
<1>2. TileDim \in Positive /\ TileDim = BlockDim + 2 * KernelRadius
  BY <1>1 DEF TileDim, Positive
<1>3. GroupSize \in Positive
  BY <1>1 DEF GroupSize, Positive
<1>4. TileCells \in Nat
  BY <1>2 DEF TileCells, Positive
<1> QED
  BY <1>1, <1>2, <1>3, <1>4 DEF Threads, GroupSize

\* The cells of the tile are numbered row by row.
LEMMA CellInTile ==
  ASSUME NEW i \in Nat, i < TileCells
  PROVE  TileCell(i) \in Tile
<1>1. i % TileDim \in 0 .. TileDim - 1
  BY GroupSizes, Quotient DEF Positive
<1>2. i \div TileDim \in Nat /\ i \div TileDim < TileDim
  BY GroupSizes, Quotient, QuotientBound DEF Positive, TileCells
<1> QED
  BY <1>1, <1>2, GroupSizes DEF TileCell, Tile, Positive

\* Two numbers are of two cells of the tile.
LEMMA CellsDiffer ==
  ASSUME NEW i \in Nat, NEW j \in Nat, TileCell(i) = TileCell(j)
  PROVE  i = j
<1>1. i % TileDim = j % TileDim /\ i \div TileDim = j \div TileDim
  BY DEF TileCell
<1>2. i = TileDim * (i \div TileDim) + (i % TileDim)
  BY GroupSizes, Quotient
<1>3. j = TileDim * (j \div TileDim) + (j % TileDim)
  BY GroupSizes, Quotient
<1> QED
  BY <1>1, <1>2, <1>3

\* Each cell of the tile has a number.
LEMMA CellNumbered ==
  ASSUME NEW column \in Nat, column < TileDim, NEW row \in Nat, row < TileDim
  PROVE  \E i \in Nat : i < TileCells /\ TileCell(i) = <<column, row>>
<1> DEFINE i == row * TileDim + column
<1>1. i \in Nat /\ i < TileCells
  <2>1. TileDim \in Nat /\ row * TileDim \in Nat
    BY GroupSizes DEF Positive
  <2>2. (row + 1) * TileDim <= TileDim * TileDim
    BY GroupSizes DEF Positive
  <2>3. (row + 1) * TileDim = row * TileDim + TileDim
    BY <2>1
  <2> QED
    BY <2>1, <2>2, <2>3 DEF TileCells
<1>2. i \div TileDim = row /\ i % TileDim = column
  BY GroupSizes, QuotientUnique
<1> QED
  BY <1>1, <1>2 DEF TileCell

(***************************************************************************)
(* The tile                                                                *)
(***************************************************************************)

\* Each cell belongs to the thread that has its number by the size of the group, and a
\* cell that its thread has passed holds the vector of its place.
LoadInv ==
  /\ next \in [Threads -> Nat]
  /\ \A gi \in Threads : next[gi] % GroupSize = gi
  /\ DOMAIN sh_mv_tile = Tile
  /\ \A i \in Nat : i < TileCells /\ i < next[i % GroupSize]
       => sh_mv_tile[TileCell(i)] = LoadVector(CoordOf(TileCell(i)))

GroupInv ==
  /\ gid \in Nat \X Nat
  /\ LoadInv
  /\ OwnVector

\* Each cell has a thread that loads it.
LEMMA ThreadOf ==
  ASSUME NEW i \in Nat
  PROVE  i % GroupSize \in Threads
BY GroupSizes, Quotient DEF Positive

\* Two numbers of one thread are a whole number of rounds apart.
LEMMA RoundsApart ==
  ASSUME NEW i \in Nat, NEW j \in Nat, i % GroupSize = j % GroupSize, i < j + GroupSize, i # j
  PROVE  i < j
<1> DEFINE p == i \div GroupSize
           q == j \div GroupSize
           r == i % GroupSize
<1>1. p \in Nat /\ r \in Nat /\ i = GroupSize * p + r
  BY GroupSizes, Quotient
<1>2. q \in Nat /\ j = GroupSize * q + r
  BY GroupSizes, Quotient
<1> HIDE DEF p, q, r
<1>3. ~(p >= q + 1)
  BY <1>1, <1>2, GroupSizes DEF Positive
<1>4. p # q
  BY <1>1, <1>2
<1>5. p + 1 <= q
  BY <1>1, <1>2, <1>3, <1>4
<1> QED
  BY <1>1, <1>2, <1>5, GroupSizes DEF Positive

\* A thread goes on with the cells of its own residue.
LEMMA NextRound ==
  ASSUME NEW i \in Nat
  PROVE  (i + GroupSize) % GroupSize = i % GroupSize
<1> DEFINE q == i \div GroupSize
           r == i % GroupSize
<1>1. q \in Nat /\ r \in Nat /\ r < GroupSize /\ i = GroupSize * q + r
  BY GroupSizes, Quotient
<1> HIDE DEF q, r
<1>2. i + GroupSize = (q + 1) * GroupSize + r
  BY <1>1, GroupSizes DEF Positive
<1>3. ((q + 1) * GroupSize + r) % GroupSize = r
  <2>1. q + 1 \in Nat /\ GroupSize \in Positive
    BY <1>1, GroupSizes
  <2>2. \A row \in Nat : (row * GroupSize + r) % GroupSize = r
    BY <1>1, <2>1, QuotientUnique
  <2> QED
    BY <2>1, <2>2
<1> QED
  BY <1>2, <1>3 DEF r

\* A load fills the cell it is for and leaves the rest of the tile.
LEMMA LoadsKeep ==
  ASSUME LoadInv, NEW gi \in Threads, Load(gi)
  PROVE  LoadInv'
<1> DEFINE n == next[gi]
<1>1. n \in Nat /\ n < TileCells /\ n % GroupSize = gi
  BY DEF LoadInv, Load
<1>2. /\ next' = [next EXCEPT ![gi] = n + GroupSize]
      /\ sh_mv_tile' = [sh_mv_tile EXCEPT ![TileCell(n)] = LoadVector(CoordOf(TileCell(n)))]
      /\ UNCHANGED <<grid, gid, raw>>
  BY DEF Load, LoadRound, GroupSize
<1>3. next' \in [Threads -> Nat]
  BY <1>1, <1>2, GroupSizes DEF LoadInv, Positive
<1>4. ASSUME NEW other \in Threads
      PROVE  next'[other] % GroupSize = other
  BY <1>1, <1>2, NextRound DEF LoadInv
<1>5. DOMAIN sh_mv_tile' = Tile
  BY <1>2 DEF LoadInv
<1>6. \A coord : LoadVector(coord)' = LoadVector(coord)
  BY <1>2 DEF LoadVector, InputCoord
<1>7. \A cell : CoordOf(cell)' = CoordOf(cell)
  BY <1>2 DEF CoordOf, StartCoord
<1>8. ASSUME NEW i \in Nat, i < TileCells, i < next'[i % GroupSize]
      PROVE  sh_mv_tile'[TileCell(i)] = LoadVector(CoordOf(TileCell(i)))
  <2>1. TileCell(i) \in Tile /\ TileCell(n) \in Tile
    BY <1>1, <1>8, CellInTile
  <2>2. CASE i = n
    BY <1>2, <2>1, <2>2 DEF LoadInv
  <2>3. CASE i # n
    <3>1. TileCell(i) # TileCell(n)
      BY <1>1, <2>3, CellsDiffer
    <3>2. i < next[i % GroupSize]
      <4>1. CASE i % GroupSize = gi
        <5>1. i < n + GroupSize
          BY <1>2, <1>8, <4>1 DEF LoadInv
        <5> QED
          BY <1>1, <2>3, <4>1, <5>1, RoundsApart
      <4>2. CASE i % GroupSize # gi
        BY <1>2, <1>8, <4>2, ThreadOf DEF LoadInv
      <4> QED
        BY <4>1, <4>2
    <3> HIDE DEF n
    <3> QED
      BY <1>2, <1>8, <2>1, <3>1, <3>2 DEF LoadInv
  <2> QED
    BY <2>2, <2>3
<1>9. ASSUME NEW i \in Nat, i < TileCells, i < next'[i % GroupSize]
      PROVE  sh_mv_tile'[TileCell(i)] = LoadVector(CoordOf(TileCell(i)))'
  <2>1. TileCell(i)' = TileCell(i)
    BY DEF TileCell
  <2>2. LoadVector(CoordOf(TileCell(i)))' = LoadVector(CoordOf(TileCell(i)))
    BY <1>2 DEF LoadVector, InputCoord, CoordOf, StartCoord, TileCell
  <2> QED
    BY <1>8, <1>9, <2>2
<1> QED
  BY <1>3, <1>4, <1>5, <1>9 DEF LoadInv, TileCell

(***************************************************************************)
(* Behind the barrier                                                      *)
(***************************************************************************)

\* The cell in the middle of what a thread looks at is its own place.
LEMMA CenterIsOwn ==
  ASSUME NEW gi \in Threads, gid \in Nat \X Nat
  PROVE  /\ \E i \in Nat : i < TileCells /\ TileCell(i) = Center(gi)
         /\ CoordOf(Center(gi)) = Dtid(gi)
<1> DEFINE x == gi % BlockDim
           b == gi \div BlockDim
<1>1. gi \in Nat /\ gi < BlockDim * BlockDim
  BY GroupSizes DEF Threads, GroupSize, Positive
<1>2. x \in Nat /\ x < BlockDim /\ b \in Nat
  BY <1>1, GroupSizes, Quotient
<1>3. b < BlockDim
  BY <1>1, GroupSizes, QuotientBound DEF Positive
<1>4. Center(gi) = <<x + KernelRadius, b + KernelRadius>>
  BY DEF Center, Gtid
<1>5. CoordOf(Center(gi)) = Dtid(gi)
  <2>1. gid[1] * BlockDim \in Int /\ gid[2] * BlockDim \in Int
    BY GroupSizes DEF Positive
  <2>2. Dtid(gi) = <<gid[1] * BlockDim + x, gid[2] * BlockDim + b>>
    BY DEF Dtid, Gtid
  <2>3. CoordOf(Center(gi)) = <<gid[1] * BlockDim - KernelRadius + (x + KernelRadius),
                                gid[2] * BlockDim - KernelRadius + (b + KernelRadius)>>
    BY <1>4 DEF CoordOf, StartCoord
  <2>4. \A base \in Int, side \in Nat :
          base - KernelRadius + (side + KernelRadius) = base + side
    BY GroupSizes
  <2> HIDE DEF x, b
  <2>5. /\ gid[1] * BlockDim - KernelRadius + (x + KernelRadius) = gid[1] * BlockDim + x
        /\ gid[2] * BlockDim - KernelRadius + (b + KernelRadius) = gid[2] * BlockDim + b
    BY <1>2, <2>1, <2>4
  <2> QED
    BY <2>2, <2>3, <2>5, Zenon
<1> HIDE DEF x, b
<1>6. /\ x + KernelRadius \in Nat /\ x + KernelRadius < TileDim
      /\ b + KernelRadius \in Nat /\ b + KernelRadius < TileDim
  BY <1>2, <1>3, GroupSizes DEF Positive
<1> QED
  BY <1>4, <1>5, <1>6, CellNumbered

\* Behind the barrier every cell of the tile holds the vector of its place.
LEMMA TileLoaded ==
  ASSUME LoadInv, NEW gi \in Threads, PastBarrier(gi), NEW i \in Nat, i < TileCells
  PROVE  sh_mv_tile[TileCell(i)] = LoadVector(CoordOf(TileCell(i)))
<1>1. i % GroupSize \in Threads
  BY ThreadOf
<1>2. next[i % GroupSize] >= TileCells /\ next[i % GroupSize] \in Nat
  BY <1>1 DEF PastBarrier, LoadInv
<1> QED
  BY <1>2, GroupSizes DEF LoadInv

\* The invariant of a group holds before the first load.
LEMMA InitCorrect == GroupInit => GroupInv
<1> SUFFICES ASSUME GroupInit PROVE GroupInv
  OBVIOUS
<1>1. gid \in Nat \X Nat
  BY GroupAssumption DEF GroupInit, Groups
<1>2. next \in [Threads -> Nat] /\ \A gi \in Threads : next[gi] = gi
  BY GroupSizes DEF GroupInit, Positive
<1>3. \A gi \in Threads : next[gi] % GroupSize = gi
  BY <1>2, GroupSizes DEF Positive
<1>4. ASSUME NEW i \in Nat, i < next[i % GroupSize]
      PROVE  FALSE
  <2>1. next[i % GroupSize] = i % GroupSize
    BY <1>2, ThreadOf
  <2> DEFINE q == i \div GroupSize
             r == i % GroupSize
  <2>2. q \in Nat /\ r \in Nat /\ i = GroupSize * q + r
    BY GroupSizes, Quotient
  <2>3. i < r
    BY <1>4, <2>1
  <2> HIDE DEF q, r
  <2> QED
    BY <2>2, <2>3, GroupSizes DEF Positive
<1>5. DOMAIN sh_mv_tile = Tile /\ DOMAIN motion_vector_tex = {}
  BY DEF GroupInit
<1> QED
  BY <1>1, <1>2, <1>3, <1>4, <1>5 DEF GroupInv, LoadInv, OwnVector

\* A load keeps it: behind the barrier the tile is whole.
LEMMA LoadCorrect == ASSUME GroupInv, NEW gi \in Threads, Load(gi) PROVE GroupInv'
<1>1. LoadInv'
  BY LoadsKeep DEF GroupInv
<1>2. UNCHANGED <<grid, gid, raw, motion_vector_tex>>
  BY DEF Load, LoadRound
<1>3. OwnVector'
  BY <1>2 DEF GroupInv, OwnVector, LoadVector, InputCoord
<1> QED
  BY <1>1, <1>2, <1>3 DEF GroupInv

\* A write keeps it: each block gets the vector of its own cell.
LEMMA WriteCorrect == ASSUME GroupInv, NEW gi \in Threads, Write(gi) PROVE GroupInv'
<1>1. UNCHANGED <<grid, gid, raw, next, sh_mv_tile>>
  BY DEF Write
<1>2. LoadInv'
  BY <1>1 DEF GroupInv, LoadInv, LoadVector, InputCoord, CoordOf, StartCoord, TileCell
<1>3. sh_mv_tile[Center(gi)] = LoadVector(Dtid(gi))
  <2>1. PICK i \in Nat : i < TileCells /\ TileCell(i) = Center(gi)
    BY CenterIsOwn DEF GroupInv
  <2>2. CoordOf(Center(gi)) = Dtid(gi)
    BY CenterIsOwn DEF GroupInv
  <2>3. PastBarrier(gi)
    BY DEF Write
  <2>4. sh_mv_tile[TileCell(i)] = LoadVector(CoordOf(TileCell(i)))
    BY <2>1, <2>3, TileLoaded DEF GroupInv
  <2> QED
    BY <2>1, <2>2, <2>4
<1>4. ASSUME NEW block \in DOMAIN motion_vector_tex'
      PROVE  motion_vector_tex'[block] = LoadVector(block)
  <2>1. motion_vector_tex' = Written(motion_vector_tex, Dtid(gi), sh_mv_tile[Center(gi)])
    BY DEF Write
  <2>2. CASE block = Dtid(gi)
    BY <1>3, <2>1, <2>2 DEF Written
  <2>3. CASE block # Dtid(gi)
    <3>1. block \in DOMAIN motion_vector_tex
      BY <2>1, <2>3 DEF Written
    <3>2. motion_vector_tex'[block] = motion_vector_tex[block]
      BY <2>1, <2>3 DEF Written
    <3> QED
      BY <3>1, <3>2 DEF GroupInv, OwnVector
  <2> QED
    BY <2>2, <2>3
<1>5. OwnVector'
  BY <1>1, <1>4 DEF OwnVector, LoadVector, InputCoord
<1> QED
  BY <1>1, <1>2, <1>5 DEF GroupInv

\* A block gets the vector of its own place, in whatever order the threads of the group load
\* and write: the barrier is enough, for groups and margins of every size
\* (MotionBlurNeighborMaxCs.hlsl).
THEOREM OwnVectorCorrect == GroupSpec => []OwnVector
<1>1. GroupInit => GroupInv
  BY InitCorrect
<1>2. GroupInv /\ [GroupNext]_group_vars => GroupInv'
  <2> SUFFICES ASSUME GroupInv, [GroupNext]_group_vars PROVE GroupInv'
    OBVIOUS
  <2>1. CASE \E gi \in Threads : Load(gi) \/ Write(gi)
    BY <2>1, LoadCorrect, WriteCorrect
  <2>2. CASE UNCHANGED group_vars
    BY <2>2 DEF group_vars, GroupInv, LoadInv, OwnVector, LoadVector, InputCoord, CoordOf,
                StartCoord, TileCell
  <2> QED
    BY <2>1, <2>2 DEF GroupNext
<1>3. GroupInv => OwnVector
  BY DEF GroupInv
<1> QED
  BY <1>1, <1>2, <1>3, PTL DEF GroupSpec

(***************************************************************************)
(* The largest vector                                                      *)
(***************************************************************************)

Vector == Int \X Int
KernelSize == Len(Offsets)

\* The loops over neighbours stay within the radius of the kernel.
LEMMA OffsetFacts ==
  /\ KernelSize \in Nat /\ DOMAIN Offsets = 1 .. KernelSize
  /\ \A n \in 1 .. KernelSize :
       /\ Offsets[n] = <<Offsets[n][1], Offsets[n][2]>>
       /\ Offsets[n][1] \in Int /\ -KernelRadius <= Offsets[n][1] /\ Offsets[n][1] <= KernelRadius
       /\ Offsets[n][2] \in Int /\ -KernelRadius <= Offsets[n][2] /\ Offsets[n][2] <= KernelRadius
<1> DEFINE K == KernelDim
<1>1. K \in Positive /\ K = 2 * KernelRadius + 1 /\ KernelRadius \in Nat
  BY GroupSizes DEF KernelDim, Positive
<1>2. K * K \in Nat
  <2> HIDE DEF K
  <2> QED
    BY <1>1 DEF Positive
<1>3. Offsets = [n \in 1 .. K * K |-> <<((n - 1) \div K) - KernelRadius, ((n - 1) % K) - KernelRadius>>]
  BY DEF Offsets
<1> HIDE DEF K
<1>4. KernelSize = K * K /\ DOMAIN Offsets = 1 .. K * K
  BY <1>2, <1>3 DEF KernelSize
<1>5. ASSUME NEW n \in 1 .. K * K
      PROVE  /\ Offsets[n] = <<Offsets[n][1], Offsets[n][2]>>
             /\ Offsets[n][1] \in Int /\ -KernelRadius <= Offsets[n][1] /\ Offsets[n][1] <= KernelRadius
             /\ Offsets[n][2] \in Int /\ -KernelRadius <= Offsets[n][2] /\ Offsets[n][2] <= KernelRadius
  <2> DEFINE q == (n - 1) \div K
             r == (n - 1) % K
  <2>1. n - 1 \in Nat /\ n - 1 < K * K /\ K \in Nat
    BY <1>1, <1>2 DEF Positive
  <2>2. q \in Nat /\ r \in Nat /\ r < K
    BY <1>1, <2>1, Quotient
  <2>3. q < K
    BY <1>1, <2>1, QuotientBound
  <2>4. Offsets[n] = <<q - KernelRadius, r - KernelRadius>>
    BY <1>3
  <2> HIDE DEF q, r
  <2> QED
    BY <1>1, <2>2, <2>3, <2>4
<1> QED
  BY <1>2, <1>4, <1>5

\* The length of a vector is a number.
LEMMA Magnitudes ==
  ASSUME NEW v \in Vector
  PROVE  MagnitudeSquared(v) \in Int
BY DEF Vector, MagnitudeSquared

\* Does the vector at the offset of this number count?
Counts(tile, cell, n) == Along(Offsets[n][1], Offsets[n][2], Neighbor(tile, cell, Offsets[n]))

\* The loops find a largest one of the vectors that count.
LEMMA LargestFound ==
  ASSUME NEW tile, NEW cell, \A n \in 1 .. KernelSize : Neighbor(tile, cell, Offsets[n]) \in Vector
  PROVE  /\ \/ MaxMv(tile, cell) = Zero
            \/ \E n \in 1 .. KernelSize : /\ Counts(tile, cell, n)
                                          /\ MaxMv(tile, cell) = Neighbor(tile, cell, Offsets[n])
         /\ \A n \in 1 .. KernelSize : Counts(tile, cell, n) =>
              MagnitudeSquared(Neighbor(tile, cell, Offsets[n])) <= MagnitudeSquared(MaxMv(tile, cell))
<1> DEFINE N == KernelSize
           Near(n) == Neighbor(tile, cell, Offsets[n])
           Round(n, v) == LargerOf(tile, cell, Offsets[n], v)
           rounds == [p \in (1 .. N) \X Vector |-> Round(p[1], p[2])]
           Loop(f) == [n \in 0 .. N |-> IF n = 0 THEN Zero ELSE rounds[<<n, f[n - 1]>>]]
           max_mv == CHOOSE f : f = Loop(f)
<1>0. N \in Nat /\ Zero \in Vector
  BY OffsetFacts DEF Zero, Vector
<1>1. ASSUME NEW n \in 1 .. N, NEW v \in Vector
      PROVE  /\ Round(n, v) \in Vector
             /\ Round(n, v) = v \/ (Counts(tile, cell, n) /\ Round(n, v) = Near(n))
             /\ MagnitudeSquared(v) <= MagnitudeSquared(Round(n, v))
             /\ Counts(tile, cell, n) => MagnitudeSquared(Near(n)) <= MagnitudeSquared(Round(n, v))
  <2>1. Near(n) \in Vector /\ MagnitudeSquared(Near(n)) \in Int /\ MagnitudeSquared(v) \in Int
    BY Magnitudes
  <2>2. Round(n, v) = IF MagnitudeSquared(v) < MagnitudeSquared(Near(n)) /\ Counts(tile, cell, n)
                        THEN Near(n) ELSE v
    BY Zenon DEF LargerOf, Counts
  <2> HIDE DEF Near, Round
  <2> QED
    BY <2>1, <2>2
<1> HIDE DEF Round, Near
<1>2. rounds \in [(1 .. N) \X Vector -> Vector]
  BY <1>1
<1>3. max_mv = Loop(max_mv)
  <2>1. PICK f \in [0 .. N -> Vector] : Loops!Iterates(f, N, Zero, rounds)
    <3> HIDE DEF N, rounds
    <3> QED
      BY <1>0, <1>2, Loops!Iteration
  <2>2. f = Loop(f)
    <3> HIDE DEF rounds
    <3> QED
      BY <2>1 DEF Loops!Iterates
  <2> QED
    BY <2>2, Zenon
<1>4. max_mv[0] = Zero /\ \A k \in Nat : k + 1 <= N => max_mv[k + 1] = rounds[<<k + 1, max_mv[k]>>]
  <2> HIDE DEF max_mv, rounds
  <2>1. max_mv[0] = Zero
    BY <1>0, <1>3
  <2>2. ASSUME NEW k \in Nat, k + 1 <= N PROVE max_mv[k + 1] = rounds[<<k + 1, max_mv[k]>>]
    <3>1. k + 1 \in 0 .. N /\ k + 1 # 0 /\ (k + 1) - 1 = k
      BY <1>0, <2>2
    <3> QED
      BY <1>3, <3>1
  <2> QED
    BY <2>1, <2>2
<1>5. MaxMv(tile, cell) = max_mv[N]
  BY Zenon DEF MaxMv, max_mv, rounds, Round, KernelSize, Vector
<1> HIDE DEF max_mv
\* After k rounds it is one of the first k.
<1> DEFINE Largest(k) ==
             /\ max_mv[k] \in Vector
             /\ max_mv[k] = Zero \/ \E n \in 1 .. k : Counts(tile, cell, n) /\ max_mv[k] = Near(n)
             /\ \A n \in 1 .. k : Counts(tile, cell, n) =>
                  MagnitudeSquared(Near(n)) <= MagnitudeSquared(max_mv[k])
           Good == {k \in Nat : k <= N => Largest(k)}
<1>6. 0 \in Good
  BY <1>0, <1>4
<1>7. \A k \in Nat : k \in Good => k + 1 \in Good
  <2> SUFFICES ASSUME NEW k \in Nat, k + 1 <= N, Largest(k) PROVE Largest(k + 1)
    BY <1>0
  <2> DEFINE v == max_mv[k]
             w == max_mv[k + 1]
  <2>1. k + 1 \in 1 .. N
    BY <1>0
  <2>2. /\ w \in Vector /\ v \in Vector
        /\ w = v \/ (Counts(tile, cell, k + 1) /\ w = Near(k + 1))
        /\ MagnitudeSquared(v) <= MagnitudeSquared(w)
        /\ Counts(tile, cell, k + 1) => MagnitudeSquared(Near(k + 1)) <= MagnitudeSquared(w)
    <3>1. v \in Vector /\ w = rounds[<<k + 1, v>>]
      BY <1>4
    <3>2. w = Round(k + 1, v)
      BY <2>1, <3>1
    <3> HIDE DEF v, w
    <3> QED
      BY <1>1, <2>1, <3>1, <3>2
  <2>3. /\ v = Zero \/ \E n \in 1 .. k : Counts(tile, cell, n) /\ v = Near(n)
        /\ \A n \in 1 .. k : Counts(tile, cell, n) => MagnitudeSquared(Near(n)) <= MagnitudeSquared(v)
    OBVIOUS
  <2>4. \A n \in 1 .. k + 1 : n \in 1 .. k \/ n = k + 1
    OBVIOUS
  <2>5. \A n \in 1 .. k : n \in 1 .. k + 1 /\ n \in 1 .. N
    BY <1>0, <2>1
  <2>6. MagnitudeSquared(v) \in Int /\ MagnitudeSquared(w) \in Int
    BY <2>2, Magnitudes
  <2>7. \A n \in 1 .. N : MagnitudeSquared(Near(n)) \in Int
    BY Magnitudes DEF Near
  <2> HIDE DEF v, w, Counts, Near
  <2>8. w = Zero \/ \E n \in 1 .. k + 1 : Counts(tile, cell, n) /\ w = Near(n)
    BY <2>2, <2>3, <2>5, k + 1 \in 1 .. k + 1
  <2>9. ASSUME NEW n \in 1 .. k + 1, Counts(tile, cell, n)
        PROVE  MagnitudeSquared(Near(n)) <= MagnitudeSquared(w)
    <3>1. CASE n \in 1 .. k
      <4>1. MagnitudeSquared(Near(n)) <= MagnitudeSquared(v) /\ MagnitudeSquared(Near(n)) \in Int
        BY <2>3, <2>5, <2>7, <2>9, <3>1
      <4> QED
        BY <2>2, <2>6, <4>1
    <3>2. CASE n = k + 1
      BY <2>2, <2>9, <3>2
    <3> QED
      BY <2>4, <3>1, <3>2
  <2> QED
    BY <2>2, <2>8, <2>9 DEF w
<1>8. Largest(N)
  <2>1. N \in Good
    <3> HIDE DEF Good, N
    <3> QED
      BY <1>0, <1>6, <1>7, Loops!NatSetInduction
  <2> QED
    BY <1>0, <2>1
<1> QED
  BY <1>5, <1>8 DEF Near

(***************************************************************************)
(* No seams                                                                *)
(***************************************************************************)

FieldOK == grid \in Grids /\ raw \in [RawCells(grid) -> Vector]

\* What a cell of the texture may have: no vector, or one of the estimator's.
Loaded == {Zero} \cup {raw[c] : c \in DOMAIN raw}

\* The coordinate that is looked up is not negative, also left of the texture.
LEMMA InputCoordNat ==
  ASSUME NEW coord \in Int, NEW side \in Positive, NEW raw_side \in Positive
  PROVE  InputCoord(coord, side, raw_side) \in Nat
<1>1. CASE coord < 0
  BY <1>1 DEF InputCoord, Positive
<1>2. CASE ~(coord < 0)
  <2>1. (2 * coord + 1) * raw_side \in Nat /\ 2 * side \in Positive
    BY <1>2 DEF Positive
  <2>2. ((2 * coord + 1) * raw_side) \div (2 * side) \in Nat
    BY <2>1, QuotientBetween
  <2> QED
    BY <1>2, <2>2 DEF InputCoord
<1> QED
  BY <1>1, <1>2

\* What is loaded is a vector of the field, or zero outside of it.
LEMMA LoadsVectors ==
  ASSUME FieldOK, NEW x \in Int, NEW b \in Int
  PROVE  LoadVector(<<x, b>>) \in Vector /\ LoadVector(<<x, b>>) \in Loaded
<1> DEFINE u == InputCoord(x, grid.width, grid.raw_width)
           v == InputCoord(b, grid.height, grid.raw_height)
<1>1. /\ grid.width \in Positive /\ grid.height \in Positive
      /\ grid.raw_width \in Positive /\ grid.raw_height \in Positive
  BY GroupAssumption DEF FieldOK, Positive
<1>2. u \in Nat /\ v \in Nat
  BY <1>1, InputCoordNat
<1>3. LoadVector(<<x, b>>) =
        IF u = 0 \/ v = 0 \/ u >= grid.raw_width - 1 \/ v >= grid.raw_height - 1 THEN Zero
        ELSE raw[<<u, v>>]
  BY DEF LoadVector
<1> HIDE DEF u, v
<1>4. ASSUME u < grid.raw_width - 1, v < grid.raw_height - 1
      PROVE  <<u, v>> \in DOMAIN raw /\ raw[<<u, v>>] \in Vector
  <2>1. <<u, v>> \in RawCells(grid)
    BY <1>1, <1>2, <1>4 DEF RawCells, Positive
  <2> QED
    BY <2>1 DEF FieldOK
<1>5. Zero \in Vector
  BY DEF Zero, Vector
<1>6. CASE u >= grid.raw_width - 1 \/ v >= grid.raw_height - 1
  BY <1>3, <1>5, <1>6 DEF Loaded
<1>7. CASE ~(u >= grid.raw_width - 1 \/ v >= grid.raw_height - 1)
  BY <1>1, <1>2, <1>3, <1>4, <1>5, <1>7 DEF Loaded, Positive
<1> QED
  BY <1>6, <1>7

\* The vector at an offset from a block, on the whole texture.
At(block, n) == LoadVector(<<block[1] + Offsets[n][1], block[2] + Offsets[n][2]>>)

\* Behind the barrier, a thread finds around its cell the vectors around its block.
LEMMA NeighborFound ==
  ASSUME GroupInv, FieldOK, NEW gi \in Threads, PastBarrier(gi), NEW n \in 1 .. KernelSize
  PROVE  /\ Neighbor(sh_mv_tile, Center(gi), Offsets[n]) = At(Dtid(gi), n)
         /\ At(Dtid(gi), n) \in Vector
<1> DEFINE x == gi % BlockDim
           b == gi \div BlockDim
           s == Offsets[n][1]
           t == Offsets[n][2]
<1>1. gi \in Nat /\ gi < BlockDim * BlockDim
  BY GroupSizes DEF Threads, GroupSize, Positive
<1>2. x \in Nat /\ x < BlockDim /\ b \in Nat
  BY <1>1, GroupSizes, Quotient
<1>3. b < BlockDim
  BY <1>1, GroupSizes, QuotientBound DEF Positive
<1>4. /\ s \in Int /\ -KernelRadius <= s /\ s <= KernelRadius
      /\ t \in Int /\ -KernelRadius <= t /\ t <= KernelRadius
  BY OffsetFacts
<1>5. Center(gi) = <<x + KernelRadius, b + KernelRadius>>
  BY DEF Center, Gtid
<1>6. gid[1] * BlockDim \in Int /\ gid[2] * BlockDim \in Int
  BY GroupSizes DEF GroupInv, Positive
<1>7. Dtid(gi) = <<gid[1] * BlockDim + x, gid[2] * BlockDim + b>>
  BY DEF Dtid, Gtid
<1>8. Neighbor(sh_mv_tile, Center(gi), Offsets[n])
        = sh_mv_tile[<<x + KernelRadius + s, b + KernelRadius + t>>]
  BY <1>5 DEF Neighbor
<1>9. At(Dtid(gi), n) = LoadVector(<<gid[1] * BlockDim + x + s, gid[2] * BlockDim + b + t>>)
  BY <1>7 DEF At
<1> DEFINE column == x + KernelRadius + s
           row == b + KernelRadius + t
<1> HIDE DEF x, b, s, t
<1>10. column \in Nat /\ column < TileDim /\ row \in Nat /\ row < TileDim
  BY <1>2, <1>3, <1>4, GroupSizes DEF Positive
<1>11. CoordOf(<<column, row>>) = <<gid[1] * BlockDim + x + s, gid[2] * BlockDim + b + t>>
  <2>1. CoordOf(<<column, row>>) = <<gid[1] * BlockDim - KernelRadius + column,
                                     gid[2] * BlockDim - KernelRadius + row>>
    BY DEF CoordOf, StartCoord
  <2> DEFINE left == gid[1] * BlockDim
             top == gid[2] * BlockDim
  <2>2. left \in Int /\ top \in Int
    BY <1>6
  <2> HIDE DEF left, top
  <2>3. left - KernelRadius + column = left + x + s /\ top - KernelRadius + row = top + b + t
    BY <1>2, <1>4, <2>2, GroupSizes
  <2> QED
    BY <2>1, <2>3, Zenon DEF left, top
<1>12. sh_mv_tile[<<column, row>>] = LoadVector(CoordOf(<<column, row>>))
  <2> HIDE DEF column, row
  <2>1. PICK i \in Nat : i < TileCells /\ TileCell(i) = <<column, row>>
    BY <1>10, CellNumbered
  <2>2. sh_mv_tile[TileCell(i)] = LoadVector(CoordOf(TileCell(i)))
    BY <2>1, TileLoaded DEF GroupInv
  <2> QED
    BY <2>1, <2>2
<1>13. gid[1] * BlockDim + x + s \in Int /\ gid[2] * BlockDim + b + t \in Int
  BY <1>2, <1>4, <1>6
<1>14. At(Dtid(gi), n) \in Vector
  BY <1>9, <1>13, LoadsVectors
<1> QED
  BY <1>8, <1>9, <1>11, <1>12, <1>14

\* What a thread writes is one of the largest vectors around its block.
LEMMA LargestWritten ==
  ASSUME GroupInv, FieldOK, NEW gi \in Threads, PastBarrier(gi)
  PROVE  /\ MaxMv(sh_mv_tile, Center(gi)) \in Neighbors(Dtid(gi)) \cup {Zero}
         /\ \A v \in Neighbors(Dtid(gi)) :
              MagnitudeSquared(v) <= MagnitudeSquared(MaxMv(sh_mv_tile, Center(gi)))
<1> DEFINE best == MaxMv(sh_mv_tile, Center(gi))
           block == Dtid(gi)
           near(n) == Neighbor(sh_mv_tile, Center(gi), Offsets[n])
<1>1. \A n \in 1 .. KernelSize : near(n) = At(block, n) /\ near(n) \in Vector
  BY NeighborFound
<1>2. /\ best = Zero \/ \E n \in 1 .. KernelSize : Counts(sh_mv_tile, Center(gi), n) /\ best = near(n)
      /\ \A n \in 1 .. KernelSize : Counts(sh_mv_tile, Center(gi), n) =>
           MagnitudeSquared(near(n)) <= MagnitudeSquared(best)
  <2>1. \A n \in 1 .. KernelSize : Neighbor(sh_mv_tile, Center(gi), Offsets[n]) \in Vector
    BY <1>1
  <2> QED
    BY <2>1, LargestFound, Zenon
<1>3. ASSUME NEW n \in 1 .. KernelSize
      PROVE  Counts(sh_mv_tile, Center(gi), n) <=> Along(Offsets[n][1], Offsets[n][2], At(block, n))
  <2>1. near(n) = At(block, n)
    BY <1>1
  <2> QED
    BY <2>1, Zenon DEF Counts
<1>4. \A v : v \in Neighbors(block) <=>
        \E n \in 1 .. KernelSize : Along(Offsets[n][1], Offsets[n][2], At(block, n)) /\ v = At(block, n)
  <2>1. DOMAIN Offsets = 1 .. KernelSize
    BY OffsetFacts
  <2> HIDE DEF block
  <2> QED
    BY <2>1, Zenon DEF Neighbors, At
<1> HIDE DEF best, block, near
<1> QED
  BY <1>1, <1>2, <1>3, <1>4 DEF best, block

SeamInv == GroupInv /\ FieldOK /\ GroupTypeOK /\ LargestAlong

\* What a block has got stays right while no block is written.
LEMMA LargestKept ==
  ASSUME LargestAlong, UNCHANGED <<grid, raw, neighbor_max_tex>>
  PROVE  LargestAlong'
<1>1. \A block : Neighbors(block)' = Neighbors(block)
  BY DEF Neighbors, LoadVector, InputCoord
<1> QED
  BY <1>1, Zenon DEF LargestAlong

\* The invariant of the seams holds before the first load.
LEMMA SeamInit == GroupInit => SeamInv
<1> SUFFICES ASSUME GroupInit PROVE SeamInv
  OBVIOUS
<1>1. FieldOK
  BY GroupAssumption DEF GroupInit, FieldOK, Vector
<1>2. next \in [Threads -> 0 .. TileCells + GroupSize - 1]
  BY GroupSizes DEF GroupInit, Positive
<1>3. GroupTypeOK
  BY <1>2 DEF GroupInit, GroupTypeOK, GroupSize
<1>4. LargestAlong
  BY DEF GroupInit, LargestAlong
<1> QED
  BY <1>1, <1>3, <1>4, InitCorrect DEF SeamInv

\* A load keeps it, since it writes nothing to the texture.
LEMMA SeamLoad == ASSUME SeamInv, NEW gi \in Threads, Load(gi) PROVE SeamInv'
<1>1. GroupInv'
  BY LoadCorrect DEF SeamInv
<1> DEFINE n == next[gi]
<1>2. n \in Nat /\ n < TileCells
  BY DEF SeamInv, GroupInv, LoadInv, Load
<1>3. /\ next' = [next EXCEPT ![gi] = n + GroupSize]
      /\ sh_mv_tile' = [sh_mv_tile EXCEPT ![TileCell(n)] = LoadVector(CoordOf(TileCell(n)))]
      /\ UNCHANGED <<grid, gid, raw, motion_vector_tex, neighbor_max_tex>>
  BY DEF Load, LoadRound, GroupSize
<1>4. FieldOK'
  BY <1>3 DEF SeamInv, FieldOK, RawCells
<1>5. LargestAlong'
  BY <1>3, LargestKept DEF SeamInv
<1>6. next' \in [Threads -> 0 .. TileCells + GroupSize - 1]
  <2>1. next \in [Threads -> 0 .. TileCells + GroupSize - 1]
    BY DEF SeamInv, GroupTypeOK, GroupSize
  <2>2. n + GroupSize \in 0 .. TileCells + GroupSize - 1
    BY <1>2, GroupSizes DEF Positive
  <2> HIDE DEF n
  <2> QED
    BY <1>3, <2>1, <2>2
<1>7. LoadVector(CoordOf(TileCell(n))) \in Loaded
  <2>1. TileCell(n)[1] \in Int /\ TileCell(n)[2] \in Int
    BY <1>2, GroupSizes, Quotient DEF TileCell
  <2>2. gid[1] * BlockDim - KernelRadius \in Int /\ gid[2] * BlockDim - KernelRadius \in Int
    BY GroupSizes DEF SeamInv, GroupInv, Positive
  <2>3. CoordOf(TileCell(n)) = <<StartCoord[1] + TileCell(n)[1], StartCoord[2] + TileCell(n)[2]>>
    BY DEF CoordOf
  <2>4. StartCoord[1] \in Int /\ StartCoord[2] \in Int
    BY <2>2 DEF StartCoord
  <2>5. StartCoord[1] + TileCell(n)[1] \in Int /\ StartCoord[2] + TileCell(n)[2] \in Int
    BY <2>1, <2>4
  <2> QED
    BY <2>3, <2>5, LoadsVectors DEF SeamInv
<1>8. /\ DOMAIN sh_mv_tile' = Tile
      /\ \A cell \in Tile : sh_mv_tile'[cell] \in {Leftover} \cup Loaded
  BY <1>3, <1>7 DEF SeamInv, GroupTypeOK, Loaded
<1>9. GroupTypeOK'
  BY <1>3, <1>6, <1>8, Zenon DEF SeamInv, GroupTypeOK, GroupSize, Loaded, Blocks, Within
<1> QED
  BY <1>1, <1>4, <1>5, <1>9 DEF SeamInv

\* The block of a thread lies in its own group.
LEMMA OwnBlock ==
  ASSUME GroupInv, NEW gi \in Threads
  PROVE  Within(Dtid(gi))
<1> DEFINE x == gi % BlockDim
           b == gi \div BlockDim
<1>1. gi \in Nat /\ gi < BlockDim * BlockDim
  BY GroupSizes DEF Threads, GroupSize, Positive
<1>2. x \in Nat /\ x < BlockDim /\ b \in Nat
  BY <1>1, GroupSizes, Quotient
<1>3. b < BlockDim
  BY <1>1, GroupSizes, QuotientBound DEF Positive
<1>4. Dtid(gi) = <<gid[1] * BlockDim + x, gid[2] * BlockDim + b>>
  BY DEF Dtid, Gtid
<1>5. gid[1] \in Nat /\ gid[2] \in Nat
  BY DEF GroupInv
<1> HIDE DEF x, b
<1>6. (gid[1] * BlockDim + x) \div BlockDim = gid[1] /\ (gid[2] * BlockDim + b) \div BlockDim = gid[2]
  BY <1>2, <1>3, <1>5, GroupSizes, QuotientUnique
<1> QED
  BY <1>4, <1>6 DEF Within

\* A write keeps it: the cells around hold what other groups have for their blocks.
LEMMA SeamWrite == ASSUME SeamInv, NEW gi \in Threads, Write(gi) PROVE SeamInv'
<1> DEFINE block == Dtid(gi)
           best == MaxMv(sh_mv_tile, Center(gi))
<1>1. GroupInv'
  BY WriteCorrect DEF SeamInv
<1>2. /\ UNCHANGED <<grid, gid, raw, next, sh_mv_tile>>
      /\ motion_vector_tex' = Written(motion_vector_tex, block, sh_mv_tile[Center(gi)])
      /\ neighbor_max_tex' = Written(neighbor_max_tex, block, best)
      /\ PastBarrier(gi)
  BY DEF Write
<1>3. /\ best \in Neighbors(block) \cup {Zero}
      /\ \A v \in Neighbors(block) : MagnitudeSquared(v) <= MagnitudeSquared(best)
  BY <1>2, LargestWritten DEF SeamInv
<1>4. Within(block)
  BY OwnBlock DEF SeamInv
<1>5. \A b : Neighbors(b)' = Neighbors(b)
  BY <1>2 DEF Neighbors, LoadVector, InputCoord
<1> HIDE DEF block, best
<1>6. FieldOK'
  BY <1>2 DEF SeamInv, FieldOK, RawCells
<1>7. ASSUME NEW b \in DOMAIN neighbor_max_tex'
      PROVE  /\ neighbor_max_tex'[b] \in Neighbors(b) \cup {Zero}
             /\ \A v \in Neighbors(b) : MagnitudeSquared(v) <= MagnitudeSquared(neighbor_max_tex'[b])
  <2>1. CASE b = block
    <3>1. neighbor_max_tex'[b] = best
      BY <1>2, <1>7, <2>1 DEF Written
    <3> QED
      BY <1>3, <2>1, <3>1
  <2>2. CASE b # block
    <3>1. b \in DOMAIN neighbor_max_tex /\ neighbor_max_tex'[b] = neighbor_max_tex[b]
      BY <1>2, <1>7, <2>2 DEF Written
    <3> QED
      BY <3>1, Zenon DEF SeamInv, LargestAlong
  <2> QED
    BY <2>1, <2>2
<1>8. LargestAlong'
  BY <1>5, <1>7 DEF LargestAlong
<1>9. GroupTypeOK'
  <2>1. Blocks' = Blocks /\ \A b : Within(b)' <=> Within(b)
    BY <1>2, Zenon DEF Blocks, Within
  <2>2. /\ DOMAIN motion_vector_tex' = DOMAIN motion_vector_tex \cup ({block} \cap Blocks)
        /\ DOMAIN neighbor_max_tex' = DOMAIN neighbor_max_tex \cup ({block} \cap Blocks)
    BY <1>2 DEF Written
  <2>3. /\ DOMAIN motion_vector_tex \subseteq {b \in Blocks : Within(b)}
        /\ DOMAIN neighbor_max_tex = DOMAIN motion_vector_tex
    BY DEF SeamInv, GroupTypeOK
  <2>4. /\ DOMAIN motion_vector_tex' \subseteq {b \in Blocks : Within(b)}
        /\ DOMAIN neighbor_max_tex' = DOMAIN motion_vector_tex'
    BY <1>4, <2>2, <2>3, Zenon
  <2> QED
    BY <1>2, <2>4, Zenon DEF SeamInv, GroupTypeOK, Blocks, Within
<1> QED
  BY <1>1, <1>6, <1>8, <1>9 DEF SeamInv

\* Every step of a group keeps the invariant of the seams.
LEMMA SeamStep == SeamInv /\ [GroupNext]_group_vars => SeamInv'
<1> SUFFICES ASSUME SeamInv, [GroupNext]_group_vars PROVE SeamInv'
  OBVIOUS
<1>1. CASE \E gi \in Threads : Load(gi) \/ Write(gi)
  BY <1>1, SeamLoad, SeamWrite
<1>2. CASE UNCHANGED group_vars
  <2>1. GroupInv'
    BY <1>2 DEF group_vars, SeamInv, GroupInv, LoadInv, OwnVector, LoadVector, InputCoord, CoordOf,
                StartCoord, TileCell
  <2>2. LargestAlong'
    BY <1>2, LargestKept DEF group_vars, SeamInv
  <2>3. FieldOK' /\ GroupTypeOK'
    BY <1>2 DEF group_vars, SeamInv, FieldOK, RawCells, GroupTypeOK, Blocks, Within
  <2> QED
    BY <2>1, <2>2, <2>3 DEF SeamInv
<1> QED
  BY <1>1, <1>2 DEF GroupNext

\* The groups leave no seams, for groups, margins and textures of every size, whatever the
\* estimator has written and in whatever order the threads load and write: a group writes its
\* own blocks only, a block gets the vector of its place, and one of the largest that point
\* along the way to it or from it, those of other groups included
\* (MotionBlurNeighborMaxCs.hlsl).
THEOREM GroupsSeamless == GroupSpec => []NoSeams
<1>1. SeamInv => NoSeams
  BY DEF SeamInv, GroupInv, NoSeams
<1> QED
  BY <1>1, SeamInit, SeamStep, PTL DEF GroupSpec

=============================================================================
