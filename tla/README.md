# MotionToGo in TLA+

MotionToGo reads the frames of a video or of a directory of images, estimates the motion
between each frame and the one before it on the video encoder of the GPU, blurs the frame along
that motion with compute shaders, and writes each result to a file. What is hard about it is not
the shaders but the order of things: one CPU thread feeds two GPU queues that run beside it and
beside each other, all of them synchronise through one fence, three frames share the queues and
every resource, and threads write the files in any order. These modules model that first, then what
the lists refer to (texture states, descriptors, constants, bytes), then how the program starts,
reads and finds the sizes it works with. TLC checks all of it on small instances, and TLAPS proves
the core of it for every instance.

Paths below are relative to `src/Source/`.

## The system

| Part | State | Operations |
|---|---|---|
| `GpuSystem` (`Gpu/GpuSystem.cpp`) | `frame_index_`, `fence_vals_` (one per slot), the fence, `fence_event_`, per queue the command allocators of each slot and `cmd_list_pool` | `CreateCommandList`, `Execute`, `ExecuteAndReset`, `MoveToNextFrame`, `WaitForGpu`, `HandleDeviceLost` |
| `GpuCommandList` | open or closed | `Compute`, `Copy`, `Transition`, `Close`, `Reset` |
| `GpuMemoryAllocator` | pages with a free and a stall list, large pages | `Allocate`, `Deallocate`, `Reallocate`, `ClearStallPages`, `Clear` |
| `GpuDescriptorAllocator` | descriptor heaps with a free and a stall list | the same |
| `GpuTexture2D` | the resource, the state of each subresource, a mapped block | `Upload`, `Readback`, `CopyFrom`, `Transition`, `Reset` |
| `GpuBuffer`, `ConstantBuffer` (`Gpu/GpuBufferHelper.hpp`) | memory that stays mapped, a staging record | `UploadToGpu` |
| `GpuDescriptorHeap`, `GpuResourceViews` | the heap; a view is a place in it, with a texture and a plane | the constructors of views |
| `VideoReader` (`Reader/`) | the Media Foundation source, `curr_frame_`, `last_timestamp_`, beside it the surfaces of the decoder | `ReadFrame` |
| `ImageSeqReader` | the files, `curr_frame_` | the constructor's listing, `ReadFrame` |
| Adapter search (`GpuSystem::GpuSystem`, `ConfirmDeviceFunc`) | `adapter_id`, `device_` | one pass of the loop |
| `MotionBlurGenerator` | the estimator, its limits and heaps, the shaders; per slot the textures of a frame and its passes' descriptors; one constant buffer per pass | the constructor, `AddFrame` |
| Compute shaders (`.hlsl`) | registers; in `MotionBlurNeighborMaxCs` a tile that the threads of a group share | one dispatch |
| `main` (`MotionToGo.cpp`) | loop counter, `total_frames`, a texture per slot, the futures of the saving threads | the loop, `SaveTexture`, the final wait |

`main` calls the reader, the reader uploads or copies a frame into the texture of the slot and
submits that; `AddFrame` submits up to eight lists over both queues, each of which can be told to
wait for the fence value of another, and ends in `MoveToNextFrame`. Two iterations later `main`
reads the blurred texture of the frame back (`Readback` submits a copy and calls `WaitForGpu`) and
gives the bytes to a thread. The CPU learns about the GPU through the fence only; the queues learn
about each other through the fence only; the threads share nothing but their futures.

The hard behaviours, each listed at its line in `PROJECT.json`:

* **One fence for two queues.** Both queues signal increasing values, but a queue that lags
  signals an old value after the other has signalled a newer one. A reached value says that *some*
  queue got there.
* **Fence values live in slots.** `fence_vals_[frame_index_]` is used, incremented, and handed over
  as `curr_fence_value + 1` when the slot changes. `WaitForGpu` uses a value up only if it had to
  wait for it.
* **Reuse.** Slots of allocators, textures and descriptors are used again every third frame, and
  the constant buffers with every frame.
* **The end of the input.** Results leave two iterations late, so the loop outlives the input, and
  the input can be shorter than that delay.
* **Freed while in use.** Memory and descriptors go through a stall list until the fence passes,
  and come back in any order into lists that must stay merged.
* **Recorded now, run later.** The CPU tracks the state of a texture in the order it records, writes
  descriptors in place and constants into mapped memory, while lists that need the old ones wait in
  two queues.
* **Somebody else's surfaces.** A video frame comes in a surface of the decoder, which is filled on
  the decoder's time and may be filled again as soon as the reader has dropped the sample and the
  compute queue has released it.
* **Numbers.** Sizes are clamped, scaled and rounded in turn; rows have one length for the CPU and
  another for the GPU; coordinates left of a texture wrap.
* **Half a start.** The adapter loop, the estimator, the heaps and the shaders can fail one by one,
  and some failures throw while others return.
* **Failures passed over.** `WaitForGpu` goes on without a word when its calls fail; a reader counts a
  frame that it cannot read and leaves the slot as it is.

What makes each part right: `GpuSystem`, that values are handed out in one order, that a wait
returns and means what its caller takes it to mean, and that the queues cannot block each other;
the allocators, that ranges never overlap, are never lost and never given out early; `main` with
the reader and the generator, that each file ends with the picture of its own frame, made from the
right pair of frames; textures, descriptors and constants, that the GPU finds with each command what
the CPU meant when it recorded it; the readers, that no slot holds parts of two frames and that the
input comes to its end; the sizes, that they respect the limits and keep the aspect; the
neighbour-max shader, that its groups leave no seams.

## The modules

| Module | Models | Uses |
|---|---|---|
| `GpuSystem` | `GpuSystem.cpp`, with *any* caller that respects its API, and the GPU | |
| `FrameStream` | the promise of the program: the abstract specification | |
| `MotionToGo` | the whole program: `main`, readers, `AddFrame`, saving threads, GPU | `GpuSystem`, refines `FrameStream` |
| `FreeList` | the free and stall lists that both allocators keep | |
| `GpuMemoryAllocator` | `GpuMemoryAllocator.cpp` | `FreeList` |
| `GpuDescriptorAllocator` | `GpuDescriptorAllocator.cpp` | `FreeList` |
| `ResourceBarriers` | what `GpuTexture2D::Transition` records and what a barrier does | |
| `GpuTexture2D` | one texture, its handle and the GPU behind it | `ResourceBarriers` |
| `ResourceStates` | the states of all textures of the program, both queues command by command | `MotionToGo`, `ResourceBarriers` |
| `ShaderBindings` | the descriptors of the five shaders | `MotionToGo`, `FreeList` |
| `ConstantBuffers` | the constants of the shaders | `ShaderBindings` |
| `ProgramResources` | the program with its states, descriptors and constants at once | the three above |
| `TextureCopy` | `Upload` and `Readback`, texel by texel | |
| `MotionVectorSizes` | limits and sizes of `MotionBlurGenerator` | |
| `DeviceSelection` | the adapter loop and the generator's constructor | |
| `NeighborMax` | a group of threads of `MotionBlurNeighborMaxCs.hlsl` | |
| `VideoReader`, `ImageSeqReader` | the two readers, with decoder or directory | |
| `Readers` | one of the two behind the common interface | both |
| `...Proofs` | the theorems: `GpuSystemProofs`, `MotionToGoProofs`, `ReaderProofs` (the readers), `ResourceProofs` (`ProgramResources`), `PartsProofs` (one texture, copies, the start, sizes, groups of threads), `FreeListProofs`, `GpuMemoryAllocatorProofs`, `GpuDescriptorAllocatorProofs` | the module of their name |
| `MC...` | what TLC instantiates; the `.cfg` files give the constants | |

`MCTextures` (one texture, copies, groups of threads) and `MCGenerator` (start and sizes) hold modules
that share no state. A behaviour of theirs is one of one of these modules, chosen in the initial state; the variables of the others stay as they are.

### GpuSystem

The variables carry the names of the members. `queue[q]` holds what has been given to queue `q` and
not run yet: waits, lists and signals in the order the driver got them. A list is remembered with
the slot whose allocator recorded it (for the reset) and with a *job*, what it does, which
`GpuSystem` itself does not look at. `Execute(q, v, job)` appends the wait (if any), the list and
the signal of the current value and uses the value up, like `ExecuteOnly` in the code.

A call that waits is cut where it reads the fence, since only there can the GPU's progress change
what it does. `call` says where the CPU is:

* `MoveToNextFrame` signals on both queues and changes the slot (`"pace"`); `PaceDone` or
  `PaceWait` read the fence; after `PaceWait` (`"pace_await"`) the event ends the wait.
* `WaitForGpu` goes over the queues (`"flush"`): `FlushSignal`, then `FlushPassed` if the fence is
  there already or `FlushWait` and `FlushWoken` if not. Only `FlushWoken` uses the value up: so it
  is in the code (`GpuSystem.cpp:266-288`). Where `Signal` or `SetEventOnCompletion` fails the code
  leaves the queue as it is and goes on with the next (`FlushSkip`, lines 273 and 277).

`GpuWait`, `GpuExec` and `GpuSignal` are the GPU: external, modelled from what the code asks of it.
The event is auto-reset and is set when the fence reaches the value that was armed.

What a fence does when it is signalled with a *smaller* value than it has is left open by the code,
so it is a constant: with `RewindAllowed = TRUE` the signal of the lagging queue may keep the fence
or set it back, every time anew. All safety runs and all proofs allow it. Liveness is checked for
`RewindAllowed = FALSE`: a fence that falls back below what a queue waits for, after the other queue
has run dry, does stop that queue until somebody signals again.

Whether those calls of `WaitForGpu` may fail is the constant `CallsFail`. Everything that is said about
waiting as such (that no wake-up is lost, that calls return, the order and pacing of values) holds with
such failures; that `WaitForGpu` *drains* the compute queue does not, so `DrainedOnReturn` is stated for
`~CallsFail`, and so are the theorems about the program that rest on it. The result of
`ID3D12CommandQueue::Wait` in `ExecuteOnly` (line 330) is not looked at by the code; the models take
that call not to fail.

`WaitForGpu` is modelled with its default argument, the only one the program passes.
`HandleDeviceLost` drops queues and pools; the program does not call it, and after it no call is
made.

### MotionToGo

`pc` is the next operation of the CPU thread, named after what it submits. Each action that submits
uses the action of `GpuSystem` for the submission and adds what the caller does. The data is
symbolic: a texture holds the sequence of what went into it (numbers of frames, and the timespan a
motion vector was scaled by), and a job computes one texture from others *at the moment the GPU
runs it* (`Result`). A list that runs too early, reads a slot that was overwritten, or sees the
constant buffer of another frame therefore ends as a wrong sequence in a file.

Things of the code that are kept although they are easy to overlook:

* `CopyFrom` submits after each plane and leaves the list open, so an *empty* list is executed after
  it (`ExecuteEmpty`); so does `SaveTexture` after `Readback`. Each of them uses a fence value up.
* The texture for a video frame is made anew at `ReadFrame`, on the CPU, at once; that of an image
  is uploaded into.
* The timespan is written by the CPU into the one buffer of the pass (`SetTimespan`).
* `total_frames` is 0 until the end of the input is found.
* The generator's constructor has submitted the upload of the table of random numbers before the loop
  begins (`UploadRandomTex`, `MotionBlurGenerator.cpp:140-145`), so the first frame may find a list of
  its slot in the compute queue, and a fence value used up.
* A frame that cannot be read counts all the same: an image that is no picture
  (`ImageSeqReader.cpp:18-19`), a sample whose buffer is no texture of the GPU
  (`VideoReader.cpp:95-96`). Nothing is submitted for it, the slot keeps the texture it has, and if it
  has none `AddFrame` uses a texture that is not there (`"aborted"`). `input.unreadable` is the set of
  such frames, a member of the constant `Unreadables`.

The allocators of `Gpu/` are not part of this composition: they only decide where things are. What
they promise is checked for itself.

### FrameStream

No GPU: frames are taken in order, at most `Depth` ahead of what is saved, saved in order, and
written each to its file in any order. A frame that cannot be read shows an older one (`Shown`); with
one that shows nothing the program gives up (`Goes`). `MotionToGo` refines it with `Depth <- FrameCount` and
`taken <- curr_frame`, the other variables are the same. `Picture(k)` is the right result for
frame `k`.

### The allocators

A page is a free list of ranges and a list of stalled ranges with their fence values. `Allocate` is
the code's: the first page in which the search finds room, else a new page, else (if too large) a
page of its own. The search is `std::lower_bound` with a test on *size* over a list sorted by
*offset*: `LowerBound` is the binary search itself, round by round, and not what it would find in a
sorted list, so a range that it misses is missed in the model, and the page is opened for nothing as
in the code. `ClearStalls` is the loop over the stalled ranges of a page, range by range. Both are
functions of the number of rounds.
`Deallocate` computes the range back from offset and unaligned size; `Occupied` is that computation.
Descriptors have a history variable besides, `named`: what was given back, with the value of the last
list that can name it. No guard reads it; `DescriptorsStayPut` compares the lists with it.
The mutex is held through each operation, so each is one step. `Submit` and `Complete` are
`GpuSystem`'s fence value and the fence.

### Textures: GpuTexture2D, ResourceStates, TextureCopy

`ResourceBarriers` is the pure part: `Transition` from tracked states to a target gives one command
with the subresources it covers, the states before and those after, with the code's shortcuts: no
barrier where the state is the same already, one barrier if all subresources agree and one each if
not; and if subresource 0 is already in the target state and that state is unordered access (or
that of an acceleration structure), only a barrier that orders, whatever the others are in.
`GpuTexture2D` runs the sequences of creation, `Reset`, transitions and copies of one texture that
respect `ShortcutSafe`, with the commands that the GPU has not run in between. `ShortcutSafe` is what the
shortcut relies on and the code does not check: if subresource 0 alone is in the target state, the
others get no barrier. All callers in the program transition whole textures and keep the subresources
alike, so they respect it; nothing is said of callers who do not.

`ResourceStates` puts that into the program: each list of `MotionToGo` becomes the script of
transitions and uses that the code records for it, the CPU's tracked states go along with recording,
and the queues run the scripts command by command while the CPU and the other queue go on. The table
of random numbers is there from the start: no frame's commands touch it, and its upload, which is in
the program's queue, is not followed command by command.

`TextureCopy` is about bytes: `Upload` and `Readback` step through a block by the length of a row, the
copy of the GPU by `RowPitch`, which is rounded up.

### Shaders: ShaderBindings, ConstantBuffers, NeighborMax

`DescBlock` computes the block of each shader from the allocator's operations, in the order of the
constructor; `RunComputeShader` writes the views of the current slot into its part of the block.
`Registers` is the other side, what the `.hlsl` files declare: the property is that both agree when
the GPU gets to the dispatch. `ConstantBuffers` has a staging record and a mapped record per shader;
what `AddFrame` fills in once (sizes, radii, counts) is one field, the timespan another.

`ProgramResources` is the conjunction: a step of the program does what it does to the states, to the
descriptors and to the constants. A dispatch stays at the head of its queue until its last command
has run, so a descriptor or a constant that is written too early shows at any point of it.

`NeighborMax` has an action for each load of each thread and one for what a thread does behind the
barrier. Memory of the group holds leftovers before it is written, so a read before the barrier
shows. A group has fewer threads than its tile has cells, and the loop of some threads has a round more
than that of others, in the run (25 cells, 9 threads) as in the shader (324 cells, 256 threads). Vectors are taken as the shader has scaled them.

### Start and sizes: DeviceSelection, MotionVectorSizes

`DeviceSelection` goes through the loop over adapters (`GpuSystem.cpp:57-95`), `Verify`, and the
constructor of `MotionBlurGenerator` with its early returns, up to a generator that runs or an
exception, those of a debug build that finds no WARP adapter included. `MotionVectorSizes` has the limits as the constructor takes them from the estimator (both
limits of the height come from the *width* of the range, lines 72-74) and the sizes of `AddFrame`.
Sides stay below 2^16, so that products stay within 32 bits, and the ratios that the code compares
as floats are compared exactly.

### Readers

In `VideoReader` three parties share the surfaces: the decoder fills one whenever it likes and may
fill it again when the sample is dropped and no release is queued; the reader queues a wait, a copy
per plane and a release and returns; the compute queue runs them. `ImageSeqReader` has a directory
whose entries are listed in any order, some of them directories, other files, or pictures that cannot
be decoded, and the check that `AddFrame` makes of a frame's size. `Readers` chooses one, like `main`.

## What TLC checks

| Run | States | Question |
|---|---|---|
| `gpu_safety` | 2 383 450 | `GpuSystem` under every caller, fence may fall back: values in one order, `WaitForGpu` drains the compute queue, `MoveToNextFrame` has waited for at least one queue |
| `gpu_live` | 1 651 271 | monotone fence, calls that may fail: no lost wake-up, no two queues waiting for each other, both waits return |
| `stream` | 2 780 | the abstract program writes every frame |
| `frames` | 998 621 | the program, also with frames that cannot be read: refines `FrameStream`, every file right, slots reused when idle |
| `frames_live` | 77 831 | the program ends, having taken, saved and written everything (refines the *live* `FrameStream`) |
| `frames_empty` | few | an input without frames (see *Findings*) |
| `memory` | 296 400 | pages are partitioned, merged, and nothing is given out early |
| `descriptors` | 1 093 368 | the same for descriptors, whose blocks are not rounded; what a list may still name stays where it is |
| `resources` | 958 968 | the program command by command, frames with different timespans: states, descriptors and constants are as meant when a command runs; only frame 2 may get another frame's timespan |
| `textures` | 563 796 | one texture under transitions and copies; `Upload` and `Readback` stay in their blocks and bring pictures of the right width back; groups of the neighbour-max shader |
| `generator` | 14 454 | the start and the sizes |
| `readers` | 47 597 | both readers: surfaces, slots, time spans, order of files, the end of the input |

What these say about the code, where it is not obvious:

* **`DrainedOnReturn` speaks of the compute queue only.** `WaitForGpu` waits for the compute queue
  first. When it turns to the video queue with a value that was not used up, the fence already
  stands at it, and the call passes at once. `Readback` needs the compute queue only, so the
  program is right; a caller that relied on the video queue would not be.
* **`PacedBySomeQueue` says "some".** `MoveToNextFrame` resets the allocators of *both* queues after
  a value that one of them has signalled. In the program this is enough as soon as the first frame
  has been saved, because `Readback` drains the compute queue and everything on the video queue is
  waited for by a list on the compute queue. Before that it is not enough: after frame `FrameCount` the
  first slot comes round, the video queue, which did nothing for frame 1, has signalled the value that
  is waited for, and the compute queue may still have lists of frame 1 (see *Findings*).
  `ResetsIdleAllocators` says that this is the only reset under a list, for the compute queue and in
  that frame; all others, the earlier ones included, find both queues done with the slot. Textures
  are not affected (`SlotQuiescent`), since a frame is read after the save.
* **`OneTimespanLate`.** There is one constant buffer per shader and the CPU writes it while the
  lists of the frame before may be waiting. From frame 3 on each frame is saved before the next one
  is read, so only frame 2 can see the timespan of frame 3. With constant frame rate nobody can
  tell; the run is for videos in which it varies.
* **`QueuesKeepApart`.** A list of the video queue can name no state of compute. That the
  estimator's transitions start from `COMMON` is due to another function: `RunComputeShader` returns
  what it has written to `COMMON`.
* **`SizesInLimits`.** A frame with a side below the minimum is scaled to the minimum in *one* side
  and ends below it in the other (320 x 180 becomes 512 x 288; 4000 x 300 becomes 512 x 38, because
  the minimum replaces what the maximum asked for). So `FitsMaximum` is for frames that are not below
  the minimum, and `FitsMinimum` says what the others get.
* **`SearchEnds`** says that the search ends or stays at a software adapter for ever, since the loop
  does not get past one (see *Findings*), and that it finds a usable adapter that comes before all
  software adapters.
* **`AlignedRoundTrip`** is about rows of a multiple of the alignment, for the same reason;
  `OthersKept` holds for every width.
* **`ShownFromSlot`.** A picture that cannot be decoded leaves its slot as it was, so the frame shows
  the picture of `FrameCount` frames before. `OutputComplete` says the same of the files that the
  program writes.
* **`PaddedNamesInOrder`** asks that files of `SupportedExts` are frames, once each, and that no directory
  is one. Whether other files are frames it leaves open: the code takes them (see *Findings*).
* **`NoShadersAlone`** allows a generator without any shader, with which the program runs on (see
  *Findings*).

Several of these are conjunctions of named parts, each with a comment of its own:
`PagePartition` and `HeapPartition` (with the types of the allocators), `CommandsFindTheirStates`,
`QueuesKeepApart`, `DispatchesFindTheirInputs`, `CommandsMatch`, `SizesInLimits`,
`VectorsMatchPlaces`, `NoSeams`, `VideoFramesWhole`, `InputEnds`.

### Bounds

* `FrameCount = 3`, as in the code. The program runs take `FrameNums` from 1 to 4 (safety), which
  covers an input shorter than, equal to and longer than the number of slots, and one in which a
  slot comes around a second time; `frames_empty` takes 0. Both sources and both settings of `-L`.
  From frame 4 on an iteration starts with a drained compute queue, as the one before, so longer
  inputs repeat it. In `frames` frame 2 or frame 4 may be unreadable (`Unreadables`): frame 4 shows
  frame 1, and with frame 2, whose slot is empty, the program aborts. `resources` has readable inputs
  only. `CallsFail` is `TRUE` in `gpu_live` and `FALSE` elsewhere.
* In the program runs `FenceBound` and `PendingBound` (80) are larger than the number of submissions
  of the longest input: they never cut anything.
* In `gpu_safety` the caller is free and the bounds end the run: `FenceBound = 4`,
  `PendingBound = 6`. It has two slots, so that four values are enough to give each queue a list of
  slot 0 and to come back to slot 0 while both still hold it, which is the case `PacedBySomeQueue`
  is about; a left-over value of `WaitForGpu` is signalled a second time in it, too. The proofs
  cover every number of slots. `gpu_live` has the three slots of the code, no lists, and entries for
  three at a time: what waits there are the calls.
* `resources`: inputs of 1, 2 and 4 frames of either kind, with and without `-L`, and a heap of just
  the 48 descriptors that the five shaders need for three slots. Two frames are on the GPU at once,
  and the slot of frame 1 comes around with frame 4.
* `textures`: three subresources, four states (each class of the shortcut is among them), up to five
  commands ahead of the GPU (a copy is begun with fewer than `CommandBound = 3` and adds three);
  pictures of up to nine by three texels with rows aligned to four, in blocks at two places of their
  page; groups of 3 x 3 threads with a kernel of radius 1, so that seven threads load three cells and
  two load two, the first and the last group of a texture of 5 x 5 blocks, with a field of three vectors in
  turn on a finer texture. What depends on larger groups is proved (`OwnVectorCorrect`, `GroupsSeamless`).
* `generator`: all lists of up to three adapters in a debug build; four estimators whose ranges are
  beyond, at and inside of the limits of the code, with 24 widths and 21 heights at and around every
  limit.
* `readers`: two surfaces for four samples, so that each is used again, a gap, every mixture of
  samples with and without a surface; all directories of up to three of five names (of one and two
  digits) with six kinds of entries, listed in every order; two slots.
* `memory`: pages of four segments of two bytes (instead of 4096 of 512), sizes of one to four
  segments and a large one, aligned and not, at most two pages and five blocks; `descriptors`: heaps
  of five. So a page can hold four blocks with every order of freeing, which is what the four cases
  of merging need, and the binary search has up to three ranges to go wrong on.

`CHECK_DEADLOCK FALSE` is in every configuration because every run stops somewhere by right: the
program when it is done, the others at their bounds.

### Fairness

`MotionToGo!LiveSpec`: the operating system keeps running the CPU thread (`WF(Main)`) and each
saving thread (`WF(WriteFile(k))`), and the GPU its queues (`WF(GpuRuns(q))`). That is what the code
relies on when it waits without a timeout for the event and for the futures.
`ReadersSpec` has the reader's thread, the decoder (it finishes what it has begun) and the queue each
go on. `DeviceSelection` and `ImageSeqReader` are one thread that goes on. `NeighborMax` assumes
nothing: that nobody is left at the barrier is an invariant (`GroupGoesOn`), that some thread can go on
until all blocks are written.
`GpuSystem!LiveSpec` assumes less: a call that has started goes on and the queues run, but nothing
makes the caller call again. `FrameStream!LiveSpec` is fair in `Take \/ Save` together, since one
thread does both.

## What is proved

For every value of the constants that meets the `ASSUME`s, with TLAPS. The assumptions are named where
the constants are declared; those that say something about the code are `GpuAssumption` (at least two
slots), `StreamAssumption` (a pipeline is at least one frame deep), `CopyAssumption` (blocks lie in
their pages), `SizesAssumption` (sides below 2^16), `BindingAssumption` (the heap has room for the blocks of
all shaders), `MemoryAssumption` (a page is a number of whole
segments, which each alignment divides), `DescriptorAssumption` (a block fits into a heap),
`GroupAssumption` (groups have threads), `VideoAssumption` (timestamps are not negative) and
`ImageAssumption` (names are of characters, and entries are files or directories). None of them is about the order of steps.

* `GpuSystemProofs`, for every number of slots, every caller, a fence that may fall back and calls
  that may fail: `TypeCorrect`, `FenceValuesOrdered`, `PacingHolds`, and `WaitForGpuDrains` (where they
  do not fail); for a fence that only grows `NoWakeupLost` and `QueuesNotStuck`.
* `ReaderProofs`: `FramesWhole`, `TimespansSum`, `LatestShown` and `FilesInOrder`, for every stream and every directory,
  names of every length, any number of surfaces, planes and slots.
* `MotionToGoProofs`, for every number of frames and of slots, both kinds of input, with and without
  `-L`, and a fence that may fall back:
  `ProgramUsesGpuSystem`, `ProgramFenceOrder`, `ReadbackSeesFinishedCopy`; under `Faultless`, which is
  that no call of `WaitForGpu` fails and every frame can be read, `ProgramTypes`;
  `ReadsIntoQuietSlot`, `IdleAllocatorsReset`; `SavesExistingTexture` (inputs that have a frame);
  `FilesComplete` and `ProgramIsFrameStream` (one timespan for all frames), `TimespanLateOnce` (any
  timespans, at most three slots); `StepsRunOut`; and, for a fence that only grows, `ProgramNotStuck`,
  `ProgramWakesUp`, `SleeperIsServed` (these three without `Faultless`) and `NeverStuck`.
* `GpuMemoryAllocatorProofs` and `GpuDescriptorAllocatorProofs`, for pages of every size and any number of
  pages, ranges and blocks: `PagesPartitioned`, `FreeListsStayCoalesced`, `StallsKept`,
  `HeapsPartitioned`, `NamedDescriptorsStay`.
* `ResourceProofs`, for any number of frames and slots, both kinds of input, any timespans, a heap of any
  size with room for the blocks, and a fence that may fall back: `ResourcesFollowProgram`, by which all
  theorems about the program hold with its resources too; under `Faultless`, `DispatchInputs`,
  `CommandsFindStates` and `QueuesApartAlways`.
* `PartsProofs`: of textures `TypeCorrect`, `CommandsCorrect`, `IdleCorrect` for every number of subresources,
  every set of states, a GPU that is any number of commands behind and callers that respect
  `ShortcutSafe`; `CopyTypeCorrect`,
  `OthersCorrect`, `AlignedCorrect` for every shape, offset and alignment; of the start and the
  shaders `FirstUsableAdapter` and `AllShadersOrNone` for every list of adapters and every
  number of heaps and shaders; `LimitsKept` and `VectorsOfPlaces` for every estimator and every frame;
  `OwnVectorCorrect` and `GroupsSeamless` for groups, kernels and textures of every size and whatever
  the estimator has written.

`Faultless` is a real restriction: what the program does with frames that it cannot read is checked by
TLC in `frames`, and proved for single directories and streams only (`LatestShown`, `TimespansSum`). That a
`WaitForGpu` whose calls have failed does not drain anything is plain, and so is what follows for files.
Four of the program's theorems have a further hypothesis, and each of them is needed. An input without
frames does run into the assertion (see *Findings*). Where timespans differ frame 2 may be blurred
over that of frame 3, so the program is then not the `FrameStream`; `TimespanLateOnce` says that this is
all that goes wrong. It needs at most three slots (the code has three): with four, frame 2 could get the
timespan of frame 4 and frame 3 could get it too.

The arguments:

**Fence order.** `FenceOrder` is inductive over `TypeOK`. Everything hinges on `NewestSlot`: between
calls the newest value is in the current slot, but inside `MoveToNextFrame` the slot has changed and
the value has not been handed over, so it is in the slot before. `SubmitUpTo` and `StepUpTo` say how
a submission and a step of the GPU move the largest signal on its way.

**Draining.** `DrainedOnReturn` is not inductive: that `WaitForGpu` saw its value reached says
nothing by itself, because the value may have been signalled before. `DrainInv` adds why it does.
Between calls the current value is either `Fresh` (nobody has signalled it yet), or left over from a
`WaitForGpu` that did not use it up, and then the compute queue is still empty of lists, since a
submission would have made it fresh again. When `WaitForGpu` waits for the compute queue it is
`Gated`: the signal it waits for is the last entry of that queue, and no other signal and not the
fence itself can reach the value first. So whoever sees the fence there sees the queue drained, also
when the lagging video queue sets the fence back meanwhile. `GatedStep` is the central lemma.

**Waiting.** `WaitInv` says where a value that somebody waits for comes from: with a fence that only
grows, each value up to the newest has been reached or its signal is still in a queue (`WakeInv`),
and a CPU thread that sleeps has armed such a value (`LostInv`). The queues cannot both be stuck,
since a queue waits only for values older than its own next signal: the one that holds the smallest
signal on its way can go on. `PaceInv` carries the argument for `PacedBySomeQueue` and needs no such
fence: when the value that `MoveToNextFrame` waits for is reached, the queue that signalled it has
run all lists of the slot it belonged to.

**Textures.** `CommandsMatch` speaks of the first command only. `Tracked` and `Chain` link the
commands: each barrier's states before are those after the command before it, the first one's are
the GPU's, and those after the last command are what the handle tracks. Recording extends the chain
at its end, running takes its head off.

**Copies.** `CopyInv` has a part for each step: which rows the block holds after the CPU's loop, what
the texture holds after the copy, what the second block holds. The work is in the arithmetic of
places: `QuotientUnique` (row and column of a place) and `PitchBound`.

**Sizes.** `FitBound`: scaling by the side that is scaled less leaves the other within its limit,
because the quotient is rounded down; `Even` only makes it smaller. How far the grids drift apart
(`NearbyHolds`) is division by hand: each of the three roundings gets a name for what it loses, and the
distance times the number of blocks is a sum of products in which these are small.

**The start.** `SearchInv`: no adapter that the search has passed was usable, and a device is the adapter
at which it ended. `ConstructInv`: what the constructors have made so far follows from where they stand.

**Groups.** In `GroupInv` each cell of the tile belongs to the thread *cell number modulo group
size*; a cell that its thread has passed holds its vector (`RoundsApart`, `NextRound`). Behind the
barrier every thread has passed all its cells (`TileLoaded`). So what a thread finds around its cell is
what the whole texture has around its block (`NeighborFound`), also where another group owns it, and
the two loops over it, an induction over the offsets, end with a largest one that counts
(`LargestFound`).

**The program.** `ProgramInv` consists of the invariants of `GpuSystem` and of `UseInv`: where `pc`
stands decides which list is open, and `fence_value` is older than the current value, which is what
`Execute` requires of a value to wait for. `StepGood` shows that then each step of the program is a
step of `GpuSystem`, or leaves it alone. `Known` is the instance through which the theorems about
`GpuSystem` are used.

**Every file its own picture.** This is what the program is for, and it takes nearly all that the
program does. A picture passes through up to eleven passes, on two queues, that the CPU submits in an
order and the GPU runs in another, in textures that serve every third frame. The invariant is
`FullInv`; its parts stand in front of the proofs in `MotionToGoProofs`, so that they can be read
without them:

* `ControlInv`: where `pc` stands and what the counters say there. `Counting` relates `i`,
  `curr_frame`, `total_frames` and the number of saved frames, with the two rounds that the loop runs on
  after the input has ended.
* `HalvesInv`, the heart of it, is about two queues as sequences. A list is followed by the signal of its
  own value (`Ticketed`); the passes of a slot stand in their order (`RanksGrow`); while a list of the
  other queue is left whose value is waited for, the fence is *below* it (`WaitsOpen`), although the
  fence may fall back and although the other queue signals larger values; and what a job needs of the
  other queue is covered by the wait before it (`Covered`). That a wait is needed twice in `AddFrame`, and
  of which value, is decided here. `NextInv` says the same of the pass that comes next.
* `JobInv`: each job that is left is a pass of a frame that is read and not saved. Since `WaitForGpu`
  waits for the compute queue only, it also has to say why the video queue is empty then: an estimate
  that is left keeps its propagation in the compute queue.
* `FreshInv`, `DrainedInv`, `ListsInv`: what is true between the calls, after a wait, and of the lists that
  a slot still has. They give `ReadsIntoQuietSlot`, and `IdleAllocatorsReset` from the first save on. For the
  frames before, `EarlyInv` says that the compute queue has lists of the slots up to the current one
  only, so that a slot that is entered for the first time has none (`EarlyReset`).
* `InOrder` follows: a pass of a frame is never done before one of a lower rank. `ValueInv` then says for
  each texture what it holds once the pass that writes it is done and before the next one that does,
  and `FilesInv` carries that into what is saved and written.

The proof has three stages. `BaseStep` keeps the parts about the order of things, without a word about
contents. From it come three lemmas that say what a step can be for the textures: a job is submitted
(`JobSubmitted`), the GPU runs a job (`RunStep`), or neither. The last stage has a lemma per pass
(`DoneRead` to `DoneReadback`) that looks at textures only. `ProgramIsFrameStream` is then a step by
step comparison.

**The program ends.** `StepsLeft` is a number that every step makes smaller (`StepFalls`), whoever takes
it: a round of the loop counts 300, a label that `main` still comes to in its round 12, and one each
for the steps of a call that waits, for a list to open, for an entry of a queue and for a thread that
saves. A submission goes on by a label and puts three entries into a queue at most (`SubmitLeft`),
`MoveToNextFrame` and `WaitForGpu` put in one or two (`MoveLeft`), and a round that ends pays for all
labels of the next. So no run has more than `MostSteps` steps (`StepsRunOut`), and since a step hands
out at most one value for the fence (`Budget`), values and queues do not get past that either. `NeverStuck`
is the other half: until the end (`Done`, the failed assertion of an empty input included) somebody can
take a step. Three things could go wrong. The CPU could
sleep with nobody to wake it; but then its signal is in a queue, and one of the queues can run
(`SleeperIsServed`, from `NoLostWakeup` and `GpuNotStuck`). `main` could come to a call it may not make:
open a list twice, submit one that is not open, or end a frame with a list open; `ListInv` says between
which labels a list is open. Or the model could stop where its bounds are; with bounds of `MostSteps`
it does not, so the end of a run is not an effect of them. `CpuGoesOn` and `GpuGoesOn` are the guards of
`Main` and `GpuRuns` written out, as the prover does not reason about `ENABLED`. The two theorems together
are why `Terminates` holds; the step from them to it needs the fairness of the threads and queues, and that
step is left to TLC.

**What the lists refer to.** A step of `ProgramResources` is one of the program or only moves within a
list (`ResourcesFollowProgram`), so `FullInv` is there to rest on, and each kind of resource adds a part:

* `BindInv`: the views of every dispatch that is left in a queue are in their places (`BoundIn`). The
  blocks of the shaders, computed from the allocator's operations (`Blocks`), have a part per slot, and no
  two parts share a place (`PlacesApart`). So `RunComputeShader` leaves the views of every other pass and
  slot alone; for its own slot it writes the views that are meant there, the textures of a slot being
  made once (`ViewsWritten`).
* `ConstInv`: what a shader needs has been uploaded before its first dispatch, and is only written over
  by values of the same kind.
* `StateInv`: between lists every texture is as new, as the CPU tracks it and, for those that no list at
  work touches, as it is (`Tidy`); and every list that is left can be run from there (`Served`): there are
  states in which each of its commands finds what it names, and which end as new. That each script
  has this property is `JobPlayable`, with `JobRecorded` for what is recorded of it.

The two queues come together in `QueuesApart`: jobs at the heads of both queues touch no texture in
common. A texture they shared would be a scaled picture or raw motion vectors; the compute queue's job
would then be the one that writes the picture or the one that reads the vectors, and one of the two jobs
would need the other's result (`Needs`). A job that needs a list that is left stands behind a wait for
it (`Covered`, `WaitsOpen`), so it is not at the head (`HeadJob`). Without that, a command of one queue
could put a texture into a state that a list of the other does not expect: `CommandsFindTheirStates` is
as much about the waits between the queues as about barriers.

**Free lists.** `LowerBoundFinds` is about the binary search: if the positions that compare less come
first, it finds the first that does not. `GiveBack` then has its four cases (`JoinPrev`, `JoinNext`,
`JoinBoth`, insertion), and each says which units are free afterwards and that no two ranges touch.
The search of `Allocate` does *not* meet that condition, so about it only this is used: the range it
returns is large enough (`FitsIn`). `Divided` is the invariant of a page: blocks, stalled and free
units are a partition of it. `ClearSound` carries it through the loop that gives back, in which some
ranges are in the new list and some still in the old one.
The two loops need induction over natural numbers. The library's theorem for it takes an operator,
so `NatSetInduction` states it for sets, from the well-foundedness of `<`.

**Segments and pages.** The memory allocator rounds: a block's range is computed back from its aligned
offset and its unaligned size. `BlockRange` shows that this is the range that was taken, with the
arithmetic of `RoundUpBounds` and `RoundTwice`. Descriptors are not rounded, so their half is short;
`NamedInv` ties what was given back to the stalled ranges: as long as a list may name it, it is in a
stalled range with a fence value that has not come (`Awaited`), and those are apart from what is free and
from all blocks.

**Readers.** `VideoFramesWhole` is not inductive: it looks at the head of the queue and at the slots.
`VideoInv` says of every command in the queue that its surface holds its frame and is not given back
(`SurfacesKept`), because a release is the last command about a surface and the decoder gets the
surface back with it; and that a copy has its wait before it or needs none (`CopiesWait`). Neither
speaks of the sample once the release is queued, which is why the reader may drop it. For
directories, `SlotLatest` says that a slot holds the latest picture that went to it; a frame shows
that one when it is added (`AddStep`), whichever way its slot is counted (`SameSlot`). `Listed`
follows the listing entry by entry, and since sorted names are each before the next, and no name is
before itself, none comes twice. That padded names come in the order of their numbers (`PaddedOrder`) is
an induction over the digits: from the first on in which two names differ, what they amount to so far
differs by at least one, and the next digit adds nine at most to ten times that.

Only model-checked is everything about liveness (`CallsReturn`, `Terminates`, `IsLiveFrameStream`,
`AllWritten`, `SearchEnds`, `InputEnds`) and `GroupGoesOn`: the prover reasons neither about fairness nor
about `ENABLED`. Of `Terminates` the part that is safety is proved (*The program ends*). Each other invariant and each action property that a passing run checks is also proved, those
of the program under the hypotheses named above.

## Findings

* **Empty input** (`frames_empty`, `TextureExists`). `total_frames = 0` means "not known yet". If the
  first `ReadFrame` finds no frame it is set to `i`, which is 0; the loop goes on, asks again, sets
  it to 1, goes on, and at `i = 2` passes the texture of slot 0, which nobody has made, to
  `SaveTexture`, whose first line is `assert(texture)` (`MotionToGo.cpp:51`).

Also met. The models do what the code does there. The properties say how far each of these reaches, or
leave the case out, as named:

* `GpuSystem.cpp:178-181`: after frame `FrameCount`, the first time a slot comes round, the allocators of the
  compute queue are reset although lists of frame 1 may still wait in it. `MoveToNextFrame` waits for a
  value that both queues have signalled, and the idle video queue reaches it at once.
  `ResetsIdleAllocators` says that there is no other such reset.
* `GpuSystem.cpp:273`, `277`: `WaitForGpu` returns without having waited if `Signal` or
  `SetEventOnCompletion` fails. `DrainedOnReturn` is for calls that do not fail.
* `GpuSystem.cpp:65-68`: a software adapter makes the loop `continue` without `++adapter_id`, so it
  gets the same adapter again, for ever, and `Verify(device_ != nullptr)` (line 97) is not reached.
  `SearchEnds` says that only this keeps the search from ending.
* `GpuTexture2D.cpp:261`, `352`: the rows of a block are stepped through by `row_size_in_bytes`, the
  copy uses the `RowPitch` of the layout. They differ unless the width is a multiple of 64 texels of
  four bytes; other pictures come back sheared, although `Test/Test.cpp:78` expects the first frame
  unchanged. `AlignedRoundTrip` is for the widths that are not affected.
* `MotionBlurGenerator.cpp:309`: `frame_nv12_tex` is made with the frame's own size, which the comment
  "NV12 must be in multiple of 2" (line 292) would round like the other one's.
* `Reader/ImageSeqReader.cpp:61`: `std::find` over `SupportedExts` returns a pointer that is never
  null, so a file with any extension becomes a frame, and one without an extension makes `substr(1)`
  throw. `PaddedNamesInOrder` leaves open what becomes of files that are not in `SupportedExts`.
* `Reader/ImageSeqReader.cpp:67`: names are sorted as text, so `Frame_10` comes before `Frame_2`.
  `PaddedNamesInOrder` is for names padded to one length.
* `Reader/ImageSeqReader.cpp:19`, `Reader/VideoReader.cpp:96`: a frame that cannot be read shows that of
  `FrameCount` frames before, or a texture that is not there is used (`ShownFromSlot`, `OutputComplete`).
* `MotionBlurGenerator.cpp:73-74`: the limits of the height are made from those of the width. `SizesInLimits`
  compares with the limits as they are made. Where the short side of a frame scales to less than two
  pixels a side of 0 is left (line 284); `SizesInLimits` says that it is so only there.
* `MotionBlurGenerator.cpp:57-108`: without a video device, an estimator or a heap the constructor returns,
  and the program runs on without any shader, which `AddFrame` then uses. `NoShadersAlone` says that
  it has all of them or none.
* `MotionBlurGenerator.cpp:361-365` asserts that all frames have one size; `ImageSeqReader.cpp:21`
  makes a texture of another size without complaint.
* `ClearStallPages` has no caller, so stalled ranges and large pages grow until the end of the
  program; `HandleDeviceLost` has none either. Nothing limits the number of saving threads.

## Not modelled

* The arithmetic of the shaders other than `MotionBlurNeighborMaxCs`, and the scaling of vectors in
  that one: floating point per pixel. Their registers and the pixels a thread writes are modelled.
* The creation of driver objects, the formats of views, views of buffers (there are none), the set-up
  of Media Foundation: calls into a library without state of the program's own.
* `GpuTexture2D::Share`, `GpuBuffer::Transition` and `Share`: nothing calls them. A shared texture
  would have two handles that track its states apart.
* The command line beyond source and `-L`; where files are written is apart from where they are read.
* A call that is checked by `TIFHR` or `Verify` throws when it fails, nothing catches that, and the
  program ends: there is no state after it. The modules have the exception as a final state where
  something is left half done (`DeviceSelection`, `ImageSeqReader`). Of the calls that are not checked
  so, those of `WaitForGpu` are modelled with their failures (`FlushSkip`); a queue's `Wait`
  (`GpuSystem.cpp:330`) is taken not to fail. Tests and build.

`PROJECT.json` names every part.

## Plan

The order was: the fence and the queues first, because everything else relies on them; then the
program on top of them against its promise; then the allocators; then what lists refer to, the
start, the sizes and the readers; then the proofs, up to those of what the lists refer to. What is left:

1. The arithmetic of the gather shader in whole numbers: which samples a pixel can get.
2. `GpuBuffer` in full, should something come to transition or share buffers.
