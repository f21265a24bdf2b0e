-------------------------- MODULE DeviceSelection --------------------------
(***************************************************************************)
(* The start of the program up to its shaders: GpuSystem looks for an      *)
(* adapter, with MotionBlurGenerator's ConfirmDeviceFunc as the judge, and *)
(* MotionBlurGenerator makes on that device what it needs, or gives up on  *)
(* the way without saying so.                                              *)
(***************************************************************************)
EXTENDS Naturals, Sequences

CONSTANTS
    AdapterLists,   \* sequences of adapters, as the factory may enumerate them
    Debug,          \* a debug build falls back to the software adapter WARP
    FrameCount, ShaderCount,
    None, Warp

\* What an adapter is, whether it makes a device, and what that says of motion estimation.
Adapter == [software : BOOLEAN, creates : BOOLEAN, estimates : {"yes", "no", "throws"}]

ASSUME SelectionAssumption ==
    /\ AdapterLists \subseteq Seq(Adapter)
    /\ Debug \in BOOLEAN
    /\ FrameCount \in Nat \ {0} /\ ShaderCount \in Nat \ {0}
    /\ None # Warp /\ None \notin Nat /\ Warp \notin Nat

VARIABLES
    adapters,
    adapter_id,     \* from 0, as the factory counts
    device,         \* None, Warp or the adapter_id of its adapter
    pc,             \* "enumerate", "inspect", "not_found", "verify", "construct",
                    \* "heaps", "shaders", "running" or "failed"
    estimator,      \* video_motion_estimator_ is there
    heaps,          \* motion vector heaps that are there, one for each of frames_
    shaders         \* compute shaders that are there

start_vars == <<adapters, adapter_id, device, pc, estimator, heaps, shaders>>

StartInit ==
    /\ adapters \in AdapterLists
    /\ adapter_id = 0
    /\ device = None
    /\ pc = "enumerate"
    /\ estimator = FALSE
    /\ heaps = 0
    /\ shaders = 0

\* ConfirmDeviceFunc: the device must support motion estimation, and throws if it cannot tell.
Confirmed(adapter) == adapter.estimates = "yes"

Throws(adapter) == ~adapter.software /\ adapter.creates /\ adapter.estimates = "throws"
Usable(adapter) == ~adapter.software /\ adapter.creates /\ Confirmed(adapter)

Current == adapters[adapter_id + 1]

\* EnumAdapterByGpuPreference.
Enumerate ==
    /\ pc = "enumerate"
    /\ pc' = IF adapter_id < Len(adapters) THEN "inspect" ELSE "not_found"
    /\ UNCHANGED <<adapters, adapter_id, device, estimator, heaps, shaders>>

\* The loop goes on without another adapter_id.
SkipSoftware ==
    /\ pc = "inspect"
    /\ Current.software
    /\ pc' = "enumerate"
    /\ UNCHANGED <<adapters, adapter_id, device, estimator, heaps, shaders>>

TakeUnconfirmed ==
    /\ pc = "inspect"
    /\ ~Current.software /\ Current.creates
    /\ device' = adapter_id
    /\ pc' = "verify"
    /\ UNCHANGED <<adapters, adapter_id, estimator, heaps, shaders>>

Take ==
    /\ pc = "inspect"
    /\ Usable(Current)
    /\ device' = adapter_id
    /\ pc' = "verify"
    /\ UNCHANGED <<adapters, adapter_id, estimator, heaps, shaders>>

TryAgain ==
    /\ pc = "inspect"
    /\ ~Current.software /\ ~Usable(Current) /\ ~Throws(Current)
    /\ pc' = "enumerate"
    /\ UNCHANGED <<adapters, adapter_id, device, estimator, heaps, shaders>>

TryNext ==
    /\ pc = "inspect"
    /\ ~Current.software /\ ~Usable(Current) /\ ~Throws(Current)
    /\ adapter_id' = adapter_id + 1
    /\ pc' = "enumerate"
    /\ UNCHANGED <<adapters, device, estimator, heaps, shaders>>

Throw ==
    /\ pc = "inspect"
    /\ Throws(Current)
    /\ pc' = "failed"
    /\ UNCHANGED <<adapters, adapter_id, device, estimator, heaps, shaders>>

\* A debug build asks for WARP and its device, and throws if there is none.
FallBack ==
    /\ pc = "not_found"
    /\ \/ /\ device' = IF Debug THEN Warp ELSE None
          /\ pc' = "verify"
       \/ /\ Debug
          /\ pc' = "failed"
          /\ UNCHANGED device
    /\ UNCHANGED <<adapters, adapter_id, estimator, heaps, shaders>>

\* Verify(device_ != nullptr) throws; otherwise the rest of the constructor makes the queues.
VerifyDevice ==
    /\ pc = "verify"
    /\ pc' = IF device = None THEN "failed" ELSE "construct"
    /\ UNCHANGED <<adapters, adapter_id, device, estimator, heaps, shaders>>

\* The device has a video interface: WARP, which nothing has confirmed, has none.
IsVideoDevice == device # Warp

\* MotionBlurGenerator returns from its constructor, and the program runs on with it.
GiveUp ==
    /\ pc' = "running"
    /\ UNCHANGED <<adapters, adapter_id, device, estimator, heaps, shaders>>

ConstructEstimator ==
    /\ pc = "construct"
    /\ \/ GiveUp
       \/ /\ IsVideoDevice     \* CheckFeatureSupport throws.
          /\ pc' = "failed"
          /\ UNCHANGED <<adapters, adapter_id, device, estimator, heaps, shaders>>
       \/ /\ IsVideoDevice
          /\ estimator' = TRUE
          /\ pc' = "heaps"
          /\ UNCHANGED <<adapters, adapter_id, device, heaps, shaders>>

ConstructHeapOrGoOn ==
    /\ pc = "heaps"
    /\ heaps' \in {heaps, heaps + 1}
    /\ pc' = IF heaps + 1 = FrameCount THEN "shaders" ELSE pc
    /\ UNCHANGED <<adapters, adapter_id, device, estimator, shaders>>

\* One heap after the other, for the frames that overlap.
ConstructHeap ==
    /\ pc = "heaps"
    /\ \/ GiveUp
       \/ /\ heaps' = heaps + 1
          /\ pc' = IF heaps' = FrameCount THEN "shaders" ELSE pc
          /\ UNCHANGED <<adapters, adapter_id, device, estimator, shaders>>

\* The random table comes with the first shader. A failure throws from here on.
ConstructShader ==
    /\ pc = "shaders"
    /\ \/ /\ shaders' = shaders + 1
          /\ pc' = IF shaders' = ShaderCount THEN "running" ELSE pc
       \/ /\ pc' = "failed"
          /\ UNCHANGED shaders
    /\ UNCHANGED <<adapters, adapter_id, device, estimator, heaps>>

Stop == pc \in {"running", "failed"} /\ UNCHANGED start_vars

StartNext ==
    \/ Enumerate \/ SkipSoftware \/ Take \/ TryNext \/ Throw \/ FallBack \/ VerifyDevice
    \/ ConstructEstimator \/ ConstructHeap \/ ConstructShader
    \/ Stop

\* One thread, which always goes on.
StartSpec == StartInit /\ [][StartNext]_start_vars /\ WF_start_vars(StartNext)

(***************************************************************************)
(* Properties                                                              *)
(***************************************************************************)

StartTypeOK ==
    /\ adapters \in AdapterLists
    /\ adapter_id \in 0 .. Len(adapters)
    /\ device \in {None, Warp} \cup (0 .. Len(adapters) - 1)
    /\ pc \in {"enumerate", "inspect", "not_found", "verify", "construct", "heaps",
               "shaders", "running", "failed"}
    /\ estimator \in BOOLEAN
    /\ heaps \in 0 .. FrameCount
    /\ shaders \in 0 .. ShaderCount

\* The device is that of the first usable adapter, and WARP only when no hardware adapter is
\* usable: what the estimator is made on has been confirmed, or is a debug build's WARP.
FirstUsableTaken ==
    /\ StartTypeOK
    /\ device \in Nat =>
         /\ Usable(adapters[device + 1])
         /\ \A i \in 1 .. device : ~Usable(adapters[i])
    /\ device = Warp => Debug /\ \A i \in DOMAIN adapters : ~Usable(adapters[i])

\* A generator has none of its shaders or all that AddFrame uses: the estimator, a heap for
\* each frame in flight and every shader. It never has shaders alone.
NoShadersAlone ==
    /\ shaders > 0 => estimator /\ heaps = FrameCount
    /\ pc = "running" => shaders \in {0, ShaderCount}

\* The search is at a software adapter, which SkipSoftware never leaves.
AtSoftware ==
    /\ pc \in {"enumerate", "inspect"}
    /\ adapter_id < Len(adapters) /\ Current.software

\* The first usable adapter comes before all software adapters and all that throw.
UsableFirst ==
    \E i \in DOMAIN adapters :
        /\ Usable(adapters[i])
        /\ \A j \in 1 .. i : ~adapters[j].software /\ ~Throws(adapters[j])

\* The search ends, with or without a device, or it stays at a software adapter for ever; it
\* never does so when a usable adapter comes first, which is then found.
SearchEnds ==
    /\ <>(pc \in {"running", "failed"}) \/ <>[]AtSoftware
    /\ UsableFirst => <>(device \in Nat)

=============================================================================
