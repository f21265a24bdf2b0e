---------------------------- MODULE MCGenerator ----------------------------
(***************************************************************************)
(* Two parts of the generator for TLC: how it starts, and the sizes of its *)
(* textures. They share no state: a behaviour is one of one part, and the  *)
(* variables of the other stay as they are.                                *)
(***************************************************************************)
EXTENDS DeviceSelection, MotionVectorSizes

Seqs == INSTANCE SequencesExt

VARIABLE part

\* Every list of up to three adapters.
UpToThree == Seqs!BoundedSeq(Adapter, 3)

\* Frames around every limit, for motion estimators of several ranges.
Supported(max_width, max_height, min_width, min_height) ==
    [MaxWidth |-> max_width, MaxHeight |-> max_height, MinWidth |-> min_width, MinHeight |-> min_height]
Estimators ==
    {Supported(4096, 4096, 64, 64), Supported(1921, 1089, 32, 32), Supported(1280, 720, 600, 400),
     Supported(901, 901, 513, 129)}
FrameWidths ==
    {1, 2, 3, 63, 128, 321, 511, 512, 513, 640, 853, 900, 901, 1000, 1279, 1280, 1366, 1919, 1920, 1921,
     2560, 3840, 4093, 7680}
FrameHeights ==
    {1, 2, 5, 64, 129, 240, 383, 384, 385, 480, 600, 720, 768, 900, 1079, 1080, 1081, 1440, 2160, 2161, 4320}

\* What the part that stays as it is begins with.
OneStart ==
    adapters = <<[software |-> TRUE, creates |-> FALSE, estimates |-> "no"]>>
OneSize == range = Supported(4096, 4096, 64, 64)

GeneratorInit ==
    /\ part \in {"start", "sizes"}
    /\ StartInit /\ (part # "start" => OneStart)
    /\ SizesInit /\ (part # "sizes" => OneSize)

Starts == part = "start" /\ StartNext /\ UNCHANGED <<part, size_vars>>
Sizes == part = "sizes" /\ SizesNext /\ UNCHANGED <<part, start_vars>>

generator_vars == <<part, start_vars, size_vars>>

GeneratorNext == Starts \/ Sizes

\* As in DeviceSelection, the part goes on.
GeneratorSpec ==
    GeneratorInit /\ [][GeneratorNext]_generator_vars /\ WF_generator_vars(GeneratorNext)
=============================================================================
