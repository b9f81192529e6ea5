----------------------------- MODULE FrameRings -----------------------------
(***************************************************************************)
(* The video classes of OpenVision keep the last frames they were given in *)
(* a vector that they use as a ring: each call stores its frame at index   *)
(* and works on frames found at offsets from it. Which frames those are,   *)
(* and when a class has been given enough of them, is modelled here; what  *)
(* is computed from them is not.                                           *)
(*                                                                         *)
(* A behaviour follows one object, of class cls. Frames are numbered from  *)
(* 1 in the order in which they are given; 0 is the empty Mat.             *)
(***************************************************************************)
EXTENDS Integers, Sequences

CONSTANTS
  Classes,       \* the classes a behaviour may follow
  VoSlots,       \* n, the size of ImgVo's ring
  MaxPoints,     \* bound on the features of one frame
  MaxFrames      \* bound on the frames given

ClassNames == {"OpticalFlow", "DenseOF", "temporalDerivative", "Temporal_Filter",
               "Fast3D", "Harris3D", "ImgVo"}

\* ImgVo makes room for ten frames, whatever n is.
ASSUME RingAssumption ==
  /\ Classes \subseteq ClassNames
  /\ VoSlots \in 2 .. 10
  /\ MaxPoints \in Nat /\ MaxFrames \in Nat

VARIABLES
  cls,
  images, index, \* the ring and the slot of the next frame
  init,          \* init or start: whether the class has begun to compute
  given,         \* how many frames it was given
  used,          \* the frames its last call computed with, in the order of the code
  shown,         \* current_frame, the frame that the result is about
  blocks,        \* Harris3D: the length of Dt, Dx, Dy and block_data
  k,             \* Temporal_Filter: the frames accumulated
  features,      \* ImgVo: how many features each slot has
  said,          \* how the last call left: it returned, it raised, or the process ended in it
  lost           \* history: whether a call has raised

vars == <<cls, images, index, init, given, used, shown, blocks, k, features, said, lost>>

aperture_size == 3      \* Fast3D
ksize == 5              \* Harris3D: block_size[2]
kernel_size == 3        \* Temporal_Filter: ksize

SizeOf(c) ==
  CASE c \in {"OpticalFlow", "DenseOF"} -> 2
    [] c \in {"temporalDerivative", "Temporal_Filter", "Fast3D"} -> 3
    [] c = "Harris3D" -> ksize + 2
    [] c = "ImgVo" -> VoSlots

N == SizeOf(cls)

Init ==
  /\ cls \in Classes
  /\ images = [s \in 0 .. N - 1 |-> 0]
  /\ index = 0 /\ init = FALSE /\ given = 0
  /\ used = <<>> /\ shown = 0 /\ blocks = 0 /\ k = 0
  /\ features = [s \in 0 .. N - 1 |-> 0] /\ said = "returned" /\ lost = FALSE

-----------------------------------------------------------------------------
getIndex(j) == IF j < 0 THEN j + N ELSE IF j > N THEN j - N ELSE j

Give(c) == cls = c /\ given < MaxFrames /\ given' = given + 1

\* The ring with the frame that is given now.
Stored == [images EXCEPT ![index] = given + 1]

Advance == index' = (index + 1) % N

\* OpticalFlow::compute compares the frame with the one before, from the second call on.
OpticalFlow_compute ==
  /\ Give("OpticalFlow")
  /\ images' = Stored
  /\ used' = IF init THEN <<Stored[getIndex(index - 1)], Stored[index]>> ELSE <<>>
  /\ init' = TRUE
  /\ Advance
  /\ UNCHANGED <<cls, shown, blocks, k, features, said, lost>>

\* DenseOF::compute. Callers pass _init with the first frame of a sequence.
DenseOF_compute(_init) ==
  /\ Give("DenseOF")
  /\ given = 0 => _init
  /\ images' = Stored
  /\ init' = TRUE
  /\ IF _init
       THEN used' = <<>> /\ Advance
       ELSE used' = <<Stored[getIndex(index - 1)], Stored[index]>> /\ UNCHANGED index
  /\ UNCHANGED <<cls, shown, blocks, k, features, said, lost>>

\* temporalDerivative::temporalDerivativeFilter, which returns before it could set init.
temporalDerivativeFilter ==
  /\ Give("temporalDerivative")
  /\ images' = Stored
  /\ IF ~init
       THEN used' = <<>> /\ UNCHANGED index
       ELSE /\ used' = <<Stored[getIndex(index - 1)], Stored[index], Stored[getIndex(index + 1)]>>
            /\ Advance
  /\ UNCHANGED <<cls, init, shown, blocks, k, features, said, lost>>

\* Temporal_Filter::temporal_filter returns its first frames as they are.
temporal_filter ==
  /\ Give("Temporal_Filter")
  /\ images' = Stored
  /\ k' = k + 1
  /\ used' = IF k < kernel_size
               THEN <<>>
               ELSE [l \in 1 .. kernel_size |-> Stored[(index + l - 1) % kernel_size]]
  /\ Advance
  /\ UNCHANGED <<cls, init, shown, blocks, features, said, lost>>

\* Whether Fast3D::run computes, now that it was given a frame.
Fast3D_starts == init \/ index = aperture_size - 1

\* Fast3D::run: the temporal derivative of three frames, the middle one of which is
\* reported.
Fast3D_run ==
  /\ Give("Fast3D")
  /\ images' = Stored
  /\ init' = Fast3D_starts
  /\ IF Fast3D_starts
       THEN /\ used' = [l \in 1 .. 3 |-> Stored[(index + l) % 3]]
            /\ shown' = Stored[(index + 2) % aperture_size]
       ELSE used' = <<>> /\ UNCHANGED shown
  /\ Advance
  /\ UNCHANGED <<cls, blocks, k, features, said, lost>>

\* Fast3D::reset and set_status: the frames and the index stay.
Fast3D_reset ==
  /\ cls = "Fast3D"
  /\ init' = FALSE
  /\ used' = <<>>
  /\ UNCHANGED <<cls, images, index, given, shown, blocks, k, features, said, lost>>

Harris3D_starts == init \/ index = ksize + 2 - 1

\* The frames that SpatioTemporalDerivativeFilter::process takes the temporal derivative
\* of, for each of the blocks.
\* Mutant: each block starts one frame early.
TimeBlocksShifted == [b \in 0 .. ksize - 1 |->
                 [l \in 1 .. 3 |-> Stored[(index + l - 1 + b) % (ksize + 2)]]]
TimeBlocks == [b \in 0 .. ksize - 1 |->
                 [l \in 1 .. 3 |-> Stored[(index + l + b) % (ksize + 2)]]]

\* The block that TemporalBoxFilter::process, called with index 0, gives the middle and
\* largest weight of its kernel.
Heaviest == (0 + 1 + ksize \div 2) % ksize

CentreOffset == index - ksize \div 2

Harris3D_run ==
  /\ Give("Harris3D")
  /\ images' = Stored
  /\ init' = Harris3D_starts
  /\ IF Harris3D_starts
       THEN /\ used' = TimeBlocks
            /\ shown' = Stored[IF CentreOffset < 0 THEN CentreOffset + ksize + 2
                                                   ELSE CentreOffset]
            /\ UNCHANGED blocks
       ELSE /\ blocks' = IF index < ksize THEN blocks + 1 ELSE blocks
            /\ used' = <<>> /\ UNCHANGED shown
  /\ Advance
  /\ UNCHANGED <<cls, k, features, said, lost>>

-----------------------------------------------------------------------------
(* ImgVo::run. No code of the repository calls it.                         *)

Previous == IF index - 1 < 0 THEN index - 1 + N ELSE index - 1

\* Whether run compares the frame with the one before.
Matches == init \/ index >= 1

\* What every call does first: store the frame, detect its features, set init. (The line of
\* matchFeatures that clears init is not reached: tracked points are as many as there were.)
ImgVo_gives == Give("ImgVo") /\ said # "ended" /\ images' = Stored /\ init' = Matches

\* The first frame has nothing before it.
ImgVo_begin(detected) ==
  /\ ImgVo_gives /\ ~Matches
  /\ features' = [features EXCEPT ![index] = detected]
  /\ used' = <<>> /\ said' = "returned"
  /\ Advance
  /\ UNCHANGED <<cls, shown, blocks, k, lost>>

\* calcOpticalFlowPyrLK raises when the frame before has no points: the new frame and its
\* features are in their slot, and index stays.
ImgVo_raise(detected) ==
  /\ ImgVo_gives /\ Matches /\ features[Previous] = 0
  /\ features' = [features EXCEPT ![index] = detected]
  /\ used' = <<>> /\ said' = "raised" /\ lost' = TRUE
  /\ UNCHANGED <<cls, index, shown, blocks, k>>

\* matchFeatures tracks the points of the frame before and keeps those that moved, in both
\* slots; the features detected in the new frame are overwritten.
\* Mutant: the features of the new frame stay.
MatchedInOld(detected, kept) ==
  [features EXCEPT ![Previous] = kept, ![index] = detected]
Matched(detected, kept) ==
  [features EXCEPT ![Previous] = kept, ![index] = kept]

\* computeRotation: estimateRigidTransform raises on no points, and may find no transform for
\* some, whose row 0 is then read through a null pointer; the other methods compute nothing.
Rotations(kept) == IF kept = 0 THEN {"returned", "raised"} ELSE {"returned", "ended"}

ImgVo_match(detected, kept) ==
  /\ ImgVo_gives /\ Matches /\ features[Previous] > 0
  /\ kept <= features[Previous]
  /\ features' = Matched(detected, kept)
  /\ used' = <<Stored[Previous], Stored[index]>>
  /\ said' \in Rotations(kept)
  /\ lost' = (lost \/ said' = "raised")
  /\ IF said' = "returned" THEN Advance ELSE UNCHANGED index
  /\ UNCHANGED <<cls, shown, blocks, k>>

-----------------------------------------------------------------------------
Next ==
  \/ OpticalFlow_compute
  \/ \E _init \in BOOLEAN : DenseOF_compute(_init)
  \/ temporalDerivativeFilter
  \/ temporal_filter
  \/ Fast3D_run \/ Fast3D_reset
  \/ Harris3D_run
  \/ \E detected \in 0 .. MaxPoints : ImgVo_begin(detected) \/ ImgVo_raise(detected)
  \/ \E detected, kept \in 0 .. MaxPoints : ImgVo_match(detected, kept)

Spec == Init /\ [][Next]_vars

-----------------------------------------------------------------------------
(* Properties.                                                             *)

TypeOK ==
  /\ cls \in Classes
  /\ images \in [0 .. N - 1 -> 0 .. MaxFrames]
  /\ index \in 0 .. N - 1 /\ init \in BOOLEAN /\ given \in 0 .. MaxFrames
  /\ shown \in 0 .. MaxFrames /\ blocks \in 0 .. ksize /\ k \in 0 .. MaxFrames
  /\ features \in [0 .. N - 1 -> 0 .. MaxPoints]
  /\ said \in {"returned", "raised", "ended"} /\ lost \in BOOLEAN

\* Whether index moves with every call.
Rings == cls \notin {"DenseOF", "temporalDerivative"} /\ said = "returned"

\* The slot d steps behind index holds the d-th last frame: what every offset in the code
\* relies on. Not of the two classes whose index stops moving, nor once a call has raised.
RingHoldsLast ==
  Rings => \A d \in 1 .. N :
             images[(index - d + N) % N] = IF d <= given THEN given - d + 1 ELSE 0

\* A class computes with the latest frames only, and where the order matters in the order
\* in which they were given, wherever index stands and however often the object was reset:
\* a comparison with the frame just before; Fast3D on three successive frames, of which
\* it reports the middle one; Harris3D on the five triples of successive frames in its
\* ring, reporting the middle of the triple whose block weighs most.
WindowIsRecent ==
  used # <<>> =>
    CASE cls \in {"OpticalFlow", "ImgVo"} -> used = <<given - 1, given>>
      [] cls = "Temporal_Filter" -> {used[l] : l \in 1 .. 3} = given - 2 .. given
      [] cls = "Fast3D" -> used = [l \in 1 .. 3 |-> given - 3 + l] /\ shown = used[2]
      [] cls = "Harris3D" ->
           /\ used = [b \in 0 .. ksize - 1 |-> [l \in 1 .. 3 |-> given - (ksize + 2) + b + l]]
           /\ shown = used[Heaviest][2]
      [] OTHER -> TRUE

\* No class computes with a slot that was never filled, and Harris3D has made a place for
\* each of its blocks by the time it computes.
NothingEmptyIsUsed ==
  /\ used # <<>> /\ cls # "Harris3D" => \A l \in 1 .. Len(used) : used[l] # 0
  /\ used # <<>> /\ cls = "Harris3D" =>
       /\ blocks = ksize
       /\ \A b \in 0 .. ksize - 1, l \in 1 .. 3 : used[b][l] # 0

\* The three together: what a class computes with is what was given to it last.
RingIsSound == RingHoldsLast /\ WindowIsRecent /\ NothingEmptyIsUsed

\* ImgVo::drawPoints draws the features of the last two slots in pairs, as many as the
\* last has, so the one before must have as many whenever init lets it draw, also after
\* a call that raised with its features in a slot and index not moved.
PointsArePaired ==
  cls = "ImgVo" /\ init /\ said # "ended" =>
    features[(index - 1 + N) % N] <= features[(index - 2 + N) % N]

\* Features are taken from the first frame only and then tracked, so ImgVo cannot recover:
\* once a call has raised, so has every later one, whatever was detected in its frame.
LostForGood == lost => said = "raised"

\* Both: the points drawn are pairs for as long as run returns, and when it has raised none are
\* drawn that were never matched; tracking that is lost stays lost.
TrackingIsPaired == PointsArePaired /\ LostForGood
=============================================================================
