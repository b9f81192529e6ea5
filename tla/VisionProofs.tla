---------------------------- MODULE VisionProofs ----------------------------
(***************************************************************************)
(* Proofs about the frames that the classes keep, the choice of corners,   *)
(* the window of the mean shift and the stretching of contrast.  For every *)
(* number of frames and features and every size of ImgVo's ring, what a    *)
(* class computes with is what it was given last (RingIsSound), and ImgVo  *)
(* keeps the points it draws paired (TrackingIsPaired).  For any           *)
(* image, responses, distances and limits, the corners that filter_corners *)
(* returns are the best ones (CornersAreTheBest).  For windows and images  *)
(* of every size, the window stays inside the image and, when it has a     *)
(* middle, does not lose the object it moves to (WindowStays).  For any    *)
(* images in any order, those like the first one are stretched as a whole  *)
(* (ContrastStretched).                                                    *)
(***************************************************************************)
EXTENDS FrameRings, CornerSelection, MeanShift, ContrastStretching, SequenceTheorems,
        FiniteSetTheorems, FunctionTheorems, WellFoundedInduction, TLAPS

-----------------------------------------------------------------------------
(* Slots without remainders.                                               *)

\* The slot e steps behind index, and how many steps slot s is behind it.
Behind(e) == IF index - e >= 0 THEN index - e ELSE index - e + N
Age(s)    == IF s < index THEN index - s ELSE index - s + N

\* The frame given d calls ago, 0 if there was none.
Frame(d) == IF d <= given THEN given - d + 1 ELSE 0

\* Every slot holds the frame of its age.
SlotsHoldLast == Rings => \A s \in 0 .. N - 1 : images[s] = Frame(Age(s))

\* What each class's flags and counters say of the frames it was given.
ClassInv ==
  /\ cls = "OpticalFlow" => (init => given >= 1)
  /\ cls = "DenseOF" => (given >= 1 => images[1 - index] # 0)
  /\ cls = "temporalDerivative" => ~init
  /\ cls = "Temporal_Filter" => k = given
  /\ cls = "Fast3D" => (init => given >= 2) /\ index <= given
  /\ cls = "Harris3D" =>
       /\ init => given >= 6
       /\ index <= given
       /\ blocks = IF given < ksize THEN given ELSE ksize
       /\ ~init => given <= ksize + 1 /\ index = given
  /\ cls = "ImgVo" => (init => given >= 1) /\ index <= given

\* ImgVo: a call raised just when the last one did, and then the slot before index has no points.
LostInv ==
  /\ cls # "ImgVo" => said = "returned"
  /\ lost <=> said = "raised"
  /\ said = "raised" => init /\ features[Previous] = 0

RingInv ==
  /\ TypeOK
  /\ SlotsHoldLast
  /\ ClassInv
  /\ WindowIsRecent
  /\ NothingEmptyIsUsed
  /\ PointsArePaired
  /\ LostInv

-----------------------------------------------------------------------------
(* Rings in general.                                                       *)

\* Every ring has two to ten slots.
LEMMA RingSize == ASSUME RingAssumption, cls \in Classes PROVE N \in 2 .. 10
BY DEF RingAssumption, ClassNames, N, SizeOf, ksize

\* The remainder of a number less than twice the divisor.
LEMMA Remainder ==
  ASSUME NEW n \in 2 .. 10, NEW x \in 0 .. 2 * n - 1
  PROVE  x % n = IF x < n THEN x ELSE x - n
<1>1. CASE n = 2  BY <1>1
<1>2. CASE n = 3  BY <1>2
<1>3. CASE n = 4  BY <1>3
<1>4. CASE n = 5  BY <1>4
<1>5. CASE n = 6  BY <1>5
<1>6. CASE n = 7  BY <1>6
<1>7. CASE n = 8  BY <1>7
<1>8. CASE n = 9  BY <1>8
<1>9. CASE n = 10 BY <1>9
<1> QED
  BY <1>1, <1>2, <1>3, <1>4, <1>5, <1>6, <1>7, <1>8, <1>9

\* The slot d steps back.
LEMMA StepsBack ==
  ASSUME NEW n \in 2 .. 10, NEW j \in 0 .. n - 1, NEW d \in 1 .. n
  PROVE  (j - d + n) % n = IF j >= d THEN j - d ELSE j - d + n
<1>1. j - d + n \in 0 .. 2 * n - 1
  OBVIOUS
<1>2. (j - d + n) % n = IF j - d + n < n THEN j - d + n ELSE j - d + n - n
  BY <1>1, Remainder
<1> QED
  BY <1>2

\* Slots that hold the frames of their ages are what RingHoldsLast demands.
LEMMA SlotsHoldRing ==
  ASSUME RingAssumption, TypeOK, SlotsHoldLast PROVE RingHoldsLast
<1> SUFFICES ASSUME Rings, NEW d \in 1 .. N
             PROVE  images[(index - d + N) % N] = IF d <= given THEN given - d + 1 ELSE 0
  BY DEF RingHoldsLast
<1>1. N \in 2 .. 10 /\ index \in 0 .. N - 1 /\ given \in Nat
  BY RingSize DEF TypeOK
<1> HIDE DEF N
<1>2. (index - d + N) % N = IF index >= d THEN index - d ELSE index - d + N
  BY <1>1, StepsBack
<1>3. index >= d \/ index < d
  BY <1>1
<1>4. (index - d + N) % N \in 0 .. N - 1
  BY <1>1, <1>2, <1>3
<1>5. Age((index - d + N) % N) = d
  BY <1>1, <1>2, <1>3 DEF Age
<1> QED
  BY <1>4, <1>5 DEF SlotsHoldLast, Frame

\* The frames that a call finds in the ring once it has stored its own.
LEMMA StoredFrames ==
  ASSUME RingAssumption, TypeOK, SlotsHoldLast, Rings, NEW e \in 0 .. N - 1
  PROVE  /\ Behind(e) \in 0 .. N - 1
         /\ Stored[Behind(e)] = IF e <= given THEN given + 1 - e ELSE 0
<1>1. /\ N \in 2 .. 10 /\ index \in 0 .. N - 1 /\ given \in Nat
      /\ images \in [0 .. N - 1 -> 0 .. MaxFrames]
  BY RingSize DEF TypeOK
<1> HIDE DEF N
<1>2. Behind(e) \in 0 .. N - 1 /\ (Behind(e) = index <=> e = 0)
  BY <1>1 DEF Behind
<1>3. e # 0 => Age(Behind(e)) = e
  BY <1>1 DEF Behind, Age
<1>4. CASE e = 0
  BY <1>1, <1>2, <1>4 DEF Stored
<1>5. CASE e # 0
  <2>1. Stored[Behind(e)] = images[Behind(e)]
    BY <1>1, <1>2, <1>5 DEF Stored
  <2>2. images[Behind(e)] = Frame(e)
    BY <1>2, <1>3, <1>5 DEF SlotsHoldLast
  <2> QED
    BY <1>1, <1>2, <2>1, <2>2 DEF Frame
<1> QED
  BY <1>4, <1>5

\* getIndex finds the frame before.
LEMMA IndexBefore ==
  ASSUME RingAssumption, TypeOK
  PROVE  getIndex(index - 1) = Behind(1) /\ Previous = Behind(1)
<1>1. N \in 2 .. 10 /\ index \in 0 .. N - 1
  BY RingSize DEF TypeOK
<1> QED
  BY <1>1 DEF getIndex, Previous, Behind

\* A call that stores its frame and advances keeps the ring, and index stays in range.
LEMMA AdvanceKeepsRing ==
  ASSUME RingAssumption, TypeOK, SlotsHoldLast, cls' = cls, said' = said,
         given < MaxFrames, given' = given + 1, images' = Stored, Advance
  PROVE  /\ SlotsHoldLast'
         /\ N' = N /\ N \in 2 .. 10
         /\ index' = IF index + 1 = N THEN 0 ELSE index + 1
         /\ index' \in 0 .. N - 1
         /\ given' \in 0 .. MaxFrames
         /\ images' \in [0 .. N - 1 -> 0 .. MaxFrames]
<1>1. /\ N \in 2 .. 10 /\ index \in 0 .. N - 1 /\ given \in Nat /\ given \in 0 .. MaxFrames
      /\ images \in [0 .. N - 1 -> 0 .. MaxFrames] /\ MaxFrames \in Nat
  BY RingSize DEF TypeOK, RingAssumption
<1>2. N' = N /\ (Rings' <=> Rings)
  BY DEF N, Rings
<1> HIDE DEF N
<1>3. index' = IF index + 1 = N THEN 0 ELSE index + 1
  BY <1>1, Remainder DEF Advance
<1>4. SlotsHoldLast'
  <2> SUFFICES ASSUME Rings, NEW s \in 0 .. N - 1 PROVE images'[s] = Frame(Age(s))'
    BY <1>2 DEF SlotsHoldLast
  <2>1. images'[s] = IF s = index THEN given + 1 ELSE images[s]
    BY <1>1 DEF Stored
  <2>2. Age(s)' = IF s = index THEN 1 ELSE Age(s) + 1
    BY <1>1, <1>2, <1>3 DEF Age
  <2>3. Age(s) \in 1 .. N
    BY <1>1 DEF Age
  <2>4. images[s] = Frame(Age(s))
    BY DEF SlotsHoldLast
  <2>5. Frame(Age(s))' = IF Age(s)' <= given' THEN given' - Age(s)' + 1 ELSE 0
    BY DEF Frame
  <2> QED
    BY <1>1, <2>1, <2>2, <2>3, <2>4, <2>5 DEF Frame
<1>5. images' \in [0 .. N - 1 -> 0 .. MaxFrames]
  BY <1>1 DEF Stored
<1> QED
  BY <1>1, <1>2, <1>3, <1>4, <1>5

-----------------------------------------------------------------------------
(* The invariant, class by class.                                          *)

\* The initial states satisfy the invariant.
LEMMA InitRingInv == ASSUME RingAssumption, Init PROVE RingInv
<1>1. N \in 2 .. 10
  BY RingSize DEF Init
<1> HIDE DEF N
<1> USE DEF Init
<1>2. TypeOK
  BY <1>1 DEF TypeOK, RingAssumption, ksize
<1>3. SlotsHoldLast
  BY <1>1 DEF SlotsHoldLast, Frame, Age
<1>4. ClassInv
  BY DEF ClassInv, ksize
<1> QED
  BY <1>2, <1>3, <1>4 DEF RingInv, WindowIsRecent, NothingEmptyIsUsed, PointsArePaired, LostInv

\* OpticalFlow compares a frame with the one before.
LEMMA OpticalFlowRingInv ==
  ASSUME RingAssumption, RingInv, OpticalFlow_compute PROVE RingInv'
<1> USE DEF RingInv
<1>1. cls = "OpticalFlow" /\ Rings /\ given \in Nat /\ cls' = cls
  BY DEF OpticalFlow_compute, Give, Rings, TypeOK, LostInv
<1>2. /\ SlotsHoldLast' /\ N' = N /\ N \in 2 .. 10 /\ index' \in 0 .. N - 1
      /\ given' \in 0 .. MaxFrames /\ images' \in [0 .. N - 1 -> 0 .. MaxFrames]
  BY AdvanceKeepsRing DEF OpticalFlow_compute, Give
<1>3. TypeOK'
  BY <1>2 DEF OpticalFlow_compute, TypeOK
<1>4. used' = IF init THEN <<given, given + 1>> ELSE <<>>
  <2>1. Stored[Behind(1)] = IF 1 <= given THEN given ELSE 0
    BY <1>1, <1>2, StoredFrames
  <2>2. Stored[index] = given + 1
    BY <1>2 DEF Stored, TypeOK
  <2> QED
    BY <1>1, <2>1, <2>2, IndexBefore DEF OpticalFlow_compute, ClassInv
<1>5. given' = given + 1 /\ init'
  BY DEF OpticalFlow_compute, Give
<1>6. ClassInv'
  BY <1>1, <1>5 DEF ClassInv
<1>7. WindowIsRecent'
  BY <1>1, <1>4, <1>5 DEF WindowIsRecent
<1>8. NothingEmptyIsUsed'
  BY <1>1, <1>4, <1>5 DEF NothingEmptyIsUsed, ClassInv
<1> QED
  BY <1>1, <1>2, <1>3, <1>6, <1>7, <1>8 DEF PointsArePaired, LostInv, OpticalFlow_compute

\* DenseOF computes with two frames it was given, whichever they are.
LEMMA DenseOFRingInv ==
  ASSUME RingAssumption, RingInv, NEW b \in BOOLEAN, DenseOF_compute(b) PROVE RingInv'
<1> USE DEF RingInv
<1>1. /\ cls = "DenseOF" /\ cls' = cls /\ N = 2 /\ N' = 2 /\ ~Rings /\ ~Rings'
      /\ given \in 0 .. MaxFrames /\ given < MaxFrames /\ given' = given + 1
      /\ MaxFrames \in Nat
  BY DEF DenseOF_compute, Give, Rings, TypeOK, N, SizeOf, RingAssumption
<1>2. /\ images \in [0 .. 1 -> 0 .. MaxFrames] /\ index \in 0 .. 1
      /\ images' = [images EXCEPT ![index] = given + 1]
  BY <1>1 DEF TypeOK, DenseOF_compute, Stored
<1>3. index' = IF b THEN 1 - index ELSE index
  BY <1>1, <1>2, Remainder DEF DenseOF_compute, Advance
<1>4. TypeOK'
  BY <1>1, <1>2, <1>3 DEF DenseOF_compute, TypeOK
<1>5. used' = IF b THEN <<>> ELSE <<images[1 - index], given + 1>>
  <2>1. getIndex(index - 1) = 1 - index
    BY <1>1, <1>2 DEF getIndex
  <2> QED
    BY <1>1, <1>2, <2>1 DEF DenseOF_compute, Stored
<1>6. given = 0 => b
  BY DEF DenseOF_compute
<1>7. ClassInv'
  BY <1>1, <1>2, <1>3, <1>6 DEF ClassInv
<1>8. WindowIsRecent'
  BY <1>1 DEF WindowIsRecent
<1>9. NothingEmptyIsUsed'
  BY <1>1, <1>5, <1>6 DEF NothingEmptyIsUsed, ClassInv
<1> QED
  BY <1>1, <1>4, <1>7, <1>8, <1>9
    DEF SlotsHoldLast, PointsArePaired, LostInv, DenseOF_compute

\* temporalDerivative never computes.
LEMMA TemporalDerivativeRingInv ==
  ASSUME RingAssumption, RingInv, temporalDerivativeFilter PROVE RingInv'
<1> USE DEF RingInv
<1>1. /\ cls = "temporalDerivative" /\ cls' = cls /\ N = 3 /\ N' = 3 /\ ~Rings /\ ~Rings'
      /\ given \in 0 .. MaxFrames /\ given < MaxFrames /\ given' = given + 1
      /\ ~init /\ used' = <<>> /\ index' = index /\ ~init'
  BY DEF temporalDerivativeFilter, Give, Rings, TypeOK, N, SizeOf, ClassInv
<1>2. TypeOK'
  BY <1>1 DEF temporalDerivativeFilter, TypeOK, Stored, RingAssumption
<1> QED
  BY <1>1, <1>2 DEF SlotsHoldLast, ClassInv, WindowIsRecent, NothingEmptyIsUsed,
    PointsArePaired, LostInv, temporalDerivativeFilter

\* Temporal_Filter computes with the last three frames, in the order of their slots.
LEMMA TemporalFilterRingInv ==
  ASSUME RingAssumption, RingInv, temporal_filter PROVE RingInv'
<1> USE DEF RingInv
<1>1. /\ cls = "Temporal_Filter" /\ Rings /\ given \in Nat /\ cls' = cls
      /\ given' = given + 1 /\ N = 3 /\ index \in 0 .. 2 /\ given < MaxFrames
      /\ k = given /\ k' = given + 1
  BY DEF temporal_filter, Give, Rings, TypeOK, N, SizeOf, ClassInv, LostInv
<1>2. /\ SlotsHoldLast' /\ N' = N /\ index' \in 0 .. N - 1
      /\ given' \in 0 .. MaxFrames /\ images' \in [0 .. N - 1 -> 0 .. MaxFrames]
  BY AdvanceKeepsRing DEF temporal_filter, Give
<1>3. TypeOK'
  BY <1>1, <1>2 DEF temporal_filter, TypeOK, RingAssumption
<1>4. used' = IF given < 3 THEN <<>> ELSE [l \in 1 .. 3 |-> Stored[(index + l - 1) % 3]]
  BY <1>1 DEF temporal_filter, kernel_size
<1>5. /\ Stored[Behind(0)] = given + 1
      /\ Stored[Behind(1)] = IF 1 <= given THEN given ELSE 0
      /\ Stored[Behind(2)] = IF 2 <= given THEN given - 1 ELSE 0
  <2>1. 0 \in 0 .. N - 1 /\ 1 \in 0 .. N - 1 /\ 2 \in 0 .. N - 1
    BY <1>1
  <2> QED
    BY <1>1, <2>1, StoredFrames
<1>6. \A l \in 1 .. 3 : (index + l - 1) % 3 = IF l = 1 THEN Behind(0)
                                            ELSE IF l = 2 THEN Behind(2) ELSE Behind(1)
  BY <1>1 DEF Behind
<1>7. given >= 3 => /\ used' \in [1 .. 3 -> Int] /\ used'[1] = given + 1
                    /\ used'[2] = given - 1 /\ used'[3] = given
  <2> SUFFICES ASSUME given >= 3 PROVE /\ used' \in [1 .. 3 -> Int] /\ used'[1] = given + 1
                                       /\ used'[2] = given - 1 /\ used'[3] = given
    OBVIOUS
  <2>1. used' = [l \in 1 .. 3 |-> Stored[(index + l - 1) % 3]]
    BY <1>1, <1>4
  <2>2. \A l \in 1 .. 3 : Stored[(index + l - 1) % 3] = IF l = 1 THEN given + 1
                                            ELSE IF l = 2 THEN given - 1 ELSE given
    BY <1>1, <1>5, <1>6
  <2> QED
    BY <1>1, <2>1, <2>2
<1>8. given < 3 => used' = <<>>
  BY <1>1, <1>4
<1>9. ClassInv'
  BY <1>1 DEF ClassInv
<1>10. WindowIsRecent'
  <2> SUFFICES ASSUME given >= 3
               PROVE  {used'[l] : l \in 1 .. 3} = given + 1 - 2 .. given + 1
    BY <1>1, <1>8 DEF WindowIsRecent
  <2> QED
    BY <1>1, <1>7
<1>11. NothingEmptyIsUsed'
  <2> SUFFICES ASSUME given >= 3, NEW l \in 1 .. Len(used') PROVE used'[l] # 0
    BY <1>1, <1>8 DEF NothingEmptyIsUsed
  <2>1. Len(used') = 3
    BY <1>7
  <2> QED
    BY <1>1, <1>7, <2>1
<1> QED
  BY <1>1, <1>2, <1>3, <1>9, <1>10, <1>11 DEF PointsArePaired, LostInv, temporal_filter

\* Fast3D computes with the last three frames in order and reports the middle one.
LEMMA Fast3DRingInv ==
  ASSUME RingAssumption, RingInv, Fast3D_run PROVE RingInv'
<1> USE DEF RingInv
<1>1. /\ cls = "Fast3D" /\ Rings /\ given \in Nat /\ cls' = cls
      /\ given' = given + 1 /\ N = 3 /\ index \in 0 .. 2 /\ given < MaxFrames
      /\ init' = Fast3D_starts /\ index <= given
  <2>1. cls = "Fast3D" /\ cls' = cls /\ given' = given + 1 /\ given < MaxFrames
    BY DEF Fast3D_run, Give
  <2>2. N = 3 /\ Rings
    BY <2>1 DEF N, SizeOf, Rings, LostInv
  <2> QED
    BY <2>1, <2>2 DEF Fast3D_run, TypeOK, ClassInv
<1>2. /\ SlotsHoldLast' /\ N' = N /\ index' \in 0 .. N - 1
      /\ index' = IF index + 1 = N THEN 0 ELSE index + 1
      /\ given' \in 0 .. MaxFrames /\ images' \in [0 .. N - 1 -> 0 .. MaxFrames]
  BY AdvanceKeepsRing DEF Fast3D_run, Give
<1>3. Fast3D_starts => given >= 2
  BY <1>1 DEF Fast3D_starts, aperture_size, ClassInv
<1>4. /\ Stored[Behind(0)] = given + 1
      /\ Stored[Behind(1)] = IF 1 <= given THEN given ELSE 0
      /\ Stored[Behind(2)] = IF 2 <= given THEN given - 1 ELSE 0
  <2>1. 0 \in 0 .. N - 1 /\ 1 \in 0 .. N - 1 /\ 2 \in 0 .. N - 1
    BY <1>1
  <2> QED
    BY <1>1, <2>1, StoredFrames
<1>5. \A l \in 1 .. 3 : (index + l) % 3 = IF l = 1 THEN Behind(2)
                                        ELSE IF l = 2 THEN Behind(1) ELSE Behind(0)
  BY <1>1 DEF Behind
<1>6. Fast3D_starts => /\ used' = [l \in 1 .. 3 |-> given' - 3 + l]
                       /\ shown' = given
  <2> SUFFICES ASSUME Fast3D_starts PROVE /\ used' = [l \in 1 .. 3 |-> given' - 3 + l]
                                          /\ shown' = given
    OBVIOUS
  <2>1. /\ used' = [l \in 1 .. 3 |-> Stored[(index + l) % 3]]
        /\ shown' = Stored[(index + 2) % 3]
    BY DEF Fast3D_run, aperture_size
  <2>2. \A l \in 1 .. 3 : Stored[(index + l) % 3] = given' - 3 + l
    BY <1>1, <1>3, <1>4, <1>5
  <2> QED
    BY <1>1, <2>1, <2>2
<1>7. ~Fast3D_starts => used' = <<>> /\ shown' = shown
  BY DEF Fast3D_run
<1>8. TypeOK'
  <2>1. shown' \in 0 .. MaxFrames
    BY <1>1, <1>6, <1>7 DEF TypeOK, RingAssumption
  <2>2. init' \in BOOLEAN
    BY <1>1 DEF Fast3D_starts, TypeOK
  <2> QED
    BY <1>2, <2>1, <2>2 DEF Fast3D_run, TypeOK
<1>9. ClassInv'
  BY <1>1, <1>2, <1>3 DEF ClassInv
<1>10. WindowIsRecent'
  <2> SUFFICES ASSUME Fast3D_starts
               PROVE  used' = [l \in 1 .. 3 |-> given' - 3 + l] /\ shown' = used'[2]
    BY <1>1, <1>7 DEF WindowIsRecent
  <2>1. given' - 3 + 2 = given
    BY <1>1
  <2> QED
    BY <1>6, <2>1
<1>11. NothingEmptyIsUsed'
  <2> SUFFICES ASSUME Fast3D_starts, NEW l \in 1 .. Len(used') PROVE used'[l] # 0
    BY <1>1, <1>7 DEF NothingEmptyIsUsed
  <2>1. Len(used') = 3
    BY <1>6
  <2> QED
    BY <1>1, <1>3, <1>6, <2>1
<1> QED
  BY <1>1, <1>2, <1>8, <1>9, <1>10, <1>11 DEF PointsArePaired, LostInv, Fast3D_run

\* A reset leaves the ring alone: Fast3D waits for index to come round before it computes.
LEMMA ResetRingInv ==
  ASSUME RingAssumption, RingInv, Fast3D_reset PROVE RingInv'
<1> USE DEF RingInv, Fast3D_reset
<1>1. N' = N /\ (Rings' <=> Rings)
  BY DEF N, Rings
<1>2. TypeOK'
  BY <1>1 DEF TypeOK
<1>3. SlotsHoldLast'
  BY <1>1 DEF SlotsHoldLast, Frame, Age
<1> QED
  BY <1>2, <1>3 DEF ClassInv, WindowIsRecent, NothingEmptyIsUsed, PointsArePaired, LostInv

\* Harris3D computes with the five triples of successive frames of its ring.
LEMMA Harris3DRingInv ==
  ASSUME RingAssumption, RingInv, Harris3D_run PROVE RingInv'
<1> USE DEF RingInv
<1>1. /\ cls = "Harris3D" /\ Rings /\ given \in Nat /\ cls' = cls
      /\ given' = given + 1 /\ N = 7 /\ index \in 0 .. 6 /\ given < MaxFrames
      /\ init' = Harris3D_starts /\ index <= given /\ init \in BOOLEAN
  <2>1. cls = "Harris3D" /\ cls' = cls /\ given' = given + 1 /\ given < MaxFrames
    BY DEF Harris3D_run, Give
  <2>2. N = 7 /\ Rings
    BY <2>1 DEF N, SizeOf, Rings, ksize, LostInv
  <2> QED
    BY <2>1, <2>2 DEF Harris3D_run, TypeOK, ClassInv
<1>2. /\ SlotsHoldLast' /\ N' = N /\ index' \in 0 .. N - 1
      /\ index' = IF index + 1 = N THEN 0 ELSE index + 1
      /\ given' \in 0 .. MaxFrames /\ images' \in [0 .. N - 1 -> 0 .. MaxFrames]
  BY AdvanceKeepsRing DEF Harris3D_run, Give
<1>3. /\ Harris3D_starts <=> init \/ index = 6
      /\ init => given >= 6
      /\ blocks = IF given < 5 THEN given ELSE 5
      /\ ~init => given <= 6 /\ index = given
  BY <1>1 DEF Harris3D_starts, ClassInv, ksize
<1>4. /\ Harris3D_starts => given >= 6 /\ blocks' = blocks
      /\ ~Harris3D_starts => blocks' = IF index < 5 THEN blocks + 1 ELSE blocks
  BY <1>1, <1>3 DEF Harris3D_run, ksize
<1>5. \A e \in 0 .. 6 : e <= given => Stored[Behind(e)] = given + 1 - e
  BY <1>1, StoredFrames
<1>6. Harris3D_starts =>
        /\ used' = [b \in 0 .. 4 |-> [l \in 1 .. 3 |-> given' - 7 + b + l]]
        /\ shown' = given' - 2
  <2> SUFFICES ASSUME Harris3D_starts
               PROVE  /\ used' = [b \in 0 .. 4 |-> [l \in 1 .. 3 |-> given' - 7 + b + l]]
                      /\ shown' = given' - 2
    OBVIOUS
  <2>1. used' = [b \in 0 .. 4 |-> [l \in 1 .. 3 |-> Stored[(index + l + b) % 7]]]
    BY DEF Harris3D_run, TimeBlocks, ksize
  <2>2. \A b \in 0 .. 4, l \in 1 .. 3 : (index + l + b) % 7 = Behind(7 - l - b)
    <3> SUFFICES ASSUME NEW b \in 0 .. 4, NEW l \in 1 .. 3
                 PROVE  (index + l + b) % 7 = Behind(7 - l - b)
      OBVIOUS
    <3>1. index + l + b \in 0 .. 13
      BY <1>1
    <3>2. \A x \in 0 .. 13 : x % 7 = IF x < 7 THEN x ELSE x - 7
      OBVIOUS
    <3> QED
      BY <1>1, <3>1, <3>2 DEF Behind
  <2>3. \A b \in 0 .. 4, l \in 1 .. 3 : Stored[Behind(7 - l - b)] = given' - 7 + b + l
    <3> SUFFICES ASSUME NEW b \in 0 .. 4, NEW l \in 1 .. 3
                 PROVE  Stored[Behind(7 - l - b)] = given' - 7 + b + l
      OBVIOUS
    <3>1. 7 - l - b \in 0 .. 6 /\ 7 - l - b <= given
      BY <1>1, <1>4
    <3> QED
      BY <1>1, <1>5, <3>1
  <2>4. \A b \in 0 .. 4, l \in 1 .. 3 : Stored[(index + l + b) % 7] = given' - 7 + b + l
    BY <2>2, <2>3
  <2>5. shown' = Stored[Behind(2)]
    BY <1>1 DEF Harris3D_run, CentreOffset, Behind, ksize
  <2>6. shown' = given' - 2
    BY <1>1, <1>4, <1>5, <2>5
  <2> QED
    BY <2>1, <2>4, <2>6
<1>7. ~Harris3D_starts => used' = <<>> /\ shown' = shown
  BY DEF Harris3D_run
<1>8. ClassInv'
  BY <1>1, <1>2, <1>3, <1>4 DEF ClassInv, ksize
<1>9. TypeOK'
  <2>1. shown' \in 0 .. MaxFrames
    <3>1. shown' = given' - 2 \/ shown' = shown
      BY <1>6, <1>7
    <3>2. given' - 2 \in 0 .. MaxFrames \/ ~Harris3D_starts
      BY <1>1, <1>4 DEF RingAssumption
    <3> QED
      BY <1>6, <1>7, <3>1, <3>2 DEF TypeOK
  <2>2. blocks' \in 0 .. ksize
    BY <1>1, <1>3, <1>4 DEF ksize
  <2>3. init' \in BOOLEAN
    BY <1>1 DEF Harris3D_starts
  <2> QED
    BY <1>2, <2>1, <2>2, <2>3 DEF Harris3D_run, TypeOK
<1>10. WindowIsRecent'
  <2> SUFFICES ASSUME Harris3D_starts
               PROVE  /\ used' = [b \in 0 .. ksize - 1 |->
                                   [l \in 1 .. 3 |-> given' - (ksize + 2) + b + l]]
                      /\ shown' = used'[Heaviest][2]
    BY <1>1, <1>7 DEF WindowIsRecent, Heaviest
  <2>1. Heaviest = 3
    BY DEF Heaviest, ksize
  <2>2. used' = [b \in 0 .. ksize - 1 |-> [l \in 1 .. 3 |-> given' - (ksize + 2) + b + l]]
    BY <1>6 DEF ksize
  <2>3. used'[3][2] = given' - 7 + 3 + 2
    BY <1>6
  <2> QED
    BY <1>1, <1>6, <2>1, <2>2, <2>3
<1>11. NothingEmptyIsUsed'
  <2> SUFFICES ASSUME Harris3D_starts
               PROVE  /\ blocks' = ksize
                      /\ \A b \in 0 .. ksize - 1, l \in 1 .. 3 : used'[b][l] # 0
    BY <1>1, <1>7 DEF NothingEmptyIsUsed
  <2>1. blocks' = ksize
    BY <1>1, <1>3, <1>4 DEF ksize
  <2>2. \A b \in 0 .. 4, l \in 1 .. 3 : used'[b][l] = given' - 7 + b + l
    BY <1>6
  <2> QED
    BY <1>1, <1>4, <2>1, <2>2 DEF ksize
<1> QED
  BY <1>1, <1>2, <1>8, <1>9, <1>10, <1>11 DEF PointsArePaired, LostInv, Harris3D_run

\* What every call of ImgVo does, and where it stands.
ImgVoStands ==
  /\ cls = "ImgVo" /\ cls' = cls /\ given \in Nat /\ given' = given + 1 /\ given < MaxFrames
  /\ given' \in 0 .. MaxFrames
  /\ said # "ended" /\ init' = Matches /\ Matches \in BOOLEAN
  /\ index \in 0 .. N - 1 /\ index <= given /\ N \in 2 .. 10 /\ N' = N
  /\ features \in [0 .. N - 1 -> 0 .. MaxPoints] /\ MaxPoints \in Nat
  /\ images' = Stored /\ images' \in [0 .. N - 1 -> 0 .. MaxFrames]
  /\ Previous = Behind(1)
  /\ Previous = (IF index = 0 THEN N - 1 ELSE index - 1)
  /\ Previous \in 0 .. N - 1 /\ Previous # index
  /\ Matches => given >= 1

LEMMA ImgVoGives ==
  ASSUME RingAssumption, RingInv, ImgVo_gives, UNCHANGED cls PROVE ImgVoStands
<1>1. /\ cls = "ImgVo" /\ cls' = cls /\ given' = given + 1 /\ given < MaxFrames
      /\ said # "ended" /\ init' = Matches /\ images' = Stored
  BY DEF ImgVo_gives, Give
<1>2. /\ given \in 0 .. MaxFrames /\ MaxFrames \in Nat /\ MaxPoints \in Nat
      /\ index \in 0 .. N - 1 /\ index <= given /\ init \in BOOLEAN
      /\ features \in [0 .. N - 1 -> 0 .. MaxPoints] /\ images \in [0 .. N - 1 -> 0 .. MaxFrames]
      /\ init => given >= 1
  BY <1>1 DEF RingInv, TypeOK, ClassInv, RingAssumption
<1>3. N \in 2 .. 10 /\ N' = N
  <2>1. N \in 2 .. 10
    BY RingSize DEF RingInv, TypeOK
  <2> QED
    BY <1>1, <2>1 DEF N
<1>4. Previous = Behind(1)
  BY IndexBefore DEF RingInv
<1> HIDE DEF N
<1>5. /\ Previous = (IF index = 0 THEN N - 1 ELSE index - 1)
      /\ Previous \in 0 .. N - 1 /\ Previous # index
  BY <1>2, <1>3 DEF Previous
<1>6. images' \in [0 .. N - 1 -> 0 .. MaxFrames]
  BY <1>1, <1>2 DEF Stored
<1>7. Matches \in BOOLEAN /\ (Matches => given >= 1)
  BY <1>2 DEF Matches
<1>8. given \in Nat /\ given' \in 0 .. MaxFrames
  BY <1>1, <1>2
<1> QED
  BY <1>1, <1>2, <1>3, <1>4, <1>5, <1>6, <1>7, <1>8, Zenon DEF ImgVoStands

\* The slots before an index: the one before it and the one before that.
LEMMA SlotsBefore ==
  ASSUME NEW n \in 2 .. 10, NEW j \in 0 .. n - 1
  PROVE  /\ (j - 1 + n) % n = IF j = 0 THEN n - 1 ELSE j - 1
         /\ (j - 2 + n) % n \in 0 .. n - 1
         /\ (j - 2 + n) % n = IF j >= 2 THEN j - 2 ELSE j - 2 + n
<1>1. 1 \in 1 .. n /\ 2 \in 1 .. n
  OBVIOUS
<1>2. (j - 1 + n) % n = IF j >= 1 THEN j - 1 ELSE j - 1 + n
  BY <1>1, StepsBack, Zenon
<1>3. (j - 2 + n) % n = IF j >= 2 THEN j - 2 ELSE j - 2 + n
  BY <1>1, StepsBack, Zenon
<1> QED
  BY <1>2, <1>3

\* The first frame fills a slot.
LEMMA ImgVoBeginRingInv ==
  ASSUME RingAssumption, RingInv, NEW d \in 0 .. MaxPoints, ImgVo_begin(d)
  PROVE  RingInv'
<1> USE DEF RingInv
<1>1. ImgVo_gives /\ UNCHANGED cls /\ ~Matches
  BY DEF ImgVo_begin
<1>0. ImgVoStands
  BY <1>1, ImgVoGives
<1>2. ~init /\ index = 0
  <2>1. index \in 0 .. N - 1
    BY DEF TypeOK
  <2> QED
    BY <1>1, <2>1 DEF Matches
<1>3. said = "returned" /\ said' = said /\ ~lost /\ ~lost'
  BY <1>1, <1>2 DEF LostInv, ImgVo_begin, ImgVo_gives, TypeOK
<1>4. /\ SlotsHoldLast' /\ index' \in 0 .. N - 1
      /\ index' = IF index + 1 = N THEN 0 ELSE index + 1
  BY <1>1, <1>3, AdvanceKeepsRing DEF ImgVo_begin, ImgVo_gives, Give
<1> HIDE DEF N
<1>5. /\ used' = <<>> /\ features' = [features EXCEPT ![index] = d] /\ ~init'
      /\ init' \in BOOLEAN /\ UNCHANGED <<shown, blocks, k>>
  BY <1>1, <1>0 DEF ImgVoStands, ImgVo_begin
<1>6. TypeOK'
  <2>1. /\ cls' \in Classes /\ shown' \in 0 .. MaxFrames /\ blocks' \in 0 .. ksize
        /\ k' \in 0 .. MaxFrames /\ N' = N
    BY <1>0, <1>5 DEF ImgVoStands, TypeOK
  <2>2. features' \in [0 .. N - 1 -> 0 .. MaxPoints]
    BY <1>0, <1>5 DEF ImgVoStands
  <2>3. said' \in {"returned", "raised", "ended"} /\ lost' \in BOOLEAN
    BY <1>3 DEF ImgVo_begin, TypeOK
  <2>4. images' \in [0 .. N - 1 -> 0 .. MaxFrames] /\ given' \in 0 .. MaxFrames
    BY <1>0 DEF ImgVoStands
  <2> QED
    BY <1>4, <1>5, <2>1, <2>2, <2>3, <2>4 DEF TypeOK
<1>7. ClassInv' /\ WindowIsRecent' /\ NothingEmptyIsUsed' /\ PointsArePaired'
  BY <1>1, <1>0, <1>2, <1>4, <1>5 DEF ImgVoStands, ClassInv, WindowIsRecent, NothingEmptyIsUsed, PointsArePaired
<1>8. LostInv'
  BY <1>1, <1>0, <1>3 DEF ImgVoStands, LostInv
<1> QED
  BY <1>4, <1>6, <1>7, <1>8

\* A call that raises leaves index on the slot after one without points.
LEMMA ImgVoRaiseRingInv ==
  ASSUME RingAssumption, RingInv, NEW d \in 0 .. MaxPoints, ImgVo_raise(d)
  PROVE  RingInv'
<1> USE DEF RingInv
<1>1. ImgVo_gives /\ UNCHANGED cls /\ Matches /\ features[Previous] = 0
  BY DEF ImgVo_raise
<1>0. ImgVoStands
  BY <1>1, ImgVoGives
<1> HIDE DEF N
<1>2. /\ used' = <<>> /\ features' = [features EXCEPT ![index] = d] /\ init'
      /\ index' = index /\ said' = "raised" /\ lost' = TRUE /\ UNCHANGED <<shown, blocks, k>>
  BY <1>1 DEF ImgVo_raise, ImgVo_gives
<1>3. TypeOK'
  BY <1>1, <1>0, <1>2 DEF ImgVoStands, TypeOK
<1>4. Previous' = Previous /\ features'[Previous] = 0
  BY <1>1, <1>0, <1>2 DEF ImgVoStands, Previous
<1>5. SlotsHoldLast' /\ LostInv'
  BY <1>1, <1>0, <1>2, <1>4 DEF ImgVoStands, SlotsHoldLast, Rings, LostInv
<1>6. PointsArePaired'
  <2>1. (index - 1 + N) % N = Previous /\ (index - 2 + N) % N \in 0 .. N - 1
    BY <1>1, <1>0, SlotsBefore DEF ImgVoStands
  <2>2. features'[(index - 2 + N) % N] \in Nat
    BY <1>1, <1>0, <1>2, <2>1 DEF ImgVoStands
  <2>3. features'[(index' - 1 + N') % N'] <= features'[(index' - 2 + N') % N']
    BY <1>1, <1>0, <1>2, <1>4, <2>1, <2>2 DEF ImgVoStands
  <2> QED
    BY <2>3 DEF PointsArePaired
<1>7. ClassInv' /\ WindowIsRecent' /\ NothingEmptyIsUsed'
  BY <1>1, <1>0, <1>2 DEF ImgVoStands, ClassInv, WindowIsRecent, NothingEmptyIsUsed
<1> QED
  BY <1>3, <1>5, <1>6, <1>7

\* ImgVo compares a frame with the one before and keeps its points paired.
LEMMA ImgVoMatchRingInv ==
  ASSUME RingAssumption, RingInv, NEW d \in 0 .. MaxPoints, NEW m \in 0 .. MaxPoints,
         ImgVo_match(d, m)
  PROVE  RingInv'
<1> USE DEF RingInv
<1>1. ImgVo_gives /\ UNCHANGED cls /\ Matches /\ features[Previous] > 0
  BY DEF ImgVo_match
<1>0. ImgVoStands
  BY <1>1, ImgVoGives
<1>2. said = "returned" /\ ~lost
  <2>1. said # "raised"
    BY <1>1 DEF LostInv
  <2> QED
    BY <1>1, <2>1 DEF LostInv, ImgVo_gives, TypeOK
<1>3. /\ used' = <<Stored[Previous], Stored[index]>> /\ features' = Matched(d, m)
      /\ said' \in Rotations(m) /\ lost' = (lost \/ said' = "raised")
      /\ UNCHANGED <<shown, blocks, k>>
      /\ said' = "returned" => Advance
      /\ said' # "returned" => index' = index
  BY DEF ImgVo_match
<1>4. /\ said' \in {"returned", "raised", "ended"} /\ (said' = "raised" => m = 0)
  BY <1>3 DEF Rotations
<1>5. said' = "returned" => /\ SlotsHoldLast' /\ index' \in 0 .. N - 1
                            /\ index' = IF index + 1 = N THEN 0 ELSE index + 1
  BY <1>1, <1>2, <1>3, AdvanceKeepsRing DEF ImgVo_gives, Give
<1> DEFINE after == IF index + 1 = N THEN 0 ELSE index + 1
<1> HIDE DEF N
<1>6. SlotsHoldLast'
  BY <1>5 DEF SlotsHoldLast, Rings
<1>7. /\ features' \in [0 .. N - 1 -> 0 .. MaxPoints]
      /\ features'[Previous] = m /\ features'[index] = m
  BY <1>1, <1>0, <1>3 DEF ImgVoStands, Matched
<1>8. index' \in 0 .. N - 1
  BY <1>1, <1>0, <1>3, <1>5 DEF ImgVoStands
<1>9. TypeOK'
  BY <1>1, <1>0, <1>2, <1>3, <1>4, <1>7, <1>8 DEF ImgVoStands, TypeOK
<1>10. used' = <<given, given + 1>>
  <2>1. Stored[Behind(1)] = IF 1 <= given THEN given ELSE 0
    <3>1. 1 \in 0 .. N - 1 /\ Rings /\ given \in Nat
      BY <1>1, <1>0, <1>2 DEF ImgVoStands, Rings
    <3> QED
      BY <3>1, StoredFrames
  <2>2. Stored[index] = given + 1
    BY DEF Stored, TypeOK
  <2> QED
    BY <1>1, <1>0, <1>3, <2>1, <2>2 DEF ImgVoStands
<1>11. ClassInv' /\ WindowIsRecent' /\ NothingEmptyIsUsed'
  <2>1. given' = given + 1 /\ given >= 1 /\ given \in Nat /\ cls' = "ImgVo" /\ index' <= given'
    <3>1. after <= given + 1 /\ index <= given
      BY <1>1, <1>0 DEF ImgVoStands
    <3> QED
      BY <1>1, <1>0, <1>3, <1>5, <3>1 DEF ImgVoStands
  <2> QED
    BY <1>10, <2>1 DEF ClassInv, WindowIsRecent, NothingEmptyIsUsed
<1>12. LostInv'
  <2> SUFFICES ASSUME said' = "raised" PROVE init' /\ features'[Previous'] = 0
    BY <1>1, <1>0, <1>2, <1>3 DEF ImgVoStands, LostInv
  <2>1. Previous' = Previous
    BY <1>1, <1>0, <1>3 DEF ImgVoStands, Previous
  <2> QED
    BY <1>1, <1>0, <1>4, <1>7, <2>1 DEF ImgVoStands
<1>13. PointsArePaired'
  <2>1. CASE said' = "returned"
    <3>1. after \in 0 .. N - 1
      BY <1>5, <2>1
    <3>a. /\ (after - 1 + N) % N = IF after = 0 THEN N - 1 ELSE after - 1
          /\ (after - 2 + N) % N = IF after >= 2 THEN after - 2 ELSE after - 2 + N
      <4> HIDE DEF after
      <4>1. N \in 2 .. 10
        BY <1>0 DEF ImgVoStands
      <4> QED
        BY <3>1, <4>1, SlotsBefore
    <3>2. (after - 1 + N) % N = index /\ (after - 2 + N) % N = Previous
      <4>1. /\ index \in 0 .. N - 1 /\ N \in 2 .. 10
            /\ Previous = (IF index = 0 THEN N - 1 ELSE index - 1)
        BY <1>0 DEF ImgVoStands
      <4>2. CASE index + 1 = N
        BY <3>a, <4>1, <4>2
      <4>3. CASE index + 1 # N
        BY <3>a, <4>1, <4>3
      <4> QED
        BY <4>2, <4>3
    <3>3. index' = after /\ N' = N /\ m <= m
      BY <1>1, <1>0, <1>5, <2>1 DEF ImgVoStands
    <3> HIDE DEF after
    <3>4. features'[(index' - 1 + N') % N'] <= features'[(index' - 2 + N') % N']
      BY <1>7, <3>2, <3>3
    <3> QED
      BY <3>4 DEF PointsArePaired
  <2>2. CASE said' = "raised"
    <3>1. (index - 1 + N) % N = Previous /\ (index - 2 + N) % N \in 0 .. N - 1
      BY <1>1, <1>0, SlotsBefore DEF ImgVoStands
    <3>2. features'[(index - 2 + N) % N] \in Nat /\ features'[Previous] = 0
      BY <1>1, <1>0, <1>4, <1>7, <2>2, <3>1 DEF ImgVoStands
    <3>3. features'[(index' - 1 + N') % N'] <= features'[(index' - 2 + N') % N']
      BY <1>1, <1>0, <1>3, <2>2, <3>1, <3>2 DEF ImgVoStands
    <3> QED
      BY <3>3 DEF PointsArePaired
  <2>3. CASE said' = "ended"
    BY <2>3 DEF PointsArePaired
  <2> QED
    BY <1>4, <2>1, <2>2, <2>3
<1> QED
  BY <1>6, <1>9, <1>11, <1>12, <1>13

\* Every behaviour satisfies the invariant.
THEOREM Rolling == Spec => []RingInv
<1>1. Init => RingInv
  BY RingAssumption, InitRingInv
<1>2. RingInv /\ [Next]_vars => RingInv'
  <2> SUFFICES ASSUME RingInv, [Next]_vars PROVE RingInv'
    OBVIOUS
  <2> USE RingAssumption
  <2>1. CASE OpticalFlow_compute
    BY <2>1, OpticalFlowRingInv
  <2>2. ASSUME NEW b \in BOOLEAN, DenseOF_compute(b) PROVE RingInv'
    BY <2>2, DenseOFRingInv
  <2>3. CASE temporalDerivativeFilter
    BY <2>3, TemporalDerivativeRingInv
  <2>4. CASE temporal_filter
    BY <2>4, TemporalFilterRingInv
  <2>5. CASE Fast3D_run
    BY <2>5, Fast3DRingInv
  <2>6. CASE Fast3D_reset
    BY <2>6, ResetRingInv
  <2>7. CASE Harris3D_run
    BY <2>7, Harris3DRingInv
  <2>8. ASSUME NEW d \in 0 .. MaxPoints, ImgVo_begin(d) \/ ImgVo_raise(d) PROVE RingInv'
    BY <2>8, ImgVoBeginRingInv, ImgVoRaiseRingInv
  <2>10. ASSUME NEW d \in 0 .. MaxPoints, NEW m \in 0 .. MaxPoints, ImgVo_match(d, m)
        PROVE  RingInv'
    BY <2>10, ImgVoMatchRingInv
  <2>9. CASE UNCHANGED vars
    <3> USE <2>9 DEF vars, RingInv
    <3>1. N' = N /\ (Rings' <=> Rings)
      BY DEF N, Rings
    <3>2. TypeOK' /\ SlotsHoldLast'
      BY <3>1 DEF TypeOK, SlotsHoldLast, Frame, Age
    <3>3. LostInv'
      BY <3>1 DEF LostInv, Previous
    <3> QED
      BY <3>1, <3>2, <3>3 DEF ClassInv, WindowIsRecent, NothingEmptyIsUsed, PointsArePaired
  <2> QED
    BY <2>1, <2>2, <2>3, <2>4, <2>5, <2>6, <2>7, <2>8, <2>10, <2>9 DEF Next
<1> QED
  BY <1>1, <1>2, PTL DEF Spec

-----------------------------------------------------------------------------
(* The theorems.                                                           *)

\* Every variable keeps its type: index never leaves the ring.
THEOREM RingTypes == Spec => []TypeOK
BY Rolling, PTL DEF RingInv

\* However many frames are given, and wherever a ring stands, a class computes with the
\* frames given last, in their order, and never with a slot that was not filled.
THEOREM RingSoundness == Spec => []RingIsSound
<1>1. RingInv => RingIsSound
  BY RingAssumption, SlotsHoldRing DEF RingInv, RingIsSound
<1> QED
  BY <1>1, Rolling, PTL

\* For every size of its ring and whatever is detected, ImgVo keeps the points it draws paired, also
\* past calls that raised, and a call raises when one before it did.
THEOREM TrackingIsOneWay == Spec => []TrackingIsPaired
<1>1. RingInv => TrackingIsPaired
  BY DEF RingInv, LostInv, LostForGood, TrackingIsPaired
<1> QED
  BY <1>1, Rolling, PTL

-----------------------------------------------------------------------------
(* Least and greatest.                                                     *)

\* Among finite sets there is one with no other below it.
LEMMA LeastSubset ==
  ASSUME NEW T, \A A \in T : IsFiniteSet(A), T # {}
  PROVE \E A \in T : \A B \in T : B \subseteq A => B = A
<1>1. T \subseteq FiniteSubsetsOf(UNION T)
  BY DEF FiniteSubsetsOf
<1>2. PICK A \in T : \A B \in T : <<B, A>> \notin StrictSubsetOrdering(UNION T)
  BY <1>1, FS_StrictSubsetOrderingWellFounded, WFMin
<1> QED
  BY <1>2 DEF StrictSubsetOrdering

\* A set of natural numbers has a least one.
LEMMA NatMin ==
  ASSUME NEW T \in SUBSET Nat, T # {}
  PROVE  \E x \in T : \A y \in T : x <= y
<1> DEFINE U == {A \in SUBSET Nat : \E x \in T : A = 0 .. x}
<1>1. \A x \in T : 0 .. x \in U
  OBVIOUS
<1>2. U # {}
  BY <1>1
<1>3. \A A \in U : IsFiniteSet(A)
  <2> SUFFICES ASSUME NEW x \in T PROVE IsFiniteSet(0 .. x)
    OBVIOUS
  <2> QED BY FS_Interval
<1>4. \A A \in U : \E x \in T : A = 0 .. x
  OBVIOUS
<1> HIDE DEF U
<1>5. PICK A \in U : \A B \in U : B \subseteq A => B = A
  BY <1>2, <1>3, LeastSubset
<1>6. PICK x \in T : A = 0 .. x
  BY <1>4
<1>7. ASSUME NEW y \in T PROVE x <= y
  <2>1. 0 .. y \in U
    BY <1>1
  <2>2. y < x => 0 .. y \subseteq 0 .. x /\ x \in 0 .. x /\ x \notin 0 .. y
    OBVIOUS
  <2>3. x \in Nat /\ y \in Nat
    OBVIOUS
  <2> QED
    BY <2>1, <2>2, <2>3, <1>5, <1>6
<1> QED
  BY <1>7

\* A finite set of integers has a greatest one.
LEMMA IntMax ==
  ASSUME NEW S, S \subseteq Int, IsFiniteSet(S), S # {}
  PROVE  \E x \in S : \A y \in S : y <= x
<1> DEFINE U == {A \in SUBSET S : \E x \in S : A = {y \in S : x <= y}}
<1>1. \A x \in S : {y \in S : x <= y} \in U
  OBVIOUS
<1>2. U # {}
  BY <1>1
<1>3. \A A \in U : IsFiniteSet(A)
  BY FS_Subset
<1>4. \A A \in U : \E x \in S : A = {y \in S : x <= y}
  OBVIOUS
<1> HIDE DEF U
<1>5. \E A \in U : \A B \in U : B \subseteq A => B = A
  BY <1>2, <1>3, LeastSubset
<1>6. PICK x \in S : \A B \in U : B \subseteq {y \in S : x <= y} => B = {y \in S : x <= y}
  BY <1>4, <1>5
<1>7. ASSUME NEW y \in S, x < y PROVE FALSE
  <2>0. x \in Int /\ y \in Int /\ \A z \in S : z \in Int
    OBVIOUS
  <2>1. \A z \in S : y <= z => x <= z
    BY <2>0, <1>7
  <2>2. {z \in S : y <= z} = {z \in S : x <= z}
    BY <2>1, <1>6, <1>1
  <2>3. x \in {z \in S : y <= z}
    BY <2>0, <2>2
  <2> QED BY <2>0, <2>3, <1>7
<1> QED
  BY <1>7
-----------------------------------------------------------------------------
(* The strongest pixel of a cell.                                          *)

Pixels == (0 .. ImageCols - 1) \X (0 .. ImageRows - 1)

\* A whole cell lies within its side of the image.
LEMMA CellWithin ==
  ASSUME NEW a \in Nat, NEW s \in Nat \ {0}, NEW x \in 0 .. a \div s - 1
  PROVE  /\ x * s \in Nat /\ x * s + s - 1 \in Nat
         /\ x * s <= x * s + s - 1 /\ x * s + s - 1 <= a - 1
<1>1. a \div s \in Int /\ (a \div s) * s <= a
  OBVIOUS
<1>2. x \in Nat /\ x + 1 <= a \div s
  BY <1>1
<1>3. (x + 1) * s <= (a \div s) * s
  BY <1>1, <1>2
<1>4. x * s \in Nat /\ (x + 1) * s = x * s + s
  BY <1>2
<1> QED
  BY <1>1, <1>3, <1>4

\* There is a first one of the strongest pixels.
LEMMA StrongestIsThere ==
  ASSUME NEW dst \in [Pixels -> Nat], NEW pixels, pixels \subseteq Pixels,
         pixels \subseteq Nat \X Nat, IsFiniteSet(pixels), pixels # {}
  PROVE  Strongest(dst, pixels) \in pixels
<1> DEFINE S == {dst[q] : q \in pixels}
<1>1. PICK v \in S : \A u \in S : u <= v
  <2>1. S \subseteq Int /\ S # {}
    OBVIOUS
  <2>2. IsFiniteSet(S)
    <3> DEFINE f == [q \in pixels |-> dst[q]]
    <3>1. f \in Surjection(pixels, S)
      BY DEF Surjection
    <3> QED
      BY <3>1, FS_Surjection
  <2> QED
    BY <2>1, <2>2, IntMax
<1> DEFINE A == {q \in pixels : dst[q] = v}
           R == {q[2] : q \in A}
<1>2. PICK r \in R : \A u \in R : r <= u
  <2>1. R \in SUBSET Nat /\ R # {}
    OBVIOUS
  <2> QED
    BY <2>1, NatMin
<1> DEFINE B == {q \in A : q[2] = r}
           Q == {q[1] : q \in B}
<1>3. PICK c \in Q : \A u \in Q : c <= u
  <2>1. Q \in SUBSET Nat /\ Q # {}
    OBVIOUS
  <2> QED
    BY <2>1, NatMin
<1>4. PICK m \in B : m[1] = c
  OBVIOUS
<1>5. ASSUME NEW q \in pixels
      PROVE  dst[q] < dst[m] \/ (dst[q] = dst[m] /\ (m[2] < q[2] \/ (m[2] = q[2] /\ m[1] <= q[1])))
  <2>1. dst[q] \in Nat /\ dst[m] = v /\ dst[m] \in Nat /\ dst[q] <= v
    BY <1>1, <1>4
  <2>2. q[1] \in Nat /\ q[2] \in Nat /\ m[1] \in Nat /\ m[2] \in Nat /\ m[2] = r
    BY <1>4
  <2>3. dst[q] = v => r <= q[2]
    BY <1>2
  <2>4. dst[q] = v /\ q[2] = r => c <= q[1]
    BY <1>3
  <2> QED
    BY <2>1, <2>2, <2>3, <2>4, <1>4
<1>6. m \in pixels
  BY <1>4
<1> HIDE DEF S, A, R, B, Q
<1> QED
  BY <1>5, <1>6 DEF Strongest

\* Candidates are pixels.
LEMMA CandidatesArePixels ==
  ASSUME CornerAssumption, NEW d, NEW dst \in [Pixels -> Nat], NEW size \in Nat \ {0}
  PROVE  Candidates(d, dst, size) \subseteq Pixels
<1>1. ASSUME NEW x \in 0 .. ImageCols \div size - 1, NEW y \in 0 .. ImageRows \div size - 1
      PROVE  Strongest(dst, PixelsOfCell(x, y, size)) \in Pixels
  <2> DEFINE X == x * size .. x * size + size - 1
             Y == y * size .. y * size + size - 1
  <2>1. /\ x * size \in Nat /\ x * size + size - 1 \in Nat
        /\ x * size <= x * size + size - 1 /\ x * size + size - 1 <= ImageCols - 1
    BY CellWithin DEF CornerAssumption
  <2>2. /\ y * size \in Nat /\ y * size + size - 1 \in Nat
        /\ y * size <= y * size + size - 1 /\ y * size + size - 1 <= ImageRows - 1
    BY CellWithin DEF CornerAssumption
  <2>3. IsFiniteSet(X) /\ X \subseteq Nat /\ X \subseteq 0 .. ImageCols - 1 /\ X # {}
    <3>1. IsFiniteSet(X)
      BY <2>1, FS_Interval
    <3> QED
      BY <2>1, <3>1 DEF CornerAssumption
  <2>4. IsFiniteSet(Y) /\ Y \subseteq Nat /\ Y \subseteq 0 .. ImageRows - 1 /\ Y # {}
    <3>1. IsFiniteSet(Y)
      BY <2>2, FS_Interval
    <3> QED
      BY <2>2, <3>1 DEF CornerAssumption
  <2>5. PixelsOfCell(x, y, size) = X \X Y
    BY DEF PixelsOfCell
  <2> HIDE DEF X, Y
  <2>6. IsFiniteSet(X \X Y)
    BY <2>3, <2>4, FS_Product
  <2>7. X \X Y \subseteq Pixels /\ X \X Y \subseteq Nat \X Nat /\ X \X Y # {}
    <3>1. \A i, j : i \in X /\ j \in Y => <<i, j>> \in X \X Y
      OBVIOUS
    <3>2. X \X Y # {}
      BY <2>3, <2>4, <3>1
    <3>3. X \X Y \subseteq Nat \X Nat
      BY <2>3, <2>4
    <3>4. X \X Y \subseteq Pixels
      BY <2>3, <2>4 DEF Pixels
    <3> QED
      BY <3>2, <3>3, <3>4
  <2>8. Strongest(dst, X \X Y) \in X \X Y
    BY <2>6, <2>7, StrongestIsThere
  <2> QED
    BY <2>5, <2>7, <2>8
<1> QED
  BY <1>1 DEF Candidates

-----------------------------------------------------------------------------
(* The filter.                                                             *)

Chosen == Candidates(detector, response, minDistance)

Near(m, c) == (m[1] - c[1]) * (m[1] - c[1]) + (m[2] - c[2]) * (m[2] - c[2])
                < minDistance * minDistance

Injective(s) == \A i, j \in DOMAIN s : s[i] = s[j] => i = j

\* The loop over the candidates: those kept are candidates, in order, apart, and none is weaker
\* than one not yet looked at; and whatever was passed over is near one as strong.
FilterInv ==
  /\ response \in [Pixels -> Nat] /\ minDistance \in Nat \ {0}
  /\ keypoints \subseteq Chosen
  /\ corners \in Seq(Chosen)
  /\ Injective(corners)
  /\ \A i \in DOMAIN corners : corners[i] \notin keypoints
  /\ \A i, j \in DOMAIN corners : i < j => response[corners[i]] >= response[corners[j]]
  /\ \A i \in DOMAIN corners, q \in keypoints : response[corners[i]] >= response[q]
  /\ \A i, j \in DOMAIN corners : i # j => ~Near(corners[i], corners[j])
  /\ \A m \in Chosen \ keypoints :
       \/ \E i \in DOMAIN corners : m = corners[i]
       \/ \E i \in DOMAIN corners :
            response[corners[i]] >= response[m] /\ Near(m, corners[i])

CornerInv ==
  /\ minDistance \in Distances
  /\ Filtering => FilterInv

-----------------------------------------------------------------------------
(* Distances.                                                              *)

\* Pixels are pairs of integers.
LEMMA PixelType == ASSUME CornerAssumption, NEW m \in Pixels PROVE m[1] \in Int /\ m[2] \in Int
BY DEF Pixels, CornerAssumption

\* A number and its negative have the same square.
LEMMA SameSquare == ASSUME NEW a \in Int, NEW b \in Int PROVE (a - b) * (a - b) = (b - a) * (b - a)
OBVIOUS

\* To be near is mutual, and not to be it is what Apart asks for.
LEMMA NearIsMutual ==
  ASSUME CornerAssumption, NEW m \in Pixels, NEW c \in Pixels
  PROVE  Near(m, c) <=> Near(c, m)
<1>1. /\ (m[1] - c[1]) * (m[1] - c[1]) = (c[1] - m[1]) * (c[1] - m[1])
      /\ (m[2] - c[2]) * (m[2] - c[2]) = (c[2] - m[2]) * (c[2] - m[2])
  BY PixelType, SameSquare
<1> QED
  BY <1>1 DEF Near

LEMMA ApartIsNotNear ==
  ASSUME CornerAssumption, minDistance \in Nat, NEW m \in Pixels,
         NEW kept, \A i \in DOMAIN kept : kept[i] \in Pixels
  PROVE  Apart(m, kept, minDistance) <=> \A i \in DOMAIN kept : ~Near(m, kept[i])
<1>1. ASSUME NEW c \in Pixels
      PROVE  ~Near(m, c) <=> (m[1] - c[1]) * (m[1] - c[1]) + (m[2] - c[2]) * (m[2] - c[2])
                               >= minDistance * minDistance
  <2> DEFINE a == (m[1] - c[1]) * (m[1] - c[1]) + (m[2] - c[2]) * (m[2] - c[2])
             d == minDistance * minDistance
  <2>1. a \in Int /\ d \in Int
    <3>1. m[1] \in Int /\ m[2] \in Int /\ c[1] \in Int /\ c[2] \in Int
      BY PixelType
    <3> QED
      BY <3>1
  <2>2. Near(m, c) <=> a < d
    BY DEF Near
  <2> HIDE DEF a, d
  <2>3. ~(a < d) <=> a >= d
    BY <2>1
  <2> QED
    BY <2>2, <2>3 DEF a, d
<1> QED
  BY <1>1 DEF Apart

-----------------------------------------------------------------------------
(* The loop.                                                               *)

LEMMA InitCornerInv == ASSUME CornerInit PROVE CornerInv
BY DEF CornerInit, CornerInv, Filtering

\* A candidate is looked at.
LEMMA FilterCornerInv ==
  ASSUME CornerAssumption, CornerInv, FilterCorner
  PROVE  CornerInv'
<1>1. FilterInv
  BY DEF CornerInv, FilterCorner
<1>2. PICK m \in keypoints :
        /\ \A q \in keypoints : response[q] <= response[m]
        /\ keypoints' = keypoints \ {m}
        /\ corners' = IF Apart(m, corners, minDistance) THEN Append(corners, m) ELSE corners
  BY DEF FilterCorner
<1>3. /\ UNCHANGED <<detector, minDistance, response>>
      /\ Chosen' = Chosen
  BY DEF FilterCorner, Chosen
<1>4. Chosen \subseteq Pixels
  BY <1>1, CandidatesArePixels DEF FilterInv, Chosen
<1>5. /\ response \in [Pixels -> Nat] /\ minDistance \in Nat \ {0}
      /\ keypoints \subseteq Chosen /\ m \in Chosen /\ m \in Pixels
      /\ corners \in Seq(Chosen) /\ \A i \in DOMAIN corners : corners[i] \in Chosen
  BY <1>1, <1>4 DEF FilterInv
<1>6. \A q \in Pixels : response[q] \in Nat
  BY <1>5
<1>7. Near(m, m)
  <2>0. m[1] \in Int /\ m[2] \in Int
    BY <1>5, PixelType
  <2>1. m[1] - m[1] = 0 /\ m[2] - m[2] = 0
    BY <2>0
  <2>2. 0 < minDistance * minDistance
    BY <1>5
  <2> QED
    BY <2>1, <2>2 DEF Near
<1>8. Apart(m, corners, minDistance) <=> \A i \in DOMAIN corners : ~Near(m, corners[i])
  BY <1>4, <1>5, ApartIsNotNear
<1>9. \A c, d : Near(c, d)' <=> Near(c, d)
  BY <1>3 DEF Near
<1>a. \A i \in DOMAIN corners : response[corners[i]] >= response[m]
  BY <1>1 DEF FilterInv
<1> USE <1>2, <1>3
<1>b. CASE Apart(m, corners, minDistance)
  <2>1. corners' = Append(corners, m)
    BY <1>b
  <2>2. /\ Len(corners') = Len(corners) + 1 /\ DOMAIN corners = 1 .. Len(corners)
        /\ DOMAIN corners' = 1 .. Len(corners) + 1 /\ Len(corners) \in Nat
        /\ \A i \in DOMAIN corners : corners'[i] = corners[i]
        /\ corners'[Len(corners) + 1] = m
    BY <2>1, <1>5
  <2>3. corners' \in Seq(Chosen)
    BY <2>1, <1>5
  <2>4. Injective(corners)'
    BY <2>2, <1>1 DEF Injective, FilterInv
  <2>5. \A i \in DOMAIN corners' : corners'[i] \notin keypoints'
    BY <2>2, <1>1 DEF FilterInv
  <2>6. \A i, j \in DOMAIN corners' : i < j => response[corners'[i]] >= response[corners'[j]]
    BY <2>2, <1>1, <1>a DEF FilterInv
  <2>7. \A i \in DOMAIN corners', q \in keypoints' : response[corners'[i]] >= response[q]
    <3>1. \A q \in keypoints : response[m] >= response[q]
      BY <1>5, <1>6, <1>4
    <3> QED
      BY <3>1, <2>2, <1>1 DEF FilterInv
  <2>8. \A i, j \in DOMAIN corners' : i # j => ~Near(corners'[i], corners'[j])
    <3>1. \A i \in DOMAIN corners : ~Near(m, corners[i]) /\ ~Near(corners[i], m)
      BY <1>b, <1>8, <1>4, <1>5, NearIsMutual
    <3> QED
      BY <3>1, <2>2, <1>1 DEF FilterInv
  <2>9. ASSUME NEW n \in Chosen \ keypoints'
        PROVE  \/ \E i \in DOMAIN corners' : n = corners'[i]
               \/ \E i \in DOMAIN corners' :
                    response[corners'[i]] >= response[n] /\ Near(n, corners'[i])
    <3>1. CASE n = m
      BY <3>1, <2>2
    <3>2. CASE n \in Chosen \ keypoints
      <4>1. \/ \E i \in DOMAIN corners : n = corners[i]
            \/ \E i \in DOMAIN corners : response[corners[i]] >= response[n] /\ Near(n, corners[i])
        BY <3>2, <1>1 DEF FilterInv
      <4>2. \A i \in DOMAIN corners : i \in DOMAIN corners' /\ corners'[i] = corners[i]
        BY <2>2
      <4> QED
        BY <4>1, <4>2
    <3> QED
      BY <3>1, <3>2
  <2>10. FilterInv'
    BY <2>3, <2>4, <2>5, <2>6, <2>7, <2>8, <2>9, <1>5, <1>9 DEF FilterInv
  <2> QED
    BY <2>10 DEF CornerInv
<1>c. CASE ~Apart(m, corners, minDistance)
  <2>1. corners' = corners
    BY <1>c
  <2>2. PICK x \in DOMAIN corners : Near(m, corners[x])
    BY <1>c, <1>8
  <2>3. ASSUME NEW n \in Chosen \ keypoints'
        PROVE  \/ \E i \in DOMAIN corners : n = corners[i]
               \/ \E i \in DOMAIN corners :
                    response[corners[i]] >= response[n] /\ Near(n, corners[i])
    <3>1. CASE n = m
      BY <3>1, <2>2, <1>a
    <3>2. CASE n \in Chosen \ keypoints
      BY <3>2, <1>1 DEF FilterInv
    <3> QED
      BY <3>1, <3>2
  <2>4. Injective(corners)'
    BY <2>1, <1>1 DEF Injective, FilterInv
  <2>5. FilterInv'
    BY <2>1, <2>3, <2>4, <1>1, <1>5, <1>9 DEF FilterInv
  <2> QED
    BY <2>5 DEF CornerInv
<1> QED
  BY <1>b, <1>c

\* run begins: every candidate is still to be looked at.
LEMMA RunDetectorInv ==
  ASSUME CornerAssumption, CornerInv, NEW dst \in Responses, runDetector(dst)
  PROVE  CornerInv'
<1>1. /\ response' = dst /\ keypoints' = Chosen' /\ corners' = <<>>
      /\ minDistance' = minDistance
  BY DEF runDetector, Chosen
<1>2. response' \in [Pixels -> Nat] /\ minDistance' \in Nat \ {0} /\ minDistance' \in Distances
  BY <1>1 DEF CornerAssumption, CornerInv, Pixels
<1>3. DOMAIN corners' = {} /\ corners' \in Seq(Chosen')
  BY <1>1
<1>4. FilterInv'
  BY <1>1, <1>2, <1>3 DEF FilterInv, Injective
<1> QED
  BY <1>2, <1>4 DEF CornerInv

LEMMA CornerInvStep ==
  ASSUME CornerAssumption, CornerInv, [CornerNext]_cornerVars
  PROVE  CornerInv'
<1>1. ASSUME NEW value \in Limits \ {maxCorners}, setMaxCorners(value) PROVE CornerInv'
  BY <1>1 DEF setMaxCorners, CornerInv, Filtering
<1>2. ASSUME NEW value \in Distances \ {minDistance}, setminDistance(value) PROVE CornerInv'
  BY <1>2 DEF setminDistance, CornerInv, Filtering
<1>3. ASSUME NEW dst \in Responses, runDetector(dst) PROVE CornerInv'
  BY <1>3, RunDetectorInv
<1>4. CASE FilterCorner
  BY <1>4, FilterCornerInv
<1>5. CASE Return
  BY <1>5 DEF Return, CornerInv, Filtering
<1>6. CASE UNCHANGED cornerVars
  <2>1. Filtering' = Filtering /\ Chosen' = Chosen /\ \A c, d : Near(c, d)' <=> Near(c, d)
    BY <1>6 DEF cornerVars, Filtering, Chosen, Near
  <2>2. FilterInv => FilterInv'
    BY <2>1, <1>6 DEF cornerVars, FilterInv, Injective
  <2> QED
    BY <2>1, <2>2, <1>6 DEF CornerInv, cornerVars
<1> QED
  BY <1>1, <1>2, <1>3, <1>4, <1>5, <1>6 DEF CornerNext

\* The loop of filter_corners keeps its invariant, over any number of calls.
THEOREM CornerFilter == CornerSpec => []CornerInv
<1>1. CornerInit => CornerInv
  BY InitCornerInv
<1>2. CornerInv /\ [CornerNext]_cornerVars => CornerInv'
  BY CornerInvStep, CornerAssumption
<1> QED
  BY <1>1, <1>2, PTL DEF CornerSpec

-----------------------------------------------------------------------------
(* What is returned.                                                       *)

\* The sequence made of a finite set has its elements.
LEMMA SequenceOfSet ==
  ASSUME NEW S, IsFiniteSet(S)
  PROVE  \A i \in DOMAIN SetToSeq(S) : SetToSeq(S)[i] \in S
<1>1. \E f \in [1 .. Cardinality(S) -> S] : IsInjective(f)
  BY FS_CardinalityType DEF ExistsBijection, Bijection, Injection, IsInjective
<1>2. SetToSeq(S) \in [1 .. Cardinality(S) -> S]
  BY <1>1 DEF SetToSeq
<1> QED
  BY <1>2

\* A sequence without repetitions has as many elements as places.
LEMMA ElementsOfSequence ==
  ASSUME NEW S, NEW s \in Seq(S), Injective(s)
  PROVE  /\ IsFiniteSet(ToSet(s)) /\ Cardinality(ToSet(s)) = Len(s)
         /\ \A c : c \in ToSet(s) <=> \E i \in DOMAIN s : c = s[i]
<1>1. Len(s) \in Nat /\ DOMAIN s = 1 .. Len(s)
  OBVIOUS
<1>2. \A c : c \in ToSet(s) <=> \E i \in DOMAIN s : c = s[i]
  BY DEF ToSet
<1> DEFINE f == [i \in 1 .. Len(s) |-> s[i]]
<1>3. f \in Injection(1 .. Len(s), ToSet(s))
  BY <1>1, <1>2 DEF Injection, IsInjective, Injective
<1>4. f \in Surjection(1 .. Len(s), ToSet(s))
  BY <1>1, <1>2 DEF Surjection
<1>5. ExistsBijection(1 .. Len(s), ToSet(s))
  BY <1>3, <1>4 DEF ExistsBijection, Bijection
<1>6. IsFiniteSet(1 .. Len(s))
  BY <1>1, FS_Interval
<1>7. IsFiniteSet(ToSet(s))
  BY <1>5, <1>6, FS_Bijection
<1>8. Cardinality(ToSet(s)) = Len(s)
  BY <1>1, <1>5, FS_CountingElements
<1> QED
  BY <1>2, <1>7, <1>8

\* When the loop ends, the corners are the best ones.
LEMMA InvGivesBest == ASSUME CornerAssumption, CornerInv PROVE CornersAreTheBest
<1> SUFFICES ASSUME Filtering, keypoints = {} \/ LimitReached
             PROVE  LET kept == ToSet(corners)
                    IN /\ kept \subseteq Chosen
                       /\ Cardinality(kept) = Len(corners)
                       /\ \A i, j \in DOMAIN corners :
                            i < j => response[corners[i]] >= response[corners[j]]
                       /\ \A c \in kept : Apart(c, SetToSeq(kept \ {c}), minDistance)
                       /\ \A m \in Chosen \ kept :
                            \/ \E c \in kept : response[c] >= response[m]
                                                 /\ ~Apart(m, <<c>>, minDistance)
                            \/ Len(corners) >= maxCorners
                                 /\ \A c \in kept : response[c] >= response[m]
  BY DEF CornersAreTheBest, Chosen
<1> DEFINE kept == ToSet(corners)
<1>1. FilterInv
  BY DEF CornerInv
<1>2. Chosen \subseteq Pixels /\ minDistance \in Nat
  BY <1>1, CandidatesArePixels DEF FilterInv, Chosen
<1>3. /\ IsFiniteSet(kept) /\ Cardinality(kept) = Len(corners)
      /\ \A c : c \in kept <=> \E i \in DOMAIN corners : c = corners[i]
  BY <1>1, ElementsOfSequence DEF FilterInv
<1>4. kept \subseteq Chosen
  <2>1. \A i \in DOMAIN corners : corners[i] \in Chosen
    BY <1>1 DEF FilterInv
  <2> QED
    BY <2>1, <1>3
<1> HIDE DEF kept
<1>5. ASSUME NEW c \in kept PROVE Apart(c, SetToSeq(kept \ {c}), minDistance)
  <2>1. IsFiniteSet(kept \ {c})
    BY <1>3, FS_RemoveElement
  <2>2. \A i \in DOMAIN SetToSeq(kept \ {c}) : SetToSeq(kept \ {c})[i] \in kept \ {c}
    BY <2>1, SequenceOfSet
  <2>3. \A d \in kept \ {c} : d \in Pixels /\ ~Near(c, d)
    BY <1>1, <1>2, <1>3, <1>4 DEF FilterInv
  <2>4. c \in Pixels
    BY <1>2, <1>4
  <2>5. \A i \in DOMAIN SetToSeq(kept \ {c}) :
          SetToSeq(kept \ {c})[i] \in Pixels /\ ~Near(c, SetToSeq(kept \ {c})[i])
    BY <2>2, <2>3
  <2> QED
    BY <2>4, <2>5, <1>2, ApartIsNotNear
<1>6. ASSUME NEW m \in Chosen \ kept
      PROVE  \/ \E c \in kept : response[c] >= response[m] /\ ~Apart(m, <<c>>, minDistance)
             \/ Len(corners) >= maxCorners /\ \A c \in kept : response[c] >= response[m]
  <2>1. CASE m \in keypoints
    <3>1. Len(corners) >= maxCorners
      BY <2>1 DEF LimitReached
    <3>2. \A c \in kept : response[c] >= response[m]
      BY <2>1, <1>1, <1>3 DEF FilterInv
    <3> QED
      BY <3>1, <3>2
  <2>2. CASE m \notin keypoints
    <3>1. PICK c \in kept : response[c] >= response[m] /\ Near(m, c)
      BY <2>2, <1>1, <1>3 DEF FilterInv
    <3>2. m \in Pixels /\ c \in Pixels
      BY <1>2, <1>4
    <3> DEFINE one == <<c>>
    <3>3. DOMAIN one = {1} /\ one[1] = c
      OBVIOUS
    <3> HIDE DEF one
    <3>4. Apart(m, one, minDistance) <=> \A i \in DOMAIN one : ~Near(m, one[i])
      BY <3>2, <3>3, <1>2, ApartIsNotNear
    <3>5. ~Apart(m, one, minDistance)
      BY <3>1, <3>3, <3>4
    <3> QED
      BY <3>1, <3>5 DEF one
  <2> QED
    BY <2>1, <2>2
<1>7. \A i, j \in DOMAIN corners : i < j => response[corners[i]] >= response[corners[j]]
  BY <1>1 DEF FilterInv
<1> QED
  BY <1>3, <1>4, <1>5, <1>6, <1>7 DEF kept

\* When filter_corners is about to return, the corners are candidates, apart from each other and
\* in order, and whatever was left out is near one as strong or beyond the limit.
THEOREM BestCorners == CornerSpec => []CornersAreTheBest
<1>1. CornerInv => CornersAreTheBest
  BY InvGivesBest, CornerAssumption
<1> QED
  BY <1>1, CornerFilter, PTL

-----------------------------------------------------------------------------
(* Sums over sets.                                                         *)

\* What holds of 0, and of a number when it does of the one before, holds as far as one likes.
LEMMA Stepwise ==
  ASSUME NEW M \in Nat, NEW T, 0 \in T, \A e \in 1 .. M : e - 1 \in T => e \in T
  PROVE  0 .. M \subseteq T
<1> SUFFICES ASSUME NEW j \in 0 .. M, j \notin T PROVE FALSE
  OBVIOUS
<1> DEFINE U == {e \in 0 .. M : e \notin T}
<1>1. U \in SUBSET Nat /\ U # {}
  OBVIOUS
<1> HIDE DEF U
<1>2. PICK x \in U : \A y \in U : x <= y
  BY <1>1, NatMin
<1> USE DEF U
<1>3. x \in 1 .. M /\ x - 1 \in 0 .. M
  BY <1>2
<1>4. ~(x <= x - 1)
  BY <1>3
<1>5. x - 1 \notin U
  BY <1>2, <1>4
<1> QED
  BY <1>2, <1>3, <1>5

\* The one that is taken from a set to be added.
Some(S) == CHOOSE x \in S : TRUE

\* g has the sums of f over the subsets of S.
Sums(f, S, g) ==
  /\ g[{}] = 0
  /\ \A A \in SUBSET S : A # {} => g[A] = f[Some(A)] + g[A \ {Some(A)}]

\* g is computed from itself, set by set.
Recurs(f, S, g) ==
  g = [A \in SUBSET S |-> IF A = {} THEN 0 ELSE f[Some(A)] + g[A \ {Some(A)}]]

\* There are such sums: by the number of what is added up.
LEMMA SumsExist ==
  ASSUME NEW S, IsFiniteSet(S), NEW f \in [S -> Int]
  PROVE  \E g : Sums(f, S, g) /\ Recurs(f, S, g)
<1> DEFINE M == Cardinality(S)
           Below(e) == {A \in SUBSET S : Cardinality(A) <= e}
           Good(e, g) == /\ g \in [SUBSET S -> Int] /\ g[{}] = 0
                         /\ \A A \in Below(e) :
                              A # {} => g[A] = f[Some(A)] + g[A \ {Some(A)}]
           holds == {e \in 0 .. M : \E g : Good(e, g)}
<1>0. /\ M \in Nat
      /\ \A A \in SUBSET S : IsFiniteSet(A) /\ Cardinality(A) \in 0 .. M
  <2>1. M \in Nat
    BY FS_CardinalityType
  <2>2. ASSUME NEW A \in SUBSET S PROVE IsFiniteSet(A) /\ Cardinality(A) \in 0 .. M
    <3>1. IsFiniteSet(A) /\ Cardinality(A) <= M
      BY FS_Subset
    <3> QED
      BY <2>1, <3>1, FS_CardinalityType
  <2> QED
    BY <2>1, <2>2
<1>1. \A A \in SUBSET S : A # {} =>
        /\ Some(A) \in A /\ A \ {Some(A)} \in SUBSET S
        /\ Cardinality(A \ {Some(A)}) = Cardinality(A) - 1
  <2> SUFFICES ASSUME NEW A \in SUBSET S, A # {}
               PROVE  Some(A) \in A /\ Cardinality(A \ {Some(A)}) = Cardinality(A) - 1
    OBVIOUS
  <2>1. Some(A) \in A
    BY DEF Some
  <2> QED
    BY <1>0, <2>1, FS_RemoveElement
<1>2. 0 \in holds
  <2> DEFINE g == [A \in SUBSET S |-> 0]
  <2>1. \A A \in Below(0) : A = {}
    BY <1>0, FS_EmptySet
  <2>2. g \in [SUBSET S -> Int] /\ g[{}] = 0
    OBVIOUS
  <2>3. Good(0, g)
    BY <2>1, <2>2
  <2> HIDE DEF Good, g
  <2>4. 0 \in 0 .. M
    BY <1>0
  <2> QED
    BY <2>3, <2>4
<1>3. ASSUME NEW e \in 1 .. M, e - 1 \in holds PROVE e \in holds
  <2>1. PICK g : Good(e - 1, g)
    BY <1>3
  <2> DEFINE Next1 == [A \in SUBSET S |-> IF A = {} THEN 0 ELSE f[Some(A)] + g[A \ {Some(A)}]]
             h == [A \in SUBSET S |-> IF Cardinality(A) = e THEN Next1[A] ELSE g[A]]
  <2>2. \A A \in SUBSET S : A # {} => f[Some(A)] \in Int /\ g[A \ {Some(A)}] \in Int
    BY <1>1, <2>1
  <2>3. Next1 \in [SUBSET S -> Int]
    BY <2>2
  <2>4. h \in [SUBSET S -> Int]
    BY <2>1, <2>3
  <2>5. h[{}] = 0
    <3>1. {} \in SUBSET S /\ Next1[{}] = 0 /\ g[{}] = 0
      BY <2>1
    <3> HIDE DEF Next1
    <3> QED
      BY <3>1
  <2>6. ASSUME NEW A \in Below(e), A # {} PROVE h[A] = f[Some(A)] + h[A \ {Some(A)}]
    <3>1. Cardinality(A) \in 0 .. M /\ Cardinality(A \ {Some(A)}) = Cardinality(A) - 1
          /\ A \ {Some(A)} \in SUBSET S
      BY <1>0, <1>1, <2>6
    <3>2. h[A \ {Some(A)}] = g[A \ {Some(A)}]
      BY <3>1
    <3>3. CASE Cardinality(A) = e
      BY <2>6, <3>2, <3>3
    <3>4. CASE Cardinality(A) # e
      <4>1. A \in Below(e - 1)
        BY <3>1, <3>4
      <4>2. g[A] = f[Some(A)] + g[A \ {Some(A)}]
        BY <2>1, <2>6, <4>1
      <4> QED
        BY <3>2, <3>4, <4>2
    <3> QED
      BY <3>3, <3>4
  <2>7. Good(e, h)
    <3> HIDE DEF h
    <3> QED
      BY <2>4, <2>5, <2>6
  <2> QED
    <3> HIDE DEF Good
    <3> QED
      BY <2>7
<1>4. M \in holds
  <2> HIDE DEF holds
  <2> QED
    BY <1>0, <1>2, <1>3, Stepwise
<1>5. PICK g : Good(M, g)
  BY <1>4
<1>6. \A A \in SUBSET S : A \in Below(M)
  BY <1>0
<1>7. Sums(f, S, g)
  BY <1>5, <1>6 DEF Sums
<1>8. Recurs(f, S, g)
  BY <1>5, <1>6 DEF Recurs
<1> QED
  BY <1>7, <1>8

\* The sums are numbers.
LEMMA SumsAreInt ==
  ASSUME NEW S, IsFiniteSet(S), NEW f \in [S -> Int], NEW g, Sums(f, S, g)
  PROVE  \A A \in SUBSET S : g[A] \in Int
<1> SUFFICES ASSUME NEW bad \in SUBSET S, g[bad] \notin Int PROVE FALSE
  OBVIOUS
<1> DEFINE T == {A \in SUBSET S : g[A] \notin Int}
<1>1. (\A A \in T : IsFiniteSet(A)) /\ T # {}
  BY FS_Subset
<1> HIDE DEF T
<1>2. PICK A \in T : \A B \in T : B \subseteq A => B = A
  BY <1>1, LeastSubset
<1> USE DEF T
<1>0. g[A] \notin Int /\ g[{}] = 0
  BY DEF Sums
<1>3. A # {}
  BY <1>0
<1>4. Some(A) \in A
  BY <1>3 DEF Some
<1>5. g[A] = f[Some(A)] + g[A \ {Some(A)}]
  BY <1>3 DEF Sums
<1>6. A \ {Some(A)} \in SUBSET S /\ A \ {Some(A)} \notin T
  BY <1>2, <1>4
<1> QED
  BY <1>4, <1>5, <1>6

LEMMA Weigh ==
  ASSUME NEW a \in Int, NEW b \in Int, NEW x \in Int, NEW y \in Int, NEW u \in Int, NEW v \in Int,
         NEW M \in Int, NEW n \in Int, a * x + b * y <= M, a * u + b * v <= M * n
  PROVE  a * (x + u) + b * (y + v) <= M * (n + 1)
<1>1. a * (x + u) = a * x + a * u /\ b * (y + v) = b * y + b * v /\ M * (n + 1) = M * n + M
  OBVIOUS
<1>2. /\ a * x \in Int /\ a * u \in Int /\ b * y \in Int /\ b * v \in Int /\ M * n \in Int
  OBVIOUS
<1> QED
  BY <1>1, <1>2

\* If a weight of two functions is nowhere above M, that of their sums is not above M for each.
LEMMA SumsBound ==
  ASSUME NEW S, IsFiniteSet(S), NEW f1 \in [S -> Int], NEW g1, Sums(f1, S, g1),
         NEW f2 \in [S -> Int], NEW g2, Sums(f2, S, g2),
         NEW a \in Int, NEW b \in Int, NEW M \in Int,
         \A x \in S : a * f1[x] + b * f2[x] <= M
  PROVE  a * g1[S] + b * g2[S] <= M * Cardinality(S)
<1> DEFINE T == {A \in SUBSET S : ~(a * g1[A] + b * g2[A] <= M * Cardinality(A))}
<1> SUFFICES ASSUME S \in T PROVE FALSE
  OBVIOUS
<1>1. (\A A \in T : IsFiniteSet(A)) /\ T # {}
  BY FS_Subset
<1> HIDE DEF T
<1>2. PICK A \in T : \A B \in T : B \subseteq A => B = A
  BY <1>1, LeastSubset
<1> USE DEF T
<1>3. A \in SUBSET S /\ ~(a * g1[A] + b * g2[A] <= M * Cardinality(A))
  OBVIOUS
<1> DEFINE x == Some(A)
           B == A \ {x}
<1>4. A # {}
  <2>1. g1[{}] = 0 /\ g2[{}] = 0 /\ Cardinality({}) = 0
    BY FS_EmptySet DEF Sums
  <2>2. a * 0 + b * 0 <= M * 0
    OBVIOUS
  <2> QED
    BY <1>3, <2>1, <2>2
<1>5. x \in A /\ x \in S
  BY <1>3, <1>4 DEF Some
<1>6. g1[A] = f1[x] + g1[B] /\ g2[A] = f2[x] + g2[B]
  BY <1>3, <1>4 DEF Sums
<1>7. B \in SUBSET S /\ B \notin T
  BY <1>2, <1>5
<1>8. Cardinality(B) \in Int /\ Cardinality(A) = Cardinality(B) + 1
  <2>1. IsFiniteSet(A)
    BY <1>3, FS_Subset
  <2>2. Cardinality(B) = Cardinality(A) - 1 /\ Cardinality(A) \in Nat
    BY <1>5, <2>1, FS_RemoveElement, FS_CardinalityType
  <2>3. \A m \in Nat : \A i : i = m - 1 => i \in Int /\ m = i + 1
    OBVIOUS
  <2> HIDE DEF B, T
  <2> QED
    BY <2>2, <2>3
<1>9. g1[B] \in Int /\ g2[B] \in Int /\ f1[x] \in Int /\ f2[x] \in Int
  BY <1>5, <1>7, SumsAreInt
<1>10. a * g1[B] + b * g2[B] <= M * Cardinality(B)
  BY <1>7
<1>11. a * f1[x] + b * f2[x] <= M
  BY <1>5
<1> HIDE DEF x, B, T
<1>12. a * (f1[x] + g1[B]) + b * (f2[x] + g2[B]) <= M * (Cardinality(B) + 1)
  BY <1>8, <1>9, <1>10, <1>11, Weigh
<1> QED
  BY <1>3, <1>6, <1>8, <1>12
-----------------------------------------------------------------------------
(* The mean of what a window sees.                                         *)

Coordinate(pixels, d) == [b \in pixels |-> b[d]]

\* The moments are sums.
LEMMA MomentIs ==
  ASSUME NEW pixels, IsFiniteSet(pixels), NEW d, \A b \in pixels : b[d] \in Int
  PROVE  \E g : Sums(Coordinate(pixels, d), pixels, g) /\ Moment(pixels, d) = g[pixels]
<1> DEFINE f == Coordinate(pixels, d)
           Iter(g) == [A \in SUBSET pixels |->
                         IF A = {} THEN 0
                         ELSE (CHOOSE x \in A : TRUE)[d] + g[A \ {CHOOSE x \in A : TRUE}]]
           R == CHOOSE g : g = Iter(g)
<1>1. f \in [pixels -> Int]
  BY DEF Coordinate
<1>2. PICK g : Sums(f, pixels, g) /\ Recurs(f, pixels, g)
  <2> HIDE DEF f
  <2> QED
    BY <1>1, SumsExist
<1>3. \A A \in SUBSET pixels : A # {} =>
        Some(A) \in pixels /\ f[Some(A)] = (CHOOSE x \in A : TRUE)[d]
        /\ Some(A) = CHOOSE x \in A : TRUE
  BY DEF Some, Coordinate
<1>4. g = Iter(g)
  <2>1. \A A \in SUBSET pixels :
          (IF A = {} THEN 0 ELSE f[Some(A)] + g[A \ {Some(A)}])
            = IF A = {} THEN 0
              ELSE (CHOOSE x \in A : TRUE)[d] + g[A \ {CHOOSE x \in A : TRUE}]
    BY <1>3
  <2> HIDE DEF f
  <2> QED
    BY <1>2, <2>1 DEF Recurs
<1>5. R = Iter(R)
  <2>1. \E h : h = Iter(h)
    BY <1>4
  <2> HIDE DEF Iter
  <2> QED
    BY <2>1
<1>6. Moment(pixels, d) = R[pixels]
  BY DEF Moment, MapThenSumSet, MapThenFoldSet
<1> HIDE DEF R
<1>7. R[{}] = 0
  BY <1>5
<1>8. ASSUME NEW A \in SUBSET pixels, A # {} PROVE R[A] = f[Some(A)] + R[A \ {Some(A)}]
  <2>1. R[A] = (CHOOSE x \in A : TRUE)[d] + R[A \ {CHOOSE x \in A : TRUE}]
    BY <1>5, <1>8
  <2> HIDE DEF f
  <2> QED
    BY <1>3, <1>8, <2>1
<1>9. Sums(f, pixels, R)
  <2> HIDE DEF f
  <2> QED
    BY <1>7, <1>8 DEF Sums
<1> QED
  BY <1>6, <1>9

\* A mean that is rounded is no more than half away.
LEMMA RoundIs ==
  ASSUME NEW a \in Int, NEW b \in Nat, b # 0
  PROVE  /\ Round(a, b) \in Int
         /\ 2 * a <= (2 * Round(a, b) + 1) * b
         /\ (2 * Round(a, b) - 1) * b <= 2 * a
<1> DEFINE q == a \div b
           r == a % b
<1>1. q \in Int /\ r \in 0 .. b - 1 /\ a = b * q + r
  OBVIOUS
<1> HIDE DEF q, r
<1>2. Round(a, b) \in {q, q + 1}
      /\ (Round(a, b) = q => 2 * r <= b) /\ (Round(a, b) = q + 1 => 2 * r >= b)
  BY <1>1 DEF Round, q, r
<1>3. CASE Round(a, b) = q
  <2>1. 2 * r <= b
    BY <1>2, <1>3
  <2>2. (2 * q + 1) * b = 2 * (b * q) + b /\ (2 * q - 1) * b = 2 * (b * q) - b /\ b * q \in Int
    BY <1>1
  <2> QED
    BY <1>1, <1>3, <2>1, <2>2
<1>4. CASE Round(a, b) = q + 1
  <2>1. 2 * r >= b
    BY <1>2, <1>4
  <2>2. (2 * (q + 1) + 1) * b = 2 * (b * q) + 3 * b /\ (2 * (q + 1) - 1) * b = 2 * (b * q) + b
        /\ b * q \in Int
    BY <1>1
  <2> QED
    BY <1>1, <1>4, <2>1, <2>2
<1> QED
  BY <1>2, <1>3, <1>4
\* What is known of the mean <<a, c>> of the pixels in 2*hw + 1 columns and 2*hh + 1 rows: s and t
\* are their moments and n is their number.
Means(pixels, hw, hh, s, t, n, a, c) ==
  /\ hw \in Nat /\ hh \in Nat /\ s \in Int /\ t \in Int /\ n \in Nat /\ n # 0
  /\ a \in Int /\ c \in Int
  /\ pixels # {} /\ \A b \in pixels : b[1] \in 0 .. 2 * hw /\ b[2] \in 0 .. 2 * hh
  /\ 2 * s <= (2 * a + 1) * n /\ (2 * a - 1) * n <= 2 * s
  /\ 2 * t <= (2 * c + 1) * n /\ (2 * c - 1) * n <= 2 * t
  /\ \A e, f, M \in Int :
       (\A b \in pixels : e * b[1] + f * b[2] <= M) => e * s + f * t <= M * n

LEMMA MeansOf ==
  ASSUME NEW pixels, IsFiniteSet(pixels), pixels # {}, NEW hw \in Nat, NEW hh \in Nat,
         \A b \in pixels : b[1] \in 0 .. 2 * hw /\ b[2] \in 0 .. 2 * hh
  PROVE  Means(pixels, hw, hh, Moment(pixels, 1), Moment(pixels, 2), Cardinality(pixels),
               MeanOf(pixels)[1], MeanOf(pixels)[2])
<1> DEFINE f1 == Coordinate(pixels, 1)
           f2 == Coordinate(pixels, 2)
           s == Moment(pixels, 1)
           t == Moment(pixels, 2)
           n == Cardinality(pixels)
<1>1. \A b \in pixels : b[1] \in Int /\ b[2] \in Int
  OBVIOUS
<1>2. /\ f1 \in [pixels -> Int] /\ f2 \in [pixels -> Int]
      /\ \A b \in pixels : f1[b] = b[1] /\ f2[b] = b[2]
  BY <1>1 DEF Coordinate
<1>3. n \in Nat /\ n # 0
  BY FS_CardinalityType, FS_EmptySet
<1>4. PICK g1 : Sums(f1, pixels, g1) /\ s = g1[pixels]
  BY <1>1, MomentIs
<1>5. PICK g2 : Sums(f2, pixels, g2) /\ t = g2[pixels]
  BY <1>1, MomentIs
<1> HIDE DEF f1, f2, s, t, n
<1>6. s \in Int /\ t \in Int
  <2>1. pixels \in SUBSET pixels
    OBVIOUS
  <2> QED
    BY <1>2, <1>4, <1>5, <2>1, SumsAreInt
<1>7. ASSUME NEW e \in Int, NEW f \in Int, NEW M \in Int,
             \A b \in pixels : e * b[1] + f * b[2] <= M
      PROVE  e * s + f * t <= M * n
  <2>1. \A b \in pixels : e * f1[b] + f * f2[b] <= M
    BY <1>2, <1>7
  <2>2. e * g1[pixels] + f * g2[pixels] <= M * Cardinality(pixels)
    BY <1>2, <1>4, <1>5, <2>1, SumsBound
  <2> QED
    BY <1>4, <1>5, <2>2 DEF n
<1>8. MeanOf(pixels)[1] = Round(s, n) /\ MeanOf(pixels)[2] = Round(t, n)
  BY DEF MeanOf, s, t, n
<1>9. /\ Round(s, n) \in Int /\ 2 * s <= (2 * Round(s, n) + 1) * n
      /\ (2 * Round(s, n) - 1) * n <= 2 * s
  BY <1>3, <1>6, RoundIs
<1>10. /\ Round(t, n) \in Int /\ 2 * t <= (2 * Round(t, n) + 1) * n
       /\ (2 * Round(t, n) - 1) * n <= 2 * t
  BY <1>3, <1>6, RoundIs
<1>11. Means(pixels, hw, hh, s, t, n, MeanOf(pixels)[1], MeanOf(pixels)[2])
  BY <1>3, <1>6, <1>7, <1>8, <1>9, <1>10 DEF Means
<1> QED
  BY <1>11 DEF s, t, n

LEMMA Cancel ==
  ASSUME NEW x \in Int, NEW y \in Int, NEW n \in Nat, n # 0, x * n <= y * n
  PROVE  x <= y
<1> SUFFICES ASSUME y + 1 <= x PROVE FALSE
  OBVIOUS
<1>1. PICK e \in Nat : x = y + 1 + e
  <2>1. x - y - 1 \in Nat /\ x = y + 1 + (x - y - 1)
    OBVIOUS
  <2> QED
    BY <2>1
<1>2. x * n = y * n + n + e * n /\ e * n \in Nat /\ y * n \in Int
  BY <1>1
<1> QED
  BY <1>2

\* Mirrored or not, the moments are no more than half a pixel for each below the mean.
LEMMA MeansSided ==
  ASSUME NEW pixels, NEW hw, NEW hh, NEW s, NEW t, NEW n, NEW a, NEW c,
         Means(pixels, hw, hh, s, t, n, a, c), NEW e \in {-1, 1}
  PROVE  (2 * (e * a) - 1) * n <= 2 * (e * s) /\ (2 * (e * c) - 1) * n <= 2 * (e * t)
<1>0. s \in Int /\ t \in Int /\ n \in Nat /\ a \in Int /\ c \in Int
  BY DEF Means
<1>1. CASE e = 1
  <2>1. e * a = a /\ e * s = s /\ e * c = c /\ e * t = t
    BY <1>0, <1>1
  <2> QED
    BY <2>1 DEF Means
<1>2. CASE e = -1
  <2>1. e * a = -a /\ e * s = -s /\ e * c = -c /\ e * t = -t
    BY <1>0, <1>2
  <2>2. (2 * (-a) - 1) * n = -((2 * a + 1) * n) /\ (2 * (-c) - 1) * n = -((2 * c + 1) * n)
    BY <1>0
  <2>3. (2 * a + 1) * n \in Int /\ (2 * c + 1) * n \in Int
    BY <1>0
  <2>4. 2 * s <= (2 * a + 1) * n /\ 2 * t <= (2 * c + 1) * n
    BY DEF Means
  <2>5. -((2 * a + 1) * n) <= 2 * (-s) /\ -((2 * c + 1) * n) <= 2 * (-t)
    BY <1>0, <2>3, <2>4
  <2> QED
    BY <2>1, <2>2, <2>5
<1> QED
  BY <1>1, <1>2

\* The mean is among the columns and the rows.
LEMMA MeansInside ==
  ASSUME NEW pixels, NEW hw, NEW hh, NEW s, NEW t, NEW n, NEW a, NEW c,
         Means(pixels, hw, hh, s, t, n, a, c)
  PROVE  a \in 0 .. 2 * hw /\ c \in 0 .. 2 * hh
<1>0. /\ hw \in Nat /\ hh \in Nat /\ s \in Int /\ t \in Int /\ n \in Nat /\ n # 0
      /\ a \in Int /\ c \in Int
      /\ \A b \in pixels : b[1] \in 0 .. 2 * hw /\ b[2] \in 0 .. 2 * hh
  BY DEF Means
<1>1. \A e, f, M \in Int :
        (\A b \in pixels : e * b[1] + f * b[2] <= M) => e * s + f * t <= M * n
  BY DEF Means
<1>2. (-1) * s + 0 * t <= 0 * n
  <2>1. \A b \in pixels : (-1) * b[1] + 0 * b[2] <= 0
    BY <1>0
  <2> QED
    BY <1>1, <2>1
<1>3. 0 * s + (-1) * t <= 0 * n
  <2>1. \A b \in pixels : 0 * b[1] + (-1) * b[2] <= 0
    BY <1>0
  <2> QED
    BY <1>1, <2>1
<1>4. 1 * s + 0 * t <= (2 * hw) * n
  <2> DEFINE last == 2 * hw
  <2>1. last \in Int /\ \A b \in pixels : 1 * b[1] + 0 * b[2] <= last
    BY <1>0
  <2> HIDE DEF last
  <2>2. 1 * s + 0 * t <= last * n
    BY <1>1, <2>1
  <2> QED
    BY <2>2 DEF last
<1>5. 0 * s + 1 * t <= (2 * hh) * n
  <2> DEFINE last == 2 * hh
  <2>1. last \in Int /\ \A b \in pixels : 0 * b[1] + 1 * b[2] <= last
    BY <1>0
  <2> HIDE DEF last
  <2>2. 0 * s + 1 * t <= last * n
    BY <1>1, <2>1
  <2> QED
    BY <2>2 DEF last
<1>6. 0 <= s /\ 0 <= t /\ s <= (2 * hw) * n /\ t <= (2 * hh) * n
  BY <1>0, <1>2, <1>3, <1>4, <1>5
<1>7. /\ 0 * n <= (2 * a + 1) * n /\ 0 * n <= (2 * c + 1) * n
      /\ (2 * a - 1) * n <= (4 * hw) * n /\ (2 * c - 1) * n <= (4 * hh) * n
  <2>1. /\ 2 * s <= (2 * a + 1) * n /\ (2 * a - 1) * n <= 2 * s
        /\ 2 * t <= (2 * c + 1) * n /\ (2 * c - 1) * n <= 2 * t
    BY DEF Means
  <2>2. /\ (4 * hw) * n = 2 * ((2 * hw) * n) /\ (4 * hh) * n = 2 * ((2 * hh) * n) /\ 0 * n = 0
    BY <1>0
  <2>3. /\ (2 * a + 1) * n \in Int /\ (2 * a - 1) * n \in Int /\ (2 * c + 1) * n \in Int
        /\ (2 * c - 1) * n \in Int /\ (2 * hw) * n \in Int /\ (2 * hh) * n \in Int
    BY <1>0
  <2> QED
    BY <1>0, <1>6, <2>1, <2>2, <2>3
<1>8. 0 <= 2 * a + 1 /\ 0 <= 2 * c + 1
  <2>1. 2 * a + 1 \in Int /\ 2 * c + 1 \in Int
    BY <1>0
  <2> QED
    BY <1>0, <1>7, <2>1, Cancel
<1>9. 2 * a - 1 <= 4 * hw /\ 2 * c - 1 <= 4 * hh
  <2>1. 2 * a - 1 \in Int /\ 2 * c - 1 \in Int /\ 4 * hw \in Int /\ 4 * hh \in Int
    BY <1>0
  <2> QED
    BY <1>0, <1>7, <2>1, Cancel
<1> QED
  BY <1>0, <1>8, <1>9
LEMMA Times ==
  ASSUME NEW i \in Nat, NEW x \in Int, NEW y \in Int, x <= y
  PROVE  i * x <= i * y
<1>1. PICK e \in Nat : y = x + e
  <2>1. y - x \in Nat /\ y = x + (y - x)
    OBVIOUS
  <2> QED
    BY <2>1
<1>2. i * y = i * x + i * e /\ i * e \in Nat /\ i * x \in Int
  BY <1>1
<1> QED
  BY <1>2

LEMMA Regroup ==
  ASSUME NEW x \in Nat, NEW y \in {-1, 1}, NEW z \in Int
  PROVE  (x * y) * z = x * (y * z)
<1>1. CASE y = 1
  BY <1>1
<1>2. CASE y = -1
  BY <1>2
<1> QED
  BY <1>1, <1>2

\* What a weight of the pixels is at most bounds that of the mean, with half of each weight lost.
LEMMA MeansWeighed ==
  ASSUME NEW pixels, NEW hw, NEW hh, NEW s, NEW t, NEW n, NEW a, NEW c,
         Means(pixels, hw, hh, s, t, n, a, c),
         NEW e \in {-1, 1}, NEW f \in {-1, 1}, NEW i \in Nat, NEW j \in Nat, NEW M \in Int,
         \A b \in pixels : i * (e * b[1]) + j * (f * b[2]) <= M
  PROVE  i * (2 * (e * a) - 1) + j * (2 * (f * c) - 1) <= 2 * M
<1>0. /\ s \in Int /\ t \in Int /\ n \in Nat /\ n # 0 /\ a \in Int /\ c \in Int
      /\ \A b \in pixels : b[1] \in Int /\ b[2] \in Int
  BY DEF Means
<1>1. e \in Int /\ f \in Int /\ i * e \in Int /\ j * f \in Int
  OBVIOUS
<1>2. (i * e) * s + (j * f) * t <= M * n
  <2>1. \A b \in pixels : (i * e) * b[1] + (j * f) * b[2] <= M
    <3> SUFFICES ASSUME NEW b \in pixels PROVE (i * e) * b[1] + (j * f) * b[2] <= M
      OBVIOUS
    <3>1. b[1] \in Int /\ b[2] \in Int
      BY <1>0
    <3>2. (i * e) * b[1] = i * (e * b[1]) /\ (j * f) * b[2] = j * (f * b[2])
      BY <3>1, Regroup
    <3>3. i * (e * b[1]) + j * (f * b[2]) <= M
      OBVIOUS
    <3> QED
      BY <3>2, <3>3
  <2>2. \A e1, f1, m \in Int :
          (\A b \in pixels : e1 * b[1] + f1 * b[2] <= m) => e1 * s + f1 * t <= m * n
    BY DEF Means
  <2> QED
    BY <1>1, <2>1, <2>2
<1> DEFINE u == 2 * (e * a) - 1
           v == 2 * (f * c) - 1
<1>3. u * n <= 2 * (e * s) /\ v * n <= 2 * (f * t)
  BY MeansSided
<1>4. u \in Int /\ v \in Int /\ e * s \in Int /\ f * t \in Int
  BY <1>0, <1>1
<1>5. (i * e) * s = i * (e * s) /\ (j * f) * t = j * (f * t)
  BY <1>0, <1>1
<1> HIDE DEF u, v
<1>6. i * (u * n) <= i * (2 * (e * s)) /\ j * (v * n) <= j * (2 * (f * t))
  <2>1. u * n \in Int /\ v * n \in Int /\ 2 * (e * s) \in Int /\ 2 * (f * t) \in Int
    BY <1>0, <1>4
  <2> QED
    BY <1>3, <2>1, Times
<1>7. (i * u + j * v) * n <= (2 * M) * n
  <2>1. i * (2 * (e * s)) = 2 * (i * (e * s)) /\ j * (2 * (f * t)) = 2 * (j * (f * t))
    BY <1>4
  <2>2. (i * u + j * v) * n = i * (u * n) + j * (v * n) /\ (2 * M) * n = 2 * (M * n)
    BY <1>0, <1>4
  <2>3. /\ i * (u * n) \in Int /\ j * (v * n) \in Int /\ i * (e * s) \in Int
        /\ j * (f * t) \in Int /\ M * n \in Int
    BY <1>0, <1>4
  <2> QED
    BY <1>2, <1>5, <1>6, <2>1, <2>2, <2>3
<1>8. i * u + j * v \in Int /\ 2 * M \in Int
  BY <1>4
<1> QED
  BY <1>0, <1>7, <1>8, Cancel DEF u, v

\* The side on which a centre lies.
Side(a, hw) == IF a > hw THEN 1 ELSE -1

\* What is beyond the reach of a window that is off its centre is on the other side.
LEMMA BeyondReach ==
  ASSUME NEW hw \in Nat, NEW a \in 0 .. 2 * hw, NEW x \in 0 .. 2 * hw, x - a \notin -hw .. hw
  PROVE  /\ a # hw
         /\ Side(a, hw) * x <= Side(a, hw) * a - hw - 1
<1>1. CASE a > hw
  <2>1. Side(a, hw) = 1
    BY <1>1 DEF Side
  <2> QED
    BY <1>1, <2>1
<1>2. CASE a <= hw
  <2>1. Side(a, hw) = -1
    BY <1>2 DEF Side
  <2>2. (-1) * x = -x /\ (-1) * a = -a
    OBVIOUS
  <2> QED
    BY <1>2, <2>1, <2>2
<1> QED
  BY <1>1, <1>2

\* The window around the mean sees a pixel.
LEMMA MeansSee ==
  ASSUME NEW pixels, NEW hw, NEW hh, NEW s, NEW t, NEW n, NEW a, NEW c,
         Means(pixels, hw, hh, s, t, n, a, c)
  PROVE  \E b \in pixels : b[1] - a \in -hw .. hw /\ b[2] - c \in -hh .. hh
<1>0. /\ hw \in Nat /\ hh \in Nat /\ a \in 0 .. 2 * hw /\ c \in 0 .. 2 * hh /\ pixels # {}
      /\ \A b \in pixels : b[1] \in 0 .. 2 * hw /\ b[2] \in 0 .. 2 * hh
  <2>1. a \in 0 .. 2 * hw /\ c \in 0 .. 2 * hh
    BY MeansInside
  <2> QED
    BY <2>1 DEF Means
<1> SUFFICES ASSUME \A b \in pixels : b[1] - a \notin -hw .. hw \/ b[2] - c \notin -hh .. hh
             PROVE  FALSE
  OBVIOUS
<1> DEFINE e == Side(a, hw)
           f == Side(c, hh)
<1>1. e \in {-1, 1} /\ f \in {-1, 1}
  BY DEF Side
<1>2. \A b \in pixels :
        \/ a # hw /\ e * b[1] <= e * a - hw - 1
        \/ c # hh /\ f * b[2] <= f * c - hh - 1
  BY <1>0, BeyondReach
<1>3. /\ \A b \in pixels : e * b[1] \in Int /\ f * b[2] \in Int
      /\ e * a \in Int /\ f * c \in Int
  BY <1>0, <1>1
<1>4. /\ \A b \in pixels : e * b[1] <= e * hw + hw /\ f * b[2] <= f * hh + hh
      /\ e * hw \in Int /\ f * hh \in Int
      /\ (a # hw => e * a >= e * hw + 1 /\ hw >= 1) /\ (c # hh => f * c >= f * hh + 1 /\ hh >= 1)
  <2>1. \A x \in 0 .. 2 * hw : 1 * x <= 1 * hw + hw /\ (-1) * x <= (-1) * hw + hw
    BY <1>0
  <2>2. \A x \in 0 .. 2 * hh : 1 * x <= 1 * hh + hh /\ (-1) * x <= (-1) * hh + hh
    BY <1>0
  <2>3. a # hw => e * a >= e * hw + 1 /\ hw >= 1
    BY <1>0 DEF Side
  <2>4. c # hh => f * c >= f * hh + 1 /\ hh >= 1
    BY <1>0 DEF Side
  <2> QED
    BY <1>0, <1>1, <2>1, <2>2, <2>3, <2>4
<1> HIDE DEF e, f
<1> DEFINE ea == e * a
           fc == f * c
           ek == e * hw
           fl == f * hh
<1>5. \A i, j \in Nat, M \in Int :
        (\A b \in pixels : i * (e * b[1]) + j * (f * b[2]) <= M)
          => i * (2 * ea - 1) + j * (2 * fc - 1) <= 2 * M
  BY <1>1, MeansWeighed
<1>6. ea \in Int /\ fc \in Int /\ ek \in Int /\ fl \in Int
  BY <1>3, <1>4
<1>7. CASE a = hw
  <2>1. \A b \in pixels : 0 * (e * b[1]) + 1 * (f * b[2]) <= fc - hh - 1
    BY <1>0, <1>2, <1>3, <1>7
  <2>2. 0 * (2 * ea - 1) + 1 * (2 * fc - 1) <= 2 * (fc - hh - 1)
    BY <1>0, <1>5, <1>6, <2>1
  <2> HIDE DEF fc, ea
  <2> QED
    BY <1>0, <1>6, <2>2
<1>8. CASE c = hh
  <2>1. \A b \in pixels : 1 * (e * b[1]) + 0 * (f * b[2]) <= ea - hw - 1
    BY <1>0, <1>2, <1>3, <1>8
  <2>2. 1 * (2 * ea - 1) + 0 * (2 * fc - 1) <= 2 * (ea - hw - 1)
    BY <1>0, <1>5, <1>6, <2>1
  <2> HIDE DEF fc, ea
  <2> QED
    BY <1>0, <1>6, <2>2
<1>9. CASE a # hw /\ c # hh
  <2> DEFINE P == hh * (ea - hw - 1) + hw * (fl + hh)
             Q == hh * (ek + hw) + hw * (fc - hh - 1)
             M == IF P <= Q THEN Q ELSE P
  <2>1. P \in Int /\ Q \in Int /\ M \in Int
    BY <1>0, <1>6
  <2>2. \A b \in pixels : hh * (e * b[1]) + hw * (f * b[2]) <= M
    <3> SUFFICES ASSUME NEW b \in pixels PROVE hh * (e * b[1]) + hw * (f * b[2]) <= M
      OBVIOUS
    <3> DEFINE x == e * b[1]
               y == f * b[2]
    <3>1. x \in Int /\ y \in Int /\ x <= ek + hw /\ y <= fl + hh
      BY <1>3, <1>4
    <3>2. x <= ea - hw - 1 \/ y <= fc - hh - 1
      BY <1>2
    <3> HIDE DEF x, y, ea, fc, ek, fl
    <3>3. CASE x <= ea - hw - 1
      <4>1. hh * x <= hh * (ea - hw - 1) /\ hw * y <= hw * (fl + hh)
        BY <1>0, <1>6, <3>1, <3>3, Times
      <4>2. hh * x \in Int /\ hw * y \in Int /\ hh * (ea - hw - 1) \in Int /\ hw * (fl + hh) \in Int
        BY <1>0, <1>6, <3>1
      <4>3. hh * x + hw * y <= P
        BY <4>1, <4>2
      <4> QED
        <5> HIDE DEF P, Q
        <5> QED
          BY <2>1, <4>2, <4>3 DEF x, y
    <3>4. CASE y <= fc - hh - 1
      <4>1. hh * x <= hh * (ek + hw) /\ hw * y <= hw * (fc - hh - 1)
        BY <1>0, <1>6, <3>1, <3>4, Times
      <4>2. hh * x \in Int /\ hw * y \in Int /\ hh * (ek + hw) \in Int /\ hw * (fc - hh - 1) \in Int
        BY <1>0, <1>6, <3>1
      <4>3. hh * x + hw * y <= Q
        BY <4>1, <4>2
      <4> QED
        <5> HIDE DEF P, Q
        <5> QED
          BY <2>1, <4>2, <4>3 DEF x, y
    <3> QED
      BY <3>2, <3>3, <3>4
  <2>3. hh * (2 * ea - 1) + hw * (2 * fc - 1) <= 2 * M
    <3> HIDE DEF M, ea, fc
    <3> QED
      BY <1>0, <1>5, <2>1, <2>2
  <2>4. hh >= 1 /\ hw >= 1 /\ ea >= ek + 1 /\ fc >= fl + 1
    BY <1>4, <1>9
  <2> HIDE DEF ea, fc, ek, fl
  <2>5. /\ hh * (2 * ea - 1) = 2 * (hh * ea) - hh /\ hw * (2 * fc - 1) = 2 * (hw * fc) - hw
        /\ P = hh * ea - hh * hw - hh + hw * fl + hw * hh
        /\ Q = hh * ek + hh * hw + hw * fc - hw * hh - hw
        /\ hh * hw = hw * hh
    BY <1>0, <1>6
  <2>6. /\ hh * ea \in Int /\ hw * fc \in Int /\ hh * ek \in Int /\ hw * fl \in Int /\ hh * hw \in Int
        /\ hh * (ek + 1) = hh * ek + hh /\ hw * (fl + 1) = hw * fl + hw
        /\ hh * (ek + 1) <= hh * ea /\ hw * (fl + 1) <= hw * fc
    <3>1. hh * (ek + 1) <= hh * ea /\ hw * (fl + 1) <= hw * fc
      BY <1>0, <1>6, <2>4, Times
    <3> QED
      BY <1>0, <1>6, <3>1
  <2> QED
    BY <1>0, <2>1, <2>3, <2>4, <2>5, <2>6
<1> QED
  BY <1>7, <1>8, <1>9
-----------------------------------------------------------------------------
(* The window.                                                             *)

\* The windows that the tracker may have: rectangles, but that an even side as long as the
\* image's may stick out.
Windows ==
  {r \in [x : Int, y : Int, width : Sizes, height : Sizes] :
     /\ r.x \in Begins(r.width, Cols) /\ r.y \in Begins(r.height, Rows)
     /\ r.width <= Cols /\ r.height <= Rows}

\* What holds of the tracker whatever is done with it: the window is in the image, as far as it
\* fits, and around the centre, and one that was moved, and whose sizes have a middle, sees
\* something.
ShiftInv ==
  /\ region \in Windows /\ p = CentreOf(region)
  /\ sim \in Bright \cup {NoImage} /\ turn \in Nat
  /\ sim = NoImage => turn = 0
  /\ turn > 0 /\ region.width % 2 = 1 /\ region.height % 2 = 1 => Roi(region, sim) # {}

LEMMA Halves ==
  ASSUME NEW n \in Nat
  PROVE  /\ n \div 2 \in Nat /\ n % 2 \in {0, 1} /\ n = 2 * (n \div 2) + (n % 2)
OBVIOUS

\* A coordinate is put back so that the window is inside, if it fits, and loses nothing of the
\* image.
LEMMA WithinHolds ==
  ASSUME NEW length \in Nat, NEW size \in 1 .. length, NEW n \in Int
  PROVE  LET half == size \div 2
             r == Within(n, size, length)
         IN /\ r - half \in Begins(size, length)
            /\ size % 2 = 1 =>
                 \A c \in 0 .. length - 1 : c \in n - half .. n + half => c \in r - half .. r + half
<1> DEFINE half == size \div 2
           odd == size % 2
           low == IF n - half <= 0 THEN half ELSE n
           r == IF low + half >= length THEN length - half - 1 ELSE low
<1>1. half \in Nat /\ odd \in {0, 1} /\ size = 2 * half + odd
  BY Halves
<1>2. Within(n, size, length) = r
  BY DEF Within
<1>3. Begins(size, length) = IF size = length /\ odd = 0 THEN {-1, 0} ELSE 0 .. length - size
  BY DEF Begins
<1> HIDE DEF half, odd
<1>4. /\ r - half \in Begins(size, length)
      /\ odd = 1 =>
           \A c \in 0 .. length - 1 : c \in n - half .. n + half => c \in r - half .. r + half
  <2>1. CASE size = length /\ odd = 0
    BY <1>1, <1>3, <2>1
  <2>2. CASE ~(size = length /\ odd = 0)
    <3>1. r - half >= 0 /\ r - half <= length - size
      BY <1>1, <2>2
    <3>2. r - half \in 0 .. length - size
      BY <1>1, <3>1
    <3>3. odd = 1 =>
           \A c \in 0 .. length - 1 : c \in n - half .. n + half => c \in r - half .. r + half
      BY <1>1
    <3> QED
      BY <1>3, <2>2, <3>2, <3>3
  <2> QED
    BY <2>1, <2>2
<1> HIDE DEF r
<1> QED
  BY <1>2, <1>4 DEF half, odd

\* The tracker begins with a rectangle of the image.
LEMMA RectsAreWindows == Rects \subseteq Windows
<1> SUFFICES ASSUME NEW r \in Rects PROVE r \in Windows
  OBVIOUS
<1>1. /\ r \in [x : 0 .. Cols, y : 0 .. Rows, width : Sizes, height : Sizes]
      /\ r.x + r.width <= Cols /\ r.y + r.height <= Rows
  BY DEF Rects
<1>2. /\ Cols \in Nat /\ Rows \in Nat /\ r.width \in Nat \ {0} /\ r.height \in Nat \ {0}
      /\ r.x \in 0 .. Cols /\ r.y \in 0 .. Rows
  BY <1>1, MeanShiftAssumption
<1>3. r.x \in Begins(r.width, Cols)
  BY <1>1, <1>2 DEF Begins
<1>4. r.y \in Begins(r.height, Rows)
  BY <1>1, <1>2 DEF Begins
<1>5. r \in [x : Int, y : Int, width : Sizes, height : Sizes]
  BY <1>1, <1>2
<1> QED
  BY <1>1, <1>2, <1>3, <1>4, <1>5 DEF Windows

\* The pixels of a window are as many as the image has there, at most, and within its sizes.
LEMMA RoiIs ==
  ASSUME NEW rect \in Rects, NEW image \in Bright
  PROVE  /\ IsFiniteSet(Roi(rect, image))
         /\ \A b \in Roi(rect, image) :
              /\ b[1] \in 0 .. rect.width - 1 /\ b[2] \in 0 .. rect.height - 1
              /\ <<b[1] + rect.x, b[2] + rect.y>> \in image
              /\ b[1] + rect.x \in 0 .. Cols - 1 /\ b[2] + rect.y \in 0 .. Rows - 1
<1> DEFINE seen == {c \in image : c[1] \in rect.x .. rect.x + rect.width - 1
                                  /\ c[2] \in rect.y .. rect.y + rect.height - 1}
           moved == [c \in seen |-> <<c[1] - rect.x, c[2] - rect.y>>]
<1>0. /\ Cols \in Nat /\ Rows \in Nat
      /\ image \subseteq (0 .. Cols - 1) \X (0 .. Rows - 1)
      /\ rect.x \in Nat /\ rect.y \in Nat /\ rect.width \in Nat /\ rect.height \in Nat
  <2>1. rect \in [x : 0 .. Cols, y : 0 .. Rows, width : Sizes, height : Sizes]
    BY DEF Rects
  <2>2. rect.x \in 0 .. Cols /\ rect.y \in 0 .. Rows /\ rect.width \in Sizes /\ rect.height \in Sizes
    BY <2>1
  <2>3. rect.x \in Nat /\ rect.y \in Nat
    BY <2>2
  <2>4. rect.width \in Nat /\ rect.height \in Nat
    BY <2>2, MeanShiftAssumption
  <2>5. Cols \in Nat /\ Rows \in Nat /\ image \subseteq (0 .. Cols - 1) \X (0 .. Rows - 1)
    BY MeanShiftAssumption
  <2> QED
    BY <2>3, <2>4, <2>5
<1>1. IsFiniteSet(seen)
  <2>1. IsFiniteSet((0 .. Cols - 1) \X (0 .. Rows - 1))
    <3>1. 0 \in Int /\ Cols - 1 \in Int /\ Rows - 1 \in Int
      BY <1>0
    <3>2. IsFiniteSet(0 .. Cols - 1) /\ IsFiniteSet(0 .. Rows - 1)
      BY <3>1, FS_Interval
    <3> QED
      BY <3>2, FS_Product
  <2>2. seen \subseteq (0 .. Cols - 1) \X (0 .. Rows - 1)
    BY <1>0
  <2> QED
    BY <2>1, <2>2, FS_Subset
<1>2. Roi(rect, image) = {<<c[1] - rect.x, c[2] - rect.y>> : c \in seen}
  BY DEF Roi
<1>3. IsFiniteSet({<<c[1] - rect.x, c[2] - rect.y>> : c \in seen})
  <2> DEFINE image1 == {<<c[1] - rect.x, c[2] - rect.y>> : c \in seen}
  <2>1. moved \in Surjection(seen, image1)
    BY Fun_IsSurj
  <2> QED
    BY <1>1, <2>1, FS_Surjection
<1>4. ASSUME NEW b \in Roi(rect, image)
      PROVE  /\ b[1] \in 0 .. rect.width - 1 /\ b[2] \in 0 .. rect.height - 1
             /\ <<b[1] + rect.x, b[2] + rect.y>> \in image
             /\ b[1] + rect.x \in 0 .. Cols - 1 /\ b[2] + rect.y \in 0 .. Rows - 1
  <2>1. PICK c \in seen : b = <<c[1] - rect.x, c[2] - rect.y>>
    BY <1>2
  <2>2. c \in image /\ c = <<c[1], c[2]>> /\ c[1] \in 0 .. Cols - 1 /\ c[2] \in 0 .. Rows - 1
    BY <1>0
  <2>3. c[1] \in rect.x .. rect.x + rect.width - 1 /\ c[2] \in rect.y .. rect.y + rect.height - 1
    OBVIOUS
  <2>4. b[1] = c[1] - rect.x /\ b[2] = c[2] - rect.y
    BY <2>1
  <2>5. b[1] + rect.x = c[1] /\ b[2] + rect.y = c[2]
    BY <1>0, <2>2, <2>4
  <2> QED
    BY <1>0, <2>2, <2>3, <2>4, <2>5
<1> QED
  BY <1>2, <1>3, <1>4

\* A pixel of the image that the window has is one that it sees.
LEMMA RoiHas ==
  ASSUME NEW rect, NEW image, NEW c1, NEW c2, <<c1, c2>> \in image,
         c1 \in rect.x .. rect.x + rect.width - 1, c2 \in rect.y .. rect.y + rect.height - 1
  PROVE  Roi(rect, image) # {}
<1>1. <<c1, c2>>[1] = c1 /\ <<c1, c2>>[2] = c2
  OBVIOUS
<1>2. <<c1 - rect.x, c2 - rect.y>> \in Roi(rect, image)
  BY <1>1 DEF Roi
<1> QED
  BY <1>2

LEMMA TurnKeeps ==
  ASSUME ShiftInv, Turn
  PROVE  ShiftInv'
<1> DEFINE pixels == Roi(region, sim)
           w == region.width
           h == region.height
           hw == w \div 2
           hh == h \div 2
           a == MeanOf(pixels)[1]
           c == MeanOf(pixels)[2]
           r1 == Within(region.x + a, w, Cols)
           r2 == Within(region.y + c, h, Rows)
<1>0. /\ region \in Rects /\ p = CentreOf(region) /\ sim \in Bright /\ turn \in Nat
      /\ ~Rests /\ p' = Shifted(pixels) /\ turn' = turn + 1 /\ sim' = sim
      /\ region' = [region EXCEPT !.x = p'[1] - hw, !.y = p'[2] - hh]
  BY DEF ShiftInv, Turn
<1>1. /\ Cols \in Nat /\ Rows \in Nat /\ w \in 1 .. Cols /\ h \in 1 .. Rows
      /\ region.x \in Nat /\ region.y \in Nat /\ w \in Sizes /\ h \in Sizes
      /\ region = [x |-> region.x, y |-> region.y, width |-> w, height |-> h]
  BY <1>0, MeanShiftAssumption DEF Rects
<1>2. hw \in Nat /\ hh \in Nat /\ w = 2 * hw + (w % 2) /\ h = 2 * hh + (h % 2)
      /\ w % 2 \in {0, 1} /\ h % 2 \in {0, 1}
  BY <1>1, Halves
<1>3. IsFiniteSet(pixels) /\ \A b \in pixels :
        /\ b[1] \in 0 .. w - 1 /\ b[2] \in 0 .. h - 1 /\ <<b[1] + region.x, b[2] + region.y>> \in sim
        /\ b[1] + region.x \in 0 .. Cols - 1 /\ b[2] + region.y \in 0 .. Rows - 1
  BY <1>0, RoiIs
<1>4. pixels # {}
  <2>1. ~(100 * Cardinality(pixels) < 5 * w * h)
    BY <1>0 DEF Rests
  <2>2. 5 * w * h > 0
    BY <1>1
  <2>3. Cardinality({}) = 0
    BY FS_EmptySet
  <2> QED
    BY <2>1, <2>2, <2>3
<1>5. /\ p = <<region.x + hw, region.y + hh>>
      /\ Shifted(pixels) = <<Within(p[1] - (hw - a), w, Cols), Within(p[2] - (hh - c), h, Rows)>>
  BY <1>0 DEF CentreOf, Shifted
<1> HIDE DEF pixels, w, h, hw, hh, a, c
<1>6. PICK s, t, n : Means(pixels, hw, hh, s, t, n, a, c)
  <2>1. 0 .. w - 1 \subseteq 0 .. 2 * hw /\ 0 .. h - 1 \subseteq 0 .. 2 * hh
    BY <1>1, <1>2
  <2>2. \A b \in pixels : b[1] \in 0 .. 2 * hw /\ b[2] \in 0 .. 2 * hh
    BY <1>3, <2>1
  <2> QED
    BY <1>2, <1>3, <1>4, <2>2, MeansOf DEF a, c
<1>7. a \in Int /\ c \in Int
  BY <1>6 DEF Means
<1>8. p' = <<r1, r2>>
  <2>1. p[1] - (hw - a) = region.x + a /\ p[2] - (hh - c) = region.y + c
    BY <1>1, <1>2, <1>5, <1>7
  <2> QED
    BY <1>0, <1>5, <2>1
<1>9. /\ r1 - hw \in Begins(w, Cols)
      /\ w % 2 = 1 => \A i \in 0 .. Cols - 1 :
           i \in region.x + a - hw .. region.x + a + hw => i \in r1 - hw .. r1 + hw
  BY <1>1, <1>7, WithinHolds DEF hw
<1>10. /\ r2 - hh \in Begins(h, Rows)
       /\ h % 2 = 1 => \A i \in 0 .. Rows - 1 :
            i \in region.y + c - hh .. region.y + c + hh => i \in r2 - hh .. r2 + hh
  BY <1>1, <1>7, WithinHolds DEF hh
<1>11. r1 \in Int /\ r2 \in Int
  <2>1. /\ region.x + a \in Int /\ region.y + c \in Int /\ Cols \in Int /\ Rows \in Int
        /\ w \div 2 \in Int /\ h \div 2 \in Int
    BY <1>1, <1>2, <1>7 DEF hw, hh
  <2>2. \A begin, size, length \in Int :
          size \div 2 \in Int => Within(begin, size, length) \in Int
    BY DEF Within
  <2>3. w \in Int /\ h \in Int
    BY <1>1
  <2> QED
    BY <2>1, <2>2, <2>3
<1> HIDE DEF r1, r2
<1>12. region' = [x |-> r1 - hw, y |-> r2 - hh, width |-> w, height |-> h]
  <2>1. p'[1] = r1 /\ p'[2] = r2
    BY <1>8
  <2>2. region' = [region EXCEPT !.x = r1 - hw, !.y = r2 - hh]
    BY <1>0, <2>1
  <2> DEFINE rx == region.x
             ry == region.y
  <2>3. region = [x |-> rx, y |-> ry, width |-> w, height |-> h]
    BY <1>1
  <2> HIDE DEF rx, ry
  <2> QED
    BY <2>2, <2>3
<1>13. region' \in Windows /\ p' = CentreOf(region')
  <2>1. region' \in Windows
    <3>1. r1 - hw \in Int /\ r2 - hh \in Int
      BY <1>2, <1>11
    <3>2. region' \in [x : Int, y : Int, width : Sizes, height : Sizes]
      BY <1>1, <1>12, <3>1
    <3>3. /\ region'.x = r1 - hw /\ region'.y = r2 - hh
          /\ region'.width = w /\ region'.height = h
      BY <1>12
    <3>4. w <= Cols /\ h <= Rows
      BY <1>1
    <3> QED
      BY <1>9, <1>10, <3>2, <3>3, <3>4 DEF Windows
  <2>2. CentreOf(region') = <<r1 - hw + hw, r2 - hh + hh>>
    BY <1>12 DEF CentreOf, hw, hh
  <2>3. r1 - hw + hw = r1 /\ r2 - hh + hh = r2
    BY <1>2, <1>11
  <2> QED
    BY <1>8, <2>1, <2>2, <2>3
<1>14. ASSUME w % 2 = 1, h % 2 = 1 PROVE Roi(region', sim) # {}
  <2>1. PICK b \in pixels : b[1] - a \in -hw .. hw /\ b[2] - c \in -hh .. hh
    BY <1>6, MeansSee
  <2> DEFINE c1 == b[1] + region.x
             c2 == b[2] + region.y
  <2>2. b[1] \in Int /\ b[2] \in Int /\ c1 \in 0 .. Cols - 1 /\ c2 \in 0 .. Rows - 1
        /\ <<c1, c2>> \in sim
    BY <1>1, <1>3
  <2>3. /\ c1 \in region.x + a - hw .. region.x + a + hw
        /\ c2 \in region.y + c - hh .. region.y + c + hh
    BY <1>1, <1>2, <1>7, <2>1, <2>2
  <2> HIDE DEF c1, c2
  <2>4. c1 \in r1 - hw .. r1 + hw /\ c2 \in r2 - hh .. r2 + hh
    BY <1>9, <1>10, <1>14, <2>2, <2>3
  <2>5. r1 + hw = r1 - hw + w - 1 /\ r2 + hh = r2 - hh + h - 1
    BY <1>2, <1>11, <1>14
  <2>6. region'.x = r1 - hw /\ region'.y = r2 - hh /\ region'.width = w /\ region'.height = h
    BY <1>12
  <2> QED
    BY <2>2, <2>4, <2>5, <2>6, RoiHas
<1>15. region'.width = w /\ region'.height = h
  BY <1>12
<1>16. sim # NoImage
  BY DEF Turn
<1> QED
  BY <1>0, <1>13, <1>14, <1>15, <1>16 DEF ShiftInv

\* What is known of the tracker is kept: the last of the centre's moves is inside the image, as far
\* as its window fits, and sees something, by where the mean of some pixels can lie.
THEOREM WindowTurns == MeanShiftSpec => []ShiftInv
<1>1. MeanShiftInit => ShiftInv
  BY RectsAreWindows DEF MeanShiftInit, ShiftInv
<1>2. ShiftInv /\ [MeanShiftNext]_shiftVars => ShiftInv'
  <2> SUFFICES ASSUME ShiftInv, [MeanShiftNext]_shiftVars PROVE ShiftInv'
    OBVIOUS
  <2>1. ASSUME NEW r \in Rects, buildModel(r) PROVE ShiftInv'
    BY <2>1, RectsAreWindows DEF ShiftInv, buildModel
  <2>2. CASE setHist
    BY <2>2 DEF ShiftInv, setHist
  <2>3. ASSUME NEW image \in Bright, run(image) PROVE ShiftInv'
    <3>1. image # NoImage
      <4>1. image \subseteq (0 .. Cols - 1) \X (0 .. Rows - 1) /\ Cols \in Nat
        BY MeanShiftAssumption
      <4>2. <<-1, -1>> \notin (0 .. Cols - 1) \X (0 .. Rows - 1)
        BY <4>1
      <4> QED
        BY <4>1, <4>2 DEF NoImage
    <3> QED
      BY <2>3, <3>1 DEF ShiftInv, run
  <2>4. CASE Returns
    BY <2>4 DEF ShiftInv, Returns
  <2>5. CASE Turn
    BY <2>5, TurnKeeps
  <2>6. CASE Raises
    BY <2>6 DEF ShiftInv, Raises
  <2>7. CASE UNCHANGED shiftVars
    BY <2>7 DEF ShiftInv, shiftVars
  <2> QED
    BY <2>1, <2>2, <2>3, <2>4, <2>5, <2>6, <2>7 DEF MeanShiftNext
<1> QED
  BY <1>1, <1>2, PTL DEF MeanShiftSpec

\* meanshift.cpp: run moves the window to the mean of the likelihood it sees, turn by turn.  For
\* images and windows of every size, those as long as the image included, it stays around p and
\* inside the image, but for an even side as long as the image's, which may stick out by one; one
\* of odd sizes that has moved still sees something of the object.
THEOREM WindowStays == MeanShiftSpec => []WindowHolds
<1>1. ShiftInv => WindowHolds
  BY DEF ShiftInv, Windows, WindowHolds
<1> QED
  BY <1>1, WindowTurns, PTL
-----------------------------------------------------------------------------
(* Contrast.                                                               *)

\* A set of bytes has a least and a greatest.
LEMMA ByteBounds ==
  ASSUME NEW S, S \subseteq 0 .. 255, S # {}
  PROVE  /\ Min(S) \in S /\ \A x \in S : Min(S) <= x
         /\ Max(S) \in S /\ \A x \in S : x <= Max(S)
<1>1. \E x \in S : \A y \in S : x <= y
  BY NatMin
<1>2. \E x \in S : \A y \in S : x >= y
  <2> DEFINE T == {m \in 0 .. 255 : \A y \in S : y <= m}
  <2>1. T \in SUBSET Nat /\ 255 \in T
    OBVIOUS
  <2> HIDE DEF T
  <2>2. PICK m \in T : \A n \in T : m <= n
    BY <2>1, NatMin
  <2> USE DEF T
  <2>3. m \in 0 .. 255 /\ \A y \in S : y <= m
    OBVIOUS
  <2>4. SUFFICES m \in S
    BY <2>3
  <2>5. SUFFICES ASSUME m \notin S PROVE FALSE
    OBVIOUS
  <2>6. m - 1 \in 0 .. 255 /\ \A y \in S : y <= m - 1
    <3>1. \A y \in S : y \in 0 .. 255 /\ y <= m /\ y # m
      BY <2>3, <2>5
    <3>2. \A y \in S : y <= m - 1
      BY <2>3, <3>1
    <3>3. PICK y \in S : TRUE
      OBVIOUS
    <3>4. 0 <= m - 1
      BY <2>3, <3>1, <3>2, <3>3
    <3> QED
      BY <2>3, <3>2, <3>4
  <2>7. m <= m - 1
    BY <2>2, <2>6
  <2> QED
    BY <2>3, <2>7
<1>3. Min(S) \in S /\ \A x \in S : Min(S) <= x
  BY <1>1 DEF Min
<1>4. Max(S) \in S /\ \A x \in S : x <= Max(S)
  <2>1. Max(S) = CHOOSE x \in S : \A y \in S : x >= y
    BY DEF Max
  <2>2. Max(S) \in S /\ \A y \in S : Max(S) >= y
    BY <1>2, <2>1
  <2> QED
    BY <2>2
<1> QED
  BY <1>3, <1>4

LEMMA Divides ==
  ASSUME NEW a \in Int, NEW d \in Nat, d # 0
  PROVE  a \div d \in Int /\ a % d \in 0 .. d - 1 /\ a = d * (a \div d) + (a % d)
OBVIOUS

LEMMA Quotients ==
  ASSUME NEW a \in Nat, NEW b \in Nat, NEW d \in Nat, d # 0, a <= b
  PROVE  a \div d \in Nat /\ a \div d <= b \div d
<1> DEFINE q == a \div d
           r == b \div d
           qrest == a % d
           rrest == b % d
<1>1. /\ q \in Int /\ qrest \in 0 .. d - 1 /\ a = d * q + qrest
      /\ r \in Int /\ rrest \in 0 .. d - 1 /\ b = d * r + rrest
  BY Divides
<1> HIDE DEF q, r, qrest, rrest
<1>2. d * q \in Int /\ d * r \in Int
  BY <1>1
<1>3. q >= 0
  <2> SUFFICES ASSUME q <= -1 PROVE FALSE
    BY <1>1
  <2>1. d * q <= d * (-1)
    BY <1>1, Times
  <2>2. d * (-1) = -d
    OBVIOUS
  <2> QED
    BY <1>1, <1>2, <2>1, <2>2
<1>4. q <= r
  <2> SUFFICES ASSUME r + 1 <= q PROVE FALSE
    BY <1>1
  <2>1. d * (r + 1) <= d * q
    BY <1>1, Times
  <2>2. d * (r + 1) = d * r + d
    BY <1>1
  <2> QED
    BY <1>1, <1>2, <2>1, <2>2
<1> QED
  BY <1>1, <1>3, <1>4 DEF q, r

\* A number is its multiple divided.
LEMMA QuotientOfMultiple ==
  ASSUME NEW d \in Nat, d # 0
  PROVE  (255 * d) \div d = 255
<1> DEFINE n == 255 * d
           q == n \div d
           rest == n % d
<1>0. n \in Int /\ n = 255 * d
  OBVIOUS
<1> HIDE DEF n
<1>1. q \in Int /\ rest \in 0 .. d - 1 /\ n = d * q + rest
  <2>1. n \in Int
    BY <1>0
  <2> QED
    BY <2>1, Divides
<1> HIDE DEF q, rest
<1>2. ASSUME q <= 254 PROVE FALSE
  <2>1. d * q <= d * 254 /\ d * q \in Int
    BY <1>1, <1>2, Times
  <2> QED
    BY <1>0, <1>1, <2>1
<1>3. ASSUME 256 <= q PROVE FALSE
  <2>1. d * 256 <= d * q /\ d * q \in Int
    BY <1>1, <1>3, Times
  <2> QED
    BY <1>0, <1>1, <2>1
<1>4. q = 255
  BY <1>1, <1>2, <1>3
<1> QED
  BY <1>0, <1>4 DEF q

\* The table of one channel.
Table(min, max) ==
  [v \in 0 .. 255 |->
     IF v <= min THEN 0 ELSE IF v > max THEN 255 ELSE (255 * (v - min)) \div (max - min)]

\* It keeps the order of the bytes and takes the least and the greatest apart.
Spreads(t, min, max) ==
  /\ t[min] = 0
  /\ min < max => t[max] = 255
  /\ \A v, w \in 0 .. 255 : v <= w => t[v] <= t[w]

LEMMA TableIs ==
  ASSUME NEW min \in 0 .. 255, NEW max \in 0 .. 255, min <= max
  PROVE  Spreads(Table(min, max), min, max)
<1> DEFINE t == Table(min, max)
<1>1. t[min] = 0
  BY DEF Table
<1>2. ASSUME min < max PROVE t[max] = 255
  <2>1. max - min \in Nat /\ max - min # 0
    BY <1>2
  <2>2. (255 * (max - min)) \div (max - min) = 255
    BY <2>1, QuotientOfMultiple
  <2>3. t[max] = (255 * (max - min)) \div (max - min)
    BY <1>2 DEF Table
  <2> QED
    BY <2>2, <2>3
<1>3. ASSUME NEW v \in 0 .. 255, NEW w \in 0 .. 255, v <= w PROVE t[v] <= t[w]
  <2> DEFINE d == max - min
  <2>1. \A x \in 0 .. 255 : t[x] = IF x <= min THEN 0 ELSE IF x > max THEN 255
                                   ELSE (255 * (x - min)) \div d
    BY DEF Table
  <2>2. \A x \in 0 .. 255 : ~(x <= min) /\ ~(x > max) =>
          /\ d \in Nat /\ d # 0 /\ 255 * (x - min) \in Nat
          /\ 255 * (x - min) <= 255 * d /\ 255 * d \in Nat
    OBVIOUS
  <2>3. \A x \in 0 .. 255 : ~(x <= min) /\ ~(x > max) =>
          (255 * (x - min)) \div d \in 0 .. 255
    <3> SUFFICES ASSUME NEW x \in 0 .. 255, ~(x <= min), ~(x > max)
                 PROVE  (255 * (x - min)) \div d \in 0 .. 255
      OBVIOUS
    <3> HIDE DEF d
    <3>1. (255 * d) \div d = 255
      BY <2>2, QuotientOfMultiple
    <3> DEFINE y == 255 * (x - min)
               z == 255 * d
    <3>2. y \in Nat /\ z \in Nat /\ y <= z
      BY <2>2
    <3> HIDE DEF y, z
    <3>3. y \div d \in Nat /\ y \div d <= z \div d
      BY <2>2, <3>2, Quotients
    <3> QED
      BY <3>1, <3>3 DEF y, z
  <2>4. ~(v <= min) /\ ~(w > max) => (255 * (v - min)) \div d <= (255 * (w - min)) \div d
    <3> SUFFICES ASSUME ~(v <= min), ~(w > max)
                 PROVE  (255 * (v - min)) \div d <= (255 * (w - min)) \div d
      OBVIOUS
    <3> DEFINE y == 255 * (v - min)
               z == 255 * (w - min)
    <3>1. y \in Nat /\ z \in Nat /\ y <= z /\ d \in Nat /\ d # 0
      BY <1>3
    <3> HIDE DEF y, z, d
    <3>2. y \div d <= z \div d
      BY <3>1, Quotients
    <3> QED
      BY <3>2 DEF y, z
  <2> DEFINE qv == (255 * (v - min)) \div d
             qw == (255 * (w - min)) \div d
  <2>5. /\ t[v] = IF v <= min THEN 0 ELSE IF v > max THEN 255 ELSE qv
        /\ t[w] = IF w <= min THEN 0 ELSE IF w > max THEN 255 ELSE qw
        /\ ~(v <= min) /\ ~(v > max) => qv \in 0 .. 255
        /\ ~(w <= min) /\ ~(w > max) => qw \in 0 .. 255
        /\ ~(v <= min) /\ ~(w > max) => qv <= qw
    <3> HIDE DEF t, d
    <3> QED
      BY <2>1, <2>3, <2>4
  <2> DEFINE tv == t[v]
             tw == t[w]
  <2>6. /\ tv = IF v <= min THEN 0 ELSE IF v > max THEN 255 ELSE qv
        /\ tw = IF w <= min THEN 0 ELSE IF w > max THEN 255 ELSE qw
        /\ ~(v <= min) /\ ~(v > max) => qv \in Int /\ 0 <= qv /\ qv <= 255
        /\ ~(w <= min) /\ ~(w > max) => qw \in Int /\ 0 <= qw /\ qw <= 255
        /\ ~(v <= min) /\ ~(w > max) => qv <= qw
        /\ v \in Int /\ w \in Int /\ min \in Int /\ max \in Int /\ v <= w
    <3> HIDE DEF t, qv, qw
    <3> QED
      BY <1>3, <2>5
  <2> HIDE DEF t, qv, qw, tv, tw
  <2>7. ASSUME v <= min PROVE tv <= tw
    BY <1>3, <2>6, <2>7
  <2>8. ASSUME ~(v <= min), ~(w > max) PROVE tv <= tw
    <3>1. ~(v > max) /\ ~(w <= min)
      BY <2>6, <2>8
    <3>2. tv = qv /\ tw = qw
      BY <2>6, <2>8, <3>1
    <3> QED
      BY <2>6, <2>8, <3>2
  <2>9. ASSUME ~(v <= min), w > max PROVE tv <= tw
    <3>1. ~(w <= min)
      BY <2>6, <2>9
    <3>2. tw = 255
      BY <2>6, <2>9, <3>1
    <3>3. CASE v > max
      BY <2>6, <2>9, <3>2, <3>3
    <3>4. CASE ~(v > max)
      <4>1. tv = qv
        BY <2>6, <2>9, <3>4
      <4> QED
        BY <2>6, <2>9, <3>2, <3>4, <4>1
    <3> QED
      BY <3>3, <3>4
  <2>10. tv <= tw
    BY <2>7, <2>8, <2>9
  <2> QED
    BY <2>10 DEF tv, tw
<1> QED
  BY <1>1, <1>2, <1>3 DEF Spreads
\* The bytes that are run through the table, of an image and of the first one's shape, and what
\* becomes of one.
SeenBytes(s) == (0 .. s.rows - 1) \X (0 .. s.cols * s.channels - 1)
StretchedByte(image, s, q) ==
  IF q \in SeenBytes(s) THEN GlobalLUT(image, s)[q[2] % s.channels][image.bytes[q]]
  ELSE image.bytes[q]

\* What was returned last is the last image through the tables made of it.
StretchInv ==
  /\ shape = <<>> => stretched = <<>>
  /\ shape # <<>> => /\ shape.rows \in Nat \ {0} /\ shape.cols \in Nat \ {0}
                     /\ shape.channels \in Nat \ {0}
  /\ stretched # <<>> =>
       /\ original \in StretchImages /\ Fitting(original, shape)
       /\ stretched = [q \in Bytes(original) |-> StretchedByte(original, shape, q)]

LEMMA StretchKeeps ==
  ASSUME StretchInv, NEW image \in StretchImages, GlobalContrastStretching(image)
  PROVE  StretchInv'
<1> DEFINE s == IF shape = <<>> THEN Of(image) ELSE shape
<1>1. /\ Fitting(image, s) /\ shape' = s /\ original' = image
      /\ \/ stretched' = <<>>
         \/ stretched' = [q \in Bytes(image) |-> StretchedByte(image, s, q)]
  BY DEF GlobalContrastStretching, StretchedByte, SeenBytes
<1>2. s # <<>> /\ s.rows \in Nat \ {0} /\ s.cols \in Nat \ {0} /\ s.channels \in Nat \ {0}
  <2>1. CASE shape = <<>>
    <3>1. s = [rows |-> image.rows, cols |-> image.cols, channels |-> image.channels]
      BY <2>1 DEF Of
    <3>2. {image.rows, image.cols, image.channels} \subseteq Nat \ {0}
      BY StretchAssumption
    <3>3. "rows" \in DOMAIN s
      BY <3>1
    <3> HIDE DEF s
    <3> QED
      BY <3>1, <3>2, <3>3
  <2>2. CASE shape # <<>>
    BY <2>2 DEF StretchInv
  <2> QED
    BY <2>1, <2>2
<1> HIDE DEF s
<1>3. stretched' # <<>> =>
        /\ original' \in StretchImages /\ Fitting(original', shape')
        /\ stretched' = [q \in Bytes(original') |-> StretchedByte(original', shape', q)]
  BY <1>1
<1> QED
  BY <1>1, <1>2, <1>3 DEF StretchInv

\* What was returned last is known whatever was called before.
THEOREM Stretching == StretchSpec => []StretchInv
<1>1. StretchInit => StretchInv
  BY DEF StretchInit, StretchInv
<1>2. StretchInv /\ [StretchNext]_stretchVars => StretchInv'
  <2> SUFFICES ASSUME StretchInv, [StretchNext]_stretchVars PROVE StretchInv'
    OBVIOUS
  <2>1. ASSUME NEW mode, setMode(mode) PROVE StretchInv'
    BY <2>1 DEF StretchInv, setMode
  <2>2. ASSUME NEW image \in StretchImages, GlobalContrastStretching(image) PROVE StretchInv'
    BY <2>2, StretchKeeps
  <2>3. CASE UNCHANGED stretchVars
    BY <2>3 DEF StretchInv, stretchVars
  <2> QED
    BY <2>1, <2>2, <2>3 DEF StretchNext
<1> QED
  BY <1>1, <1>2, PTL DEF StretchSpec

\* A channel of an image has values, and each pixel's is one of them.
LEMMA ChannelHas ==
  ASSUME NEW image \in StretchImages, NEW q \in Bytes(image)
  PROVE  LET c == q[2] % image.channels
         IN /\ c \in 0 .. image.channels - 1
            /\ image.bytes[q] \in Channel(image, c) /\ Channel(image, c) \subseteq 0 .. 255
<1> DEFINE c == q[2] % image.channels
<1>1. /\ image.channels \in Nat /\ image.channels # 0 /\ image.rows \in Nat /\ image.cols \in Nat
      /\ image.bytes \in [Bytes(image) -> 0 .. 255]
  BY StretchAssumption
<1>2. q[2] \in Int
  BY <1>1 DEF Bytes
<1>3. c \in 0 .. image.channels - 1
  BY <1>1, <1>2, Divides
<1>4. image.bytes[q] \in Channel(image, c)
  BY DEF Channel
<1>5. Channel(image, c) \subseteq 0 .. 255
  BY <1>1 DEF Channel
<1> QED
  BY <1>3, <1>4, <1>5

\* A byte of an image with as many columns and channels as the first one, in one of its rows.
LEMMA ByteIs ==
  ASSUME NEW image \in StretchImages, NEW s, image.cols = s.cols, image.channels = s.channels,
         NEW q \in Bytes(image), q[1] < s.rows, s.rows \in Nat
  PROVE  LET values == Channel(image, q[2] % image.channels)
         IN StretchedByte(image, s, q) = Table(Min(values), Max(values))[image.bytes[q]]
<1> DEFINE c == q[2] % image.channels
           values == Channel(image, c)
<1>1. c \in 0 .. s.channels - 1
  BY ChannelHas
<1>2. q \in SeenBytes(s)
  BY DEF SeenBytes, Bytes
<1>3. GlobalLUT(image, s)[c] = Table(Min(values), Max(values))
  BY <1>1 DEF GlobalLUT, Table
<1>4. StretchedByte(image, s, q) = GlobalLUT(image, s)[c][image.bytes[q]]
  BY <1>2 DEF StretchedByte
<1> QED
  BY <1>3, <1>4

\* ContrastStretching.cpp: GlobalContrastStretching keeps the shape of the first image for ever.
\* Whatever images it was given before, for one with that image's columns and channels the order
\* of the pixels of each channel stays and its darkest and brightest become 0 and 255.
THEOREM ContrastStretched == StretchSpec => []ContrastIsStretched
<1>1. StretchInv => ContrastIsStretched
  <2> SUFFICES ASSUME StretchInv, stretched # <<>>, original.cols = shape.cols,
                      original.channels = shape.channels, NEW q \in Bytes(original)
               PROVE  LET channel(r) == r[2] % original.channels
                          values == Channel(original, channel(q))
                      IN /\ q[1] >= shape.rows => stretched[q] = original.bytes[q]
                         /\ q[1] < shape.rows =>
                              /\ original.bytes[q] = Min(values) => stretched[q] = 0
                              /\ original.bytes[q] = Max(values) /\ Cardinality(values) > 1 =>
                                   stretched[q] = 255
                              /\ \A r \in Bytes(original) :
                                   r[1] < shape.rows /\ channel(r) = channel(q)
                                       /\ original.bytes[r] <= original.bytes[q]
                                     => stretched[r] <= stretched[q]
    BY DEF ContrastIsStretched
  <2> DEFINE channel(r) == r[2] % original.channels
             values == Channel(original, channel(q))
             low == Min(values)
             high == Max(values)
  <2>1. /\ original \in StretchImages /\ shape.rows \in Nat
        /\ stretched = [r \in Bytes(original) |-> StretchedByte(original, shape, r)]
        /\ \A r \in Bytes(original) : r[1] \in Int
    <3>1. shape # <<>> /\ original \in StretchImages
      BY DEF StretchInv
    <3>2. original.rows \in Nat
      BY <3>1, StretchAssumption
    <3> QED
      BY <3>1, <3>2 DEF StretchInv, Bytes
  <2>2. ASSUME q[1] >= shape.rows PROVE stretched[q] = original.bytes[q]
    <3>1. q \notin SeenBytes(shape)
      BY <2>1, <2>2 DEF SeenBytes
    <3> QED
      BY <2>1, <3>1 DEF StretchedByte
  <2>3. original.bytes[q] \in values /\ values \subseteq 0 .. 255
    BY <2>1, ChannelHas
  <2>4. low \in values /\ high \in values /\ \A x \in values : low <= x /\ x <= high
    BY <2>3, ByteBounds
  <2>5. \A r \in Bytes(original) : r[1] < shape.rows /\ channel(r) = channel(q) =>
          stretched[r] = Table(low, high)[original.bytes[r]] /\ original.bytes[r] \in values
    <3> SUFFICES ASSUME NEW r \in Bytes(original), r[1] < shape.rows, channel(r) = channel(q)
                 PROVE  /\ stretched[r] = Table(low, high)[original.bytes[r]]
                        /\ original.bytes[r] \in values
      OBVIOUS
    <3>1. Channel(original, channel(r)) = values
      OBVIOUS
    <3>2. original.bytes[r] \in Channel(original, channel(r))
      BY <2>1, ChannelHas
    <3>3. StretchedByte(original, shape, r)
            = Table(Min(Channel(original, channel(r))), Max(Channel(original, channel(r))))
                [original.bytes[r]]
      BY <2>1, ByteIs
    <3>4. StretchedByte(original, shape, r) = Table(low, high)[original.bytes[r]]
      BY <3>1, <3>3
    <3> HIDE DEF channel, values, low, high
    <3> QED
      BY <2>1, <3>1, <3>2, <3>4
  <2> HIDE DEF channel, values, low, high
  <2>6. low \in 0 .. 255 /\ high \in 0 .. 255 /\ low <= high
    BY <2>3, <2>4
  <2>7. Cardinality(values) > 1 => low < high
    <3>a. low < high \/ low = high
      BY <2>6
    <3> SUFFICES ASSUME Cardinality(values) > 1, low = high PROVE FALSE
      BY <3>a
    <3>0. ASSUME NEW x \in values PROVE x = low
      <4>1. x \in 0 .. 255 /\ low <= x /\ x <= low
        BY <2>3, <2>4
      <4> QED
        BY <2>6, <4>1
    <3>1. values = {low}
      BY <2>4, <3>0
    <3>2. Cardinality(values) = 1
      BY <3>1, FS_Singleton
    <3> QED
      BY <3>2
  <2> DEFINE table == Table(low, high)
  <2>8. Spreads(table, low, high)
    BY <2>6, TableIs
  <2> HIDE DEF table
  <2>9. ASSUME q[1] < shape.rows
        PROVE  /\ original.bytes[q] = low => stretched[q] = 0
               /\ original.bytes[q] = high /\ Cardinality(values) > 1 => stretched[q] = 255
               /\ \A r \in Bytes(original) :
                    r[1] < shape.rows /\ channel(r) = channel(q)
                        /\ original.bytes[r] <= original.bytes[q]
                      => stretched[r] <= stretched[q]
    <3>1. stretched[q] = table[original.bytes[q]] /\ original.bytes[q] \in 0 .. 255
      BY <2>3, <2>5, <2>9 DEF table
    <3>2. original.bytes[q] = low => stretched[q] = 0
      BY <2>8, <3>1 DEF Spreads
    <3>3. original.bytes[q] = high /\ Cardinality(values) > 1 => stretched[q] = 255
      <4>1. low < high => table[high] = 255
        BY <2>8 DEF Spreads
      <4> QED
        BY <2>7, <3>1, <4>1
    <3>4. ASSUME NEW r \in Bytes(original), r[1] < shape.rows, channel(r) = channel(q),
                 original.bytes[r] <= original.bytes[q]
          PROVE  stretched[r] <= stretched[q]
      <4>1. stretched[r] = table[original.bytes[r]] /\ original.bytes[r] \in 0 .. 255
        BY <2>3, <2>5, <3>4 DEF table
      <4>2. \A v, w \in 0 .. 255 : v <= w => table[v] <= table[w]
        BY <2>8 DEF Spreads
      <4>3. table[original.bytes[r]] <= table[original.bytes[q]]
        BY <3>1, <3>4, <4>1, <4>2
      <4> QED
        BY <3>1, <4>1, <4>3
    <3> QED
      BY <3>2, <3>3, <3>4
  <2> QED
    BY <2>2, <2>9 DEF channel, values, low, high
<1> QED
  BY <1>1, Stretching, PTL
=============================================================================
