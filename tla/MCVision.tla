------------------------------ MODULE MCVision ------------------------------
(***************************************************************************)
(* The classes that work on images, for TLC: those that keep a ring of     *)
(* frames, the corner detectors, the mean shift tracker, the filters of    *)
(* the polynomial expansion, the binary patterns, the oriented gradients   *)
(* and the contrast stretching.  They share nothing, so that a program is  *)
(* made that uses an object of one of them; the others are made and left   *)
(* alone.                                                                  *)
(***************************************************************************)
EXTENDS FrameRings, CornerSelection, MeanShift, PolynomialExpansion, BinaryPatterns,
        OrientedGradients, ContrastStretching

VARIABLE used_class

visionVars ==
  <<used_class, vars, cornerVars, shiftVars, polyVars, patternVars, hogVars, stretchVars>>

\* Three cells of two columns and one of what is left beside them, each with a pixel or none.
Peaks == [{1, 2, 3} -> {<<0, 0>>} \cup ({0, 1} \X {1, 2})]
StripResponses ==
  {[q \in (0 .. ImageCols - 1) \X (0 .. ImageRows - 1) |->
      IF q[1] = 6 THEN IF q[2] = 0 THEN margin ELSE 0
      ELSE LET c == q[1] \div 2 + 1
           IN IF q[1] % 2 = peaks[c][1] /\ q[2] = c % 2 THEN peaks[c][2] ELSE 0] :
     peaks \in Peaks, margin \in {0, 3}}

FewBright ==
  LET pixels == (0 .. Cols - 1) \X (0 .. Rows - 1)
  IN {{}} \cup {{a, b} : a \in pixels, b \in pixels}

\* Polynomials, the images they make, what they are seen from the pixels whose window is in the
\* image, and images of one spot.
Polynomials ==
  {<<1, 0, 0, 0, 0, 0>>, <<0, 1, 0, 0, 0, 0>>, <<0, 0, 0, 1, 0, 0>>, <<2, -1, 3, 1, -2, 1>>}
SeenFrom(v, q) ==
  <<Value(v, q), v[2] + 2 * v[4] * q[2] + v[6] * q[1], v[3] + 2 * v[5] * q[1] + v[6] * q[2],
    v[4], v[5], v[6]>>
SeenPolynomials == {SeenFrom(v, q) : v \in Polynomials, q \in {<<3, 3>>, <<4, 3>>}}
PolynomialImages ==
  {[q \in Pixels |-> Value(v, q)] : v \in Polynomials}
    \cup {[q \in Pixels |-> IF q = spot THEN 5 ELSE 1] : spot \in {<<0, 0>>, <<7, 2>>, <<4, 3>>}}
HalvingWeights == [d \in 0 .. 3 |-> 2 ^ (3 - d)]

\* A slope with spots darker or brighter than all around them; frames that are even or slope.
SpottedImages ==
  {[q \in Flat |-> IF q \in spots THEN shade ELSE 40 + q] :
     spots \in {{}, {6}, {7, 8}, {0, 1, 5}, {12, 13, 18, 19}, {9, 14, 19, 3}, {2, 11, 16}},
     shade \in {10, 200}}
ShadedFrames ==
  {[q \in Flat |-> 60], [q \in Flat |-> 90], [q \in Flat |-> 40 + 9 * (q % LbpCols)]}

\* One pixel of any three gradients before stripes.
FewGradients == {<<0, -12>>} \cup ({1, 2, 3} \X {-11, -3, 5})
StripedGradients ==
  LET none == <<0, -12>>
      stripe(i) == IF i % 2 = 0 THEN <<<<1, 7>>, none, <<2, -9>>>> ELSE <<none, none, none>>
  IN {[q \in GradientPixels |-> IF q = spot THEN <<a, b, c>> ELSE stripe(q[1])] :
        spot \in {<<1, 2>>, <<4, 4>>}, a \in FewGradients, b \in {none, <<2, -7>>},
        c \in FewGradients}

\* Images of one or two rows and channels and a wide one of three, of a few values in turn.
FilledImage(rows, cols, channels, values) ==
  [rows |-> rows, cols |-> cols, channels |-> channels,
   bytes |-> [q \in (0 .. rows - 1) \X (0 .. cols * channels - 1) |->
                values[((q[1] * 3 + q[2]) % Len(values)) + 1]]]
FilledImages ==
  {FilledImage(rows, 2, channels, values) :
     rows \in {1, 2}, channels \in {1, 2},
     values \in {<<10, 200, 11>>, <<90, 7, 255, 90, 0>>, <<3>>}}
  \cup {FilledImage(1, 3, 3, <<10, 200, 11>>)}

IdleRing == cls = "OpticalFlow" /\ Init
IdleCorners ==
  /\ detector = "Fast" /\ minDistance = Max(Distances) /\ maxCorners = Max(Limits)
  /\ CornerInit
IdleShift == region = [x |-> 0, y |-> 0, width |-> Min(Sizes), height |-> Min(Sizes)] /\ MeanShiftInit
OthersInit == PolyInit /\ PatternInit /\ HogInit /\ StretchInit

VisionInit ==
  \/ used_class = "ring" /\ Init /\ IdleCorners /\ IdleShift /\ OthersInit
  \/ used_class = "detector" /\ IdleRing /\ CornerInit /\ IdleShift /\ OthersInit
  \/ used_class = "tracker" /\ IdleRing /\ IdleCorners /\ MeanShiftInit /\ OthersInit
  \/ /\ used_class \in {"expansion", "patterns", "patternsOverTime", "gradients", "contrast"}
     /\ IdleRing /\ IdleCorners /\ IdleShift /\ OthersInit

UseRing ==
  /\ used_class = "ring" /\ Next
  /\ UNCHANGED <<cornerVars, shiftVars, polyVars, patternVars, hogVars, stretchVars>>
UseDetector ==
  /\ used_class = "detector" /\ CornerNext
  /\ UNCHANGED <<vars, shiftVars, polyVars, patternVars, hogVars, stretchVars>>
UseTracker ==
  /\ used_class = "tracker" /\ MeanShiftNext
  /\ UNCHANGED <<vars, cornerVars, polyVars, patternVars, hogVars, stretchVars>>
UseExpansion ==
  /\ used_class = "expansion" /\ PolyNext
  /\ UNCHANGED <<vars, cornerVars, shiftVars, patternVars, hogVars, stretchVars>>

\* These keep nothing of one call for the next, so that one of each is enough.
UsePatterns ==
  /\ \/ used_class = "patterns" /\ coded = <<>> /\ LbpNext
     \/ used_class = "patternsOverTime" /\ TopNext
  /\ UNCHANGED <<vars, cornerVars, shiftVars, polyVars, hogVars, stretchVars>>
UseGradients ==
  /\ used_class = "gradients" /\ gradients = <<>> /\ HogNext
  /\ UNCHANGED <<vars, cornerVars, shiftVars, polyVars, patternVars, stretchVars>>
UseContrast ==
  /\ used_class = "contrast" /\ StretchNext
  /\ UNCHANGED <<vars, cornerVars, shiftVars, polyVars, patternVars, hogVars>>

VisionNext ==
  /\ \/ UseRing \/ UseDetector \/ UseTracker \/ UseExpansion
     \/ UsePatterns \/ UseGradients \/ UseContrast
  /\ UNCHANGED used_class

VisionSpec == VisionInit /\ [][VisionNext]_visionVars

-----------------------------------------------------------------------------
\* What is computed from the pixels around a place: the labels of the binary patterns are those of
\* the pixels and frames that are there, every gradient is in as many histograms as it should be,
\* and the expansion finds the polynomial that is there (lbpfeatures, HOG, polybasis).
FeaturesHold == PatternsHold /\ GradientsAreCounted /\ ExpansionHolds
=============================================================================
