------------------------- MODULE OrientedGradients -------------------------
(***************************************************************************)
(* ImgFeatures/HOG.cpp: the histograms of oriented gradients of nine       *)
(* windows that overlap by half.  A pixel has the gradient of one of its   *)
(* three channels, and each window adds the magnitudes of its pixels up in *)
(* twelve bins, by orientation.                                            *)
(*                                                                         *)
(* An image is given by what cvCartToPolar makes of it, a magnitude and an *)
(* angle for each channel of each pixel.  Angles are in twelfths of pi,    *)
(* odd ones, pi subtracted; that of no gradient is -12.                    *)
(***************************************************************************)
EXTENDS Integers, FiniteSetsExt

CONSTANTS C, L,       \* the width and the height of the images
          Gradients   \* the images tried, functions from GradientPixels to triples of pairs

ASSUME GradientAssumption == C \in Nat /\ L \in Nat /\ C >= 4 /\ L >= 4

VARIABLES
  gradients,     \* the image computed last, <<>> before
  magnitude1, orientation1,
  descriptors    \* the bins of each window and the square of their norm

hogVars == <<gradients, magnitude1, orientation1, descriptors>>

B == 12
step_x == C \div 4
step_y == L \div 4
GradientPixels == (0 .. C - 1) \X (0 .. L - 1)
WindowPixels(m, n) ==
  (m * step_x .. m * step_x + 2 * step_x - 1) \X (n * step_y .. n * step_y + 2 * step_y - 1)

\* The first channel, the second if it is larger, the third if that is larger than the first: max
\* is not brought up to date in between.
Dominant(c) ==
  IF c[3][1] > c[1][1] THEN c[3] ELSE IF c[2][1] > c[1][1] THEN c[2] ELSE c[1]

\* Half a turn, so that the angle is again that of the gradient, between -12 and 12.
Folded(a) == IF a = -12 THEN 0 ELSE IF a > 0 THEN a - 12 ELSE a + 12

\* The last bins but one of the twelve are never filled: what is beyond the eighth is in the ninth.
Bin(a) == IF \E bin \in 0 .. 7 : a <= 2 * (bin + 1) - 12
          THEN Min({bin \in 0 .. 7 : a <= 2 * (bin + 1) - 12}) ELSE 8

Binned(pixels, magnitude, orientation) ==
  [bin \in 0 .. B - 1 |->
     MapThenSumSet(LAMBDA q : magnitude[q], {q \in pixels : Bin(orientation[q]) = bin})]

\* Each window's bins and the square of their norm, by which they are divided; that of nothing is
\* 0, and its bins stay so.
Described(magnitude, orientation) ==
  [w \in 0 .. 8 |->
     LET bins == Binned(WindowPixels(w % 3, w \div 3), magnitude, orientation)
     IN <<bins, MapThenSumSet(LAMBDA bin : bins[bin] * bins[bin], DOMAIN bins)>>]

-----------------------------------------------------------------------------
HogInit ==
  gradients = <<>> /\ magnitude1 = <<>> /\ orientation1 = <<>> /\ descriptors = <<>>

HOG3(img) ==
  /\ gradients' = img
  /\ magnitude1' = [q \in GradientPixels |-> Dominant(img[q])[1]]
  /\ orientation1' = [q \in GradientPixels |-> Folded(Dominant(img[q])[2])]
  /\ descriptors' = Described(magnitude1', orientation1')

HogNext == \E img \in Gradients : HOG3(img)

-----------------------------------------------------------------------------
\* How many windows a pixel lies in.
Windows(q) ==
  LET along(i, step) == IF i < step \/ i \in 3 * step .. 4 * step - 1 THEN 1
                        ELSE IF i < 3 * step THEN 2 ELSE 0
  IN along(q[1], step_x) * along(q[2], step_y)

\* No gradient gets lost between two windows and none is counted twice in one: what the windows
\* hold together is each pixel's magnitude as often as the pixel lies in one. It is the gradient
\* of one of the channels, magnitude and direction alike, and of none that is smaller than the
\* first; the bins of a window that has one are of length 1, those beyond the ninth are empty.
GradientsAreCounted ==
  descriptors # <<>> =>
    /\ MapThenSumSet(LAMBDA w : MapThenSumSet(LAMBDA bin : descriptors[w][1][bin], 0 .. 8), 0 .. 8)
         = MapThenSumSet(LAMBDA q : magnitude1[q] * Windows(q), GradientPixels)
    /\ \A q \in GradientPixels :
         \E c \in 1 .. 3 :
           /\ magnitude1[q] = gradients[q][c][1] /\ magnitude1[q] >= gradients[q][1][1]
           /\ (orientation1[q] - gradients[q][c][2]) % 12 = 0
           /\ orientation1[q] \in -11 .. 11
    /\ \A w \in 0 .. 8 :
         /\ \A bin \in 9 .. 11 : descriptors[w][1][bin] = 0
         /\ descriptors[w][2] = 0 <=> \A q \in WindowPixels(w % 3, w \div 3) : magnitude1[q] = 0
=============================================================================
