------------------------------ MODULE MeanShift ------------------------------
(***************************************************************************)
(* ImgProc/meanshift.cpp: a window is moved over the likelihood image of a *)
(* colour histogram, to the centre of what it sees, until it rests.        *)
(*                                                                         *)
(* A likelihood image is the set of its bright pixels.  The region is a    *)
(* record, the pixels are <<x, y>>, counted from 0.                        *)
(***************************************************************************)
EXTENDS Integers, FiniteSets, FiniteSetsExt

CONSTANTS
  Cols, Rows,       \* the size of every image
  Sizes,            \* the widths and heights of the rectangles tried
  Bright,           \* the likelihood images tried, each the set of its bright pixels
  MaxCount          \* criteria.maxCount, 100 in the code

ASSUME MeanShiftAssumption ==
  /\ Cols \in Nat /\ Rows \in Nat /\ MaxCount \in Nat
  /\ Sizes \subseteq Nat \ {0}
  /\ \A b \in Bright : b \subseteq (0 .. Cols - 1) \X (0 .. Rows - 1)

VARIABLES
  region, p,        \* the window and what the code holds for its centre
  histMat,          \* whether h._histMat holds a histogram
  sim,              \* the likelihood image, or NoImage when run is not running
  turn              \* i of run

shiftVars == <<region, p, histMat, sim, turn>>

NoImage == {<<-1, -1>>}

Rects ==
  {r \in [x : 0 .. Cols, y : 0 .. Rows, width : Sizes, height : Sizes] :
     r.x + r.width <= Cols /\ r.y + r.height <= Rows}

CentreOf(r) == <<r.x + r.width \div 2, r.y + r.height \div 2>>

\* The bright pixels of the region, from its corner.
Roi(r, image) ==
  {<<b[1] - r.x, b[2] - r.y>> : b \in
     {c \in image : c[1] \in r.x .. r.x + r.width - 1 /\ c[2] \in r.y .. r.y + r.height - 1}}

\* cvRound(a / b): to the nearest, from the middle to the even one.
Round(a, b) ==
  LET q == a \div b
      r == 2 * (a % b)
  IN IF r > b \/ (r = b /\ q % 2 = 1) THEN q + 1 ELSE q

\* The mean of the bright pixels: the moments m10 and m01 over m00.
Moment(pixels, d) == MapThenSumSet(LAMBDA b : b[d], pixels)
MeanOf(pixels) == [d \in {1, 2} |-> Round(Moment(pixels, d), Cardinality(pixels))]

\* Mutant: the window may end one pixel behind the border.
WithinTouching(n, size, length) ==
  LET low == IF n - size \div 2 <= 0 THEN size \div 2 ELSE n
  IN IF low + size \div 2 > length THEN length - size \div 2 - 1 ELSE low

\* A coordinate of the centre, put back when the window would leave the image.
Within(n, size, length) ==
  LET low == IF n - size \div 2 <= 0 THEN size \div 2 ELSE n
  IN IF low + size \div 2 >= length THEN length - size \div 2 - 1 ELSE low

\* Where a turn moves the centre.
Shifted(pixels) ==
  LET mean == MeanOf(pixels)
  IN <<Within(p[1] - (region.width \div 2 - mean[1]), region.width, Cols),
       Within(p[2] - (region.height \div 2 - mean[2]), region.height, Rows)>>

-----------------------------------------------------------------------------
\* Whether the histogram object holds one after it built one: only when told to accumulate.
BuildHistogram(accumulate) == histMat \/ accumulate

MeanShiftInit ==
  /\ region \in Rects /\ p = CentreOf(region)
  /\ histMat = FALSE /\ sim = NoImage /\ turn = 0

\* The histogram of the rectangle is built, and what BuildHistogram returns is not used.
buildModel(rect) ==
  /\ sim = NoImage
  /\ region' = rect /\ p' = CentreOf(rect)
  /\ histMat' = BuildHistogram(FALSE)
  /\ UNCHANGED <<sim, turn>>

\* h is public: its client can give it a histogram.
setHist ==
  /\ sim = NoImage /\ ~histMat
  /\ histMat' = TRUE
  /\ UNCHANGED <<region, p, sim, turn>>

\* Without a histogram likeyhoodImage raises, and nothing has changed.
run(image) ==
  /\ sim = NoImage
  /\ histMat
  /\ sim' = image /\ turn' = 0
  /\ UNCHANGED <<region, p, histMat>>

\* The loop ends after maxCount turns, on a window that sees too little, or at rest.
Rests ==
  LET pixels == Roi(region, sim)
  IN \/ turn = MaxCount
     \/ /\ region \in Rects
        /\ \/ 100 * Cardinality(pixels) < 5 * region.width * region.height
           \/ pixels # {} /\ Shifted(pixels) = p

\* Taking the part of the likelihood in the window raises when that leaves the image.
Raises ==
  /\ sim # NoImage /\ turn < MaxCount
  /\ region \notin Rects
  /\ sim' = NoImage /\ turn' = 0
  /\ UNCHANGED <<region, p, histMat>>

Returns ==
  /\ sim # NoImage
  /\ Rests
  /\ sim' = NoImage /\ turn' = 0
  /\ UNCHANGED <<region, p, histMat>>

Turn ==
  /\ sim # NoImage
  /\ region \in Rects /\ ~Rests
  /\ p' = Shifted(Roi(region, sim))
  /\ region' = [region EXCEPT !.x = p'[1] - region.width \div 2,
                              !.y = p'[2] - region.height \div 2]
  /\ turn' = turn + 1
  /\ UNCHANGED <<histMat, sim>>

MeanShiftNext ==
  \/ \E r \in Rects : buildModel(r)
  \/ setHist
  \/ \E image \in Bright : run(image)
  \/ Returns \/ Raises \/ Turn

MeanShiftSpec == MeanShiftInit /\ [][MeanShiftNext]_shiftVars

-----------------------------------------------------------------------------
\* Where a side of the window may begin. One of the whole length of the image that is even
\* is moved to -1, as both borders push it: the next turn raises.
Begins(size, length) ==
  IF size = length /\ size % 2 = 0 THEN {-1, 0} ELSE 0 .. length - size

\* The window stays inside the image, where taking its part raises otherwise, but for a side
\* that is even and as long as the image's, which may stick out by one; it stays around p;
\* and one of odd sizes that has moved still sees something of the object it moved to (one
\* of even size is moved off an object in the last row or column).
WindowHolds ==
  /\ region.x \in Begins(region.width, Cols) /\ region.y \in Begins(region.height, Rows)
  /\ p = CentreOf(region)
  /\ turn > 0 /\ region.width % 2 = 1 /\ region.height % 2 = 1 => Roi(region, sim) # {}

=============================================================================
