--------------------------- MODULE BinaryPatterns ---------------------------
(***************************************************************************)
(* ImgFeatures/lbpfeatures: each pixel, or each block, is compared with    *)
(* the eight around it, the outcomes are the bits of a code, and a table   *)
(* gives every code that changes at most twice round the circle a label of *)
(* its own.  LBPTOP makes the code of a pixel in three successive frames.  *)
(*                                                                         *)
(* Images are flat, as the code indexes them.  A label is the set of the   *)
(* values it may have: an element read outside the image or past the end   *)
(* of the table may have any.                                              *)
(***************************************************************************)
EXTENDS Integers, Sequences, FiniteSetsExt, Bitwise

CONSTANTS
  LbpCols, LbpRows,   \* the size of every image
  LbpImages,          \* the images given to LBPFeatures
  BlockSizes,         \* the sizes computeBlock is called with
  TopFrames,          \* the frames given to LBPTOP, as the blur leaves them
  MaxTopFrames        \* bound on how many

ASSUME PatternAssumption ==
  /\ LbpCols \in Nat \ {0} /\ LbpRows \in Nat \ {0} /\ MaxTopFrames \in Nat
  /\ BlockSizes \subseteq Nat \ {0}

VARIABLES
  lookup,              \* <<>> before initUniform
  labels,              \* dst of the last compute or computeBlock, <<>> before
  coded,               \* the image it was made of and the block, 0 for compute
  top_images, cur_index, flag, top_labels,   \* LBPTOP: images, cur_index, flag, dst
  seen,                \* the frames it was given
  raised               \* whether the last call raised

topVars == <<top_images, cur_index, flag, top_labels, seen>>
patternVars == <<lookup, labels, coded, topVars, raised>>

NoFrame == <<>>
Flat == 0 .. LbpCols * LbpRows - 1
Inner == {q \in Flat : q \div LbpCols \in 1 .. LbpRows - 2 /\ q % LbpCols \in 0 .. LbpCols - 2}

-----------------------------------------------------------------------------
(* The table.                                                              *)

countSetBits[v \in 0 .. 255] == IF v = 0 THEN 0 ELSE 1 + countSetBits[v & (v - 1)]

\* Mutant: what leaves on the right does not come back on the left.
rightshiftOpen(num, shift) == num \div 2 ^ shift
rightshift(num, shift) == (num \div 2 ^ shift) | ((num * 2 ^ (8 - shift)) % 256)

checkUniform(code) == countSetBits[code ^^ rightshift(code, 1)] <= 2

\* The table has 255 entries: that of code 255 is written past its end.
UniformLookup ==
  LET uniform == {code \in 0 .. 255 : checkUniform(code)}
  IN [code \in 0 .. 254 |->
        IF code \in uniform THEN Cardinality({c \in uniform : c < code}) ELSE 59]

Entries(code) == IF code \in DOMAIN lookup THEN {lookup[code]} ELSE 0 .. 255

-----------------------------------------------------------------------------
(* The codes.                                                              *)

\* From the left above, clockwise; the first is bit 7.
Around == <<<<-1, -1>>, <<0, -1>>, <<1, -1>>, <<1, 0>>, <<1, 1>>, <<0, 1>>, <<-1, 1>>, <<-1, 0>>>>
Code(bits) == MapThenSumSet(LAMBDA n : IF bits[n] THEN 2 ^ (8 - n) ELSE 0, DOMAIN bits)

\* A neighbour of the first column is the last pixel of the row before, or none at all.
PixelCodes(img, q) ==
  LET at(n) == q + Around[n][1] + LbpCols * Around[n][2]
  IN {Code([n \in 1 .. 8 |-> IF at(n) \in Flat THEN img[at(n)] >= img[q] ELSE stray]) :
        stray \in BOOLEAN}

\* ix.compute and ix.calcMean, of a square inside the image: the sums of all that is left of and
\* above its four corners, then the mean, cut to an integer.
Integral(img) ==
  [q \in (0 .. LbpCols) \X (0 .. LbpRows) |->
     MapThenSumSet(LAMBDA r : img[r],
                   {r \in Flat : r % LbpCols < q[1] /\ r \div LbpCols < q[2]})]
calcMean(integral, x, y, size) ==
  (integral[<<x, y>>] + integral[<<x + size, y + size>>]
     - integral[<<x + size, y>>] - integral[<<x, y + size>>]) \div (size * size)

Holds(x, y, size) == x + size <= LbpCols /\ y + size <= LbpRows

\* The corners of the blocks that get a label, and the codes of one: a neighbour that sticks out
\* of the image on the right or below has a mean of unrelated sums.
Corners(size) ==
  {c \in (1 .. LbpCols) \X (1 .. LbpRows) :
     /\ c[1] % size = 0 /\ c[1] < LbpCols - size
     /\ c[2] % size = 0 /\ c[2] < LbpRows - size}
BlockCodes(integral, c, size) ==
  LET x(n) == c[1] + size * Around[n][1]
      y(n) == c[2] + size * Around[n][2]
      meanv == calcMean(integral, c[1], c[2], size)
      out == {n \in 1 .. 8 : ~Holds(x(n), y(n), size)}
  IN {Code([n \in 1 .. 8 |->
              IF n \in out THEN stray[n] ELSE meanv >= calcMean(integral, x(n), y(n), size)]) :
        stray \in [out -> BOOLEAN]}

\* LBPTOP with k = 1: two bits for the frame before, two for the one after. The last four lines
\* shift nothing, they compare a truth value with a number, and always set bit 0.
TopCode(prev, curr, next) ==
  Code(<<prev >= curr + 10, prev <= curr - 10, next >= curr + 10, next <= curr - 10,
         FALSE, FALSE, FALSE, TRUE>>)

-----------------------------------------------------------------------------
PatternInit ==
  /\ lookup = <<>> /\ labels = <<>> /\ coded = <<>>
  /\ top_images = [slot \in 0 .. 2 |-> NoFrame] /\ cur_index = 0 /\ flag = FALSE
  /\ top_labels = <<>> /\ seen = <<>> /\ raised = FALSE

initUniform ==
  /\ lookup' = UniformLookup /\ raised' = FALSE
  /\ UNCHANGED <<labels, coded, topVars>>

\* The border keeps the pixels of the image.
lbpCompute(img) ==
  /\ lookup # <<>>
  /\ labels' = [q \in Flat |->
                  IF q \in Inner THEN UNION {Entries(code) : code \in PixelCodes(img, q)}
                  ELSE {img[q]}]
  /\ coded' = <<img, 0>> /\ raised' = FALSE
  /\ UNCHANGED <<lookup, topVars>>

computeBlock(img, size) ==
  /\ lookup # <<>>
  /\ LET integral == Integral(img)
         label == [c \in Corners(size) |->
                     UNION {Entries(code) : code \in BlockCodes(integral, c, size)}]
         of(q) == {c \in Corners(size) : /\ q % LbpCols \in c[1] .. c[1] + size - 1
                                         /\ q \div LbpCols \in c[2] .. c[2] + size - 1}
     IN labels' = [q \in Flat |-> IF of(q) = {} THEN {0} ELSE UNION {label[c] : c \in of(q)}]
  /\ coded' = <<img, size>> /\ raised' = FALSE
  /\ UNCHANGED <<lookup, topVars>>

\* BuildHistogram returns its histogram and keeps none; reshape raises on what getHist gives.
spatialHistogram ==
  /\ lookup # <<>>
  /\ raised' = TRUE
  /\ UNCHANGED <<lookup, labels, coded, topVars>>

\* The third call only sees that the ring is full, and leaves the fourth its slot. dst is the
\* caller's, who passes the one of the third call to the later ones.
topCompute(img) ==
  /\ lookup # <<>> /\ Len(seen) < MaxTopFrames
  /\ LET ring == [top_images EXCEPT ![cur_index] = img]
     IN /\ top_images' = ring
        /\ IF cur_index = 2 /\ ~flag
           THEN flag' = TRUE /\ UNCHANGED <<cur_index, top_labels>>
           ELSE /\ top_labels' =
                     IF ~flag THEN top_labels
                     ELSE [q \in Flat |->
                             IF q \in Inner
                             THEN Entries(TopCode(ring[(cur_index - 2) % 3][q],
                                                  ring[(cur_index - 1) % 3][q], ring[cur_index][q]))
                             ELSE {0}]
                /\ cur_index' = (cur_index + 1) % 3
                /\ UNCHANGED flag
  /\ seen' = Append(seen, img) /\ raised' = FALSE
  /\ UNCHANGED <<lookup, labels, coded>>

\* Each class has its own table and its own copy of initUniform and spatialHistogram.
LbpNext ==
  \/ initUniform \/ spatialHistogram
  \/ \E img \in LbpImages : lbpCompute(img) \/ \E size \in BlockSizes : computeBlock(img, size)
TopInitUniform == initUniform
TopSpatialHistogram == spatialHistogram
TopNext ==
  \/ TopInitUniform \/ TopSpatialHistogram
  \/ \E img \in TopFrames : topCompute(img)

-----------------------------------------------------------------------------
\* The bits of a code in the order of the circle.
Bit(code, n) == (code \div 2 ^ (8 - n)) % 2
Uniform ==
  {code \in 0 .. 255 : Cardinality({n \in 1 .. 8 : Bit(code, n) # Bit(code, (n % 8) + 1)}) <= 2}

\* The codes that change at most twice round the circle, and no others, have labels of their own
\* (code 255 is left out, its entry is not in the table).
LabelsAreDistinct ==
  LET uniform == DOMAIN lookup \cap Uniform
  IN /\ Cardinality({lookup[c] : c \in uniform}) = Cardinality(uniform)
     /\ \A c \in DOMAIN lookup : lookup[c] = 59 <=> c \notin uniform

\* The label of a pixel or a block all of whose neighbours are in the image is that of what one
\* gets by looking at those neighbours where they lie, block sums summed up afresh.
LabelsAreOfTheImage ==
  coded # <<>> =>
    LET img == coded[1]
        size == IF coded[2] = 0 THEN 1 ELSE coded[2]
        mean(x, y) == MapThenSumSet(LAMBDA d : img[x + d[1] + LbpCols * (y + d[2])],
                                    (0 .. size - 1) \X (0 .. size - 1)) \div (size * size)
        over(a, b) == IF coded[2] = 0 THEN a >= b ELSE b >= a
    IN \A x \in size .. LbpCols - 1, y \in size .. LbpRows - 1 :
         x % size = 0 /\ y % size = 0 /\ Holds(x + size, y + size, size) =>
           LET code == Code([n \in 1 .. 8 |-> over(mean(x + size * Around[n][1], y + size * Around[n][2]),
                                                   mean(x, y))])
           IN code # 255 => labels[x + LbpCols * y] = {lookup[code]}

\* LBPTOP compares the last three frames it was given, in the order they came, but for the third
\* one, which is lost.
FramesAreInOrder ==
  Len(seen) > 3 =>
    LET kept == SelectSeq([n \in DOMAIN seen |-> <<n, seen[n]>>], LAMBDA f : f[1] # 3)
        frame(n) == kept[Len(kept) - n][2]
    IN \A q \in Inner : top_labels[q] = {lookup[TopCode(frame(2)[q], frame(1)[q], frame(0)[q])]}

\* A label says what was seen: of two that differ the pixels, blocks or frames differ as well.
PatternsHold == LabelsAreDistinct /\ LabelsAreOfTheImage /\ FramesAreInOrder
=============================================================================
