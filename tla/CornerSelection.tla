--------------------------- MODULE CornerSelection ---------------------------
(***************************************************************************)
(* ImgFeatures: how a corner detector chooses among the responses of an    *)
(* image.  The image is cut into cells; the strongest pixel of each is a   *)
(* candidate when it is strong enough; the candidates are taken from the   *)
(* strongest on and kept when they are minDistance from all kept so far.   *)
(*                                                                         *)
(* How a detector computes the responses, and the refinement of the kept   *)
(* corners to fractions of a pixel, are left out: a response image is a    *)
(* function from pixels <<x, y>> to numbers.                               *)
(***************************************************************************)
EXTENDS Integers, Sequences, FiniteSets, FiniteSetsExt, SequencesExt

CONSTANTS
  Detectors,        \* the classes tried
  ImageCols, ImageRows,
  Responses,        \* the response images tried
  Distances,        \* the values of minDistance tried
  Limits,           \* the values of maxCorners tried
  Quality           \* qualityLevel in percent

DetectorNames == {"HarrisCorner", "GoodFeatureToTrack", "Fast"}

\* A distance of 0 divides by zero; nothing in the code forbids it.
ASSUME CornerAssumption ==
  /\ Detectors \subseteq DetectorNames
  /\ ImageCols \in Nat /\ ImageRows \in Nat
  /\ Distances \subseteq Nat \ {0} /\ Limits \subseteq Nat
  /\ Quality \in 0 .. 100
  /\ \A dst \in Responses :
       dst \in [(0 .. ImageCols - 1) \X (0 .. ImageRows - 1) -> Nat]

VARIABLES
  detector, minDistance, maxCorners,
  corners,          \* the member that filter_corners fills
  corner_count,     \* set by FeatureDetector's filter_corners only; -1 before
  returned,         \* what run returned, until it is called again
  response,         \* dst, while filter_corners runs
  keypoints         \* the candidates not yet looked at, while filter_corners runs

cornerVars ==
  <<detector, minDistance, maxCorners, corners, corner_count, returned, response, keypoints>>

NoResponse == [p \in {} |-> 0]
Filtering == response # NoResponse

\* The pixels of the whole cells; what is left of the image at the right and below is in none.
PixelsOfCell(x, y, size) ==
  (x * size .. x * size + size - 1) \X (y * size .. y * size + size - 1)

\* minMaxLoc: the first of the strongest pixels, row by row.
Strongest(dst, pixels) ==
  CHOOSE m \in pixels : \A q \in pixels :
    dst[q] < dst[m] \/ (dst[q] = dst[m] /\ (m[2] < q[2] \/ (m[2] = q[2] /\ m[1] <= q[1])))

\* GoodFeatureToTrack has a filter of its own, that takes the level itself too.
StrongEnough(d, dst, m) ==
  LET level == Max({dst[q] : q \in DOMAIN dst}) * Quality
  IN IF d = "GoodFeatureToTrack" THEN 100 * dst[m] >= level ELSE 100 * dst[m] > level

Candidates(d, dst, size) ==
  {m \in {Strongest(dst, PixelsOfCell(x, y, size)) :
            x \in 0 .. ImageCols \div size - 1, y \in 0 .. ImageRows \div size - 1} :
     StrongEnough(d, dst, m)}

\* Mutant: only the corner kept last is compared.
ApartFromLast(m, kept, distance) ==
  kept = <<>> \/
    LET c == Last(kept)
    IN (m[1] - c[1]) * (m[1] - c[1]) + (m[2] - c[2]) * (m[2] - c[2]) >= distance * distance

\* A point at least the distance from every corner of the list.
Apart(m, kept, distance) ==
  \A i \in DOMAIN kept :
    LET c == kept[i]
    IN (m[1] - c[1]) * (m[1] - c[1]) + (m[2] - c[2]) * (m[2] - c[2]) >= distance * distance

-----------------------------------------------------------------------------
CornerInit ==
  /\ detector \in Detectors /\ minDistance \in Distances /\ maxCorners \in Limits
  /\ corners = <<>> /\ corner_count = -1 /\ returned = <<>>
  /\ response = NoResponse /\ keypoints = {}

setMaxCorners(value) ==
  /\ ~Filtering
  /\ maxCorners' = value
  /\ UNCHANGED <<detector, minDistance, corners, corner_count, returned, response, keypoints>>

setminDistance(value) ==
  /\ ~Filtering
  /\ minDistance' = value
  /\ UNCHANGED <<detector, maxCorners, corners, corner_count, returned, response, keypoints>>

\* run, up to the loop over the candidates: the corners of the last run are thrown away.
runDetector(dst) ==
  /\ ~Filtering
  /\ corners' = <<>> /\ returned' = <<>>
  /\ response' = dst
  /\ keypoints' = Candidates(detector, dst, minDistance)
  /\ UNCHANGED <<detector, minDistance, maxCorners, corner_count>>

\* The loop is left when as many are kept as are wanted, a test made after a candidate only:
\* when none is wanted one is kept.
LimitReached == corners # <<>> /\ Len(corners) >= maxCorners

\* One candidate, of the strongest left; which of equals comes first is up to the sort.
FilterCorner ==
  /\ Filtering /\ ~LimitReached
  /\ \E m \in keypoints :
       /\ \A q \in keypoints : response[q] <= response[m]
       /\ keypoints' = keypoints \ {m}
       /\ corners' = IF Apart(m, corners, minDistance) THEN Append(corners, m) ELSE corners
  /\ UNCHANGED <<detector, minDistance, maxCorners, corner_count, returned, response>>

\* filter_corners and run return.  Fast's run returns a list of its own, that hides the member
\* and that nothing was put into.
Return ==
  /\ Filtering
  /\ keypoints = {} \/ LimitReached
  /\ corner_count' = IF detector = "GoodFeatureToTrack" THEN corner_count ELSE Len(corners)
  /\ returned' = IF detector = "Fast" THEN <<>> ELSE corners
  /\ response' = NoResponse /\ keypoints' = {}
  /\ UNCHANGED <<detector, minDistance, maxCorners, corners>>

CornerNext ==
  \/ \E value \in Limits \ {maxCorners} : setMaxCorners(value)
  \/ \E value \in Distances \ {minDistance} : setminDistance(value)
  \/ \E dst \in Responses : runDetector(dst)
  \/ FilterCorner
  \/ Return

CornerSpec == CornerInit /\ [][CornerNext]_cornerVars

-----------------------------------------------------------------------------
\* When filter_corners is about to return, the corners are candidates of this image, any two of
\* them the distance apart and in the order of their strength; and a candidate that is not
\* among them has one as strong too near it, or finds the limit reached by stronger ones.
CornersAreTheBest ==
  Filtering /\ (keypoints = {} \/ LimitReached) =>
    LET kept == ToSet(corners)
    IN /\ kept \subseteq Candidates(detector, response, minDistance)
       /\ Cardinality(kept) = Len(corners)
       /\ \A i, j \in DOMAIN corners : i < j => response[corners[i]] >= response[corners[j]]
       /\ \A c \in kept : Apart(c, SetToSeq(kept \ {c}), minDistance)
       /\ \A m \in Candidates(detector, response, minDistance) \ kept :
            \/ \E c \in kept : response[c] >= response[m] /\ ~Apart(m, <<c>>, minDistance)
            \/ Len(corners) >= maxCorners /\ \A c \in kept : response[c] >= response[m]

=============================================================================
