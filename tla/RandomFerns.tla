---------------------------- MODULE RandomFerns ----------------------------
(***************************************************************************)
(* ImgFeatures/randomferns.cpp: an ensemble of ferns that learns to tell   *)
(* the patches of an object from others while it is used.  A fern gives a  *)
(* patch a code, one bit for each comparison of two of its pixels; for     *)
(* each fern and code the object counts the positive and negative patches  *)
(* it learnt and the share of the positive ones.  The confidence in a      *)
(* patch is the mean share over its codes.                                 *)
(*                                                                         *)
(* What codes a patch has is up to the image and to the points compared,   *)
(* which are drawn at random: here they are arbitrary.  A share is kept as *)
(* a fraction, <<numerator, denominator>>.                                 *)
(*                                                                         *)
(* Each init adds points to those that are there, so that codes get longer *)
(* and the tables do not: after the second one a fern meets the entries of *)
(* the ferns after it, and cells beyond the tables.                        *)
(***************************************************************************)
EXTENDS Integers, Sequences, SequencesExt

CONSTANTS
  Patches,        \* patches of images
  NumFerns,       \* _numFerns, 10 in the code
  NumFeatures,    \* _numFeatures, 13 in the code
  LaterBits,      \* bound: what points added later say of a patch, for each fern
  MaxForced,      \* bound: updates that are forced, and starts after the first
  MaxUpdates      \* bound: what the counters of a fern may add up to

ASSUME FernsAssumption ==
  /\ NumFerns \in Nat \ {0} /\ NumFeatures \in Nat /\ MaxForced \in Nat /\ MaxUpdates \in Nat
  /\ LaterBits \subseteq [0 .. NumFerns - 1 -> 0 .. 2 ^ NumFeatures - 1]

VARIABLES
  looks,                            \* the codes of each patch, as computeFeatures finds them
  label,                            \* what the teacher knows: the patches of the object
  positive, negatives, posteriors,  \* the tables, all ferns in one array
  forced,                           \* forced updates and later starts so far
  beyond                            \* a cell was used that the tables do not have

fernsVars == <<looks, label, positive, negatives, posteriors, forced, beyond>>

\* _numIndices
NumIndices == 2 ^ NumFeatures

Ferns == 0 .. NumFerns - 1
Codes == 0 .. NumIndices - 1
Cells == 0 .. NumFerns * NumIndices - 1

\* Where the entry of a fern for a code is.
Cell(i, code) == i * NumIndices + code

(***************************************************************************)
(* Confidence                                                              *)
(***************************************************************************)
Plus(a, b) == <<a[1] * b[2] + b[1] * a[2], a[2] * b[2]>>

\* The sum of the shares of a vector of codes, from the first fern on.
SumOfShares(features) ==
  FoldLeft(LAMBDA s, i : Plus(s, posteriors[Cell(i - 1, features[i - 1])]), <<0, 1>>,
           [i \in 1 .. NumFerns |-> i])

\* The confidence is above, or below, one half.
AboveHalf(features) ==
  LET s == SumOfShares(features) IN 2 * s[1] > NumFerns * s[2]
BelowHalf(features) ==
  LET s == SumOfShares(features) IN 2 * s[1] < NumFerns * s[2]

\* compute keeps a window whose confidence is above one half, classify accepts it from one half.
Found(p) == AboveHalf(looks[p])
Classified(p) == ~BelowHalf(looks[p])

(***************************************************************************)
(* Tables                                                                  *)
(***************************************************************************)
\* What initProb fills the counters and the shares with.
NoCounts == [c \in Cells |-> 0]
NoShares == [c \in Cells |-> <<0, 1>>]

FernsInit ==
  /\ looks \in [Patches -> [Ferns -> Codes]]
  /\ label \in [Patches -> BOOLEAN]
  /\ positive = NoCounts /\ negatives = NoCounts /\ posteriors = NoShares
  /\ forced = 0
  /\ beyond = FALSE

\* The cells of a vector of codes, and how many of its ferns meet in one.
CellsOf(features) == {Cell(i, features[i]) : i \in Ferns}
Meeting(features, c) == Cardinality({i \in Ferns : Cell(i, features[i]) = c})
InTables(p) == CellsOf(looks[p]) \subseteq Cells

\* updatePosterior: one more patch of the class in each cell, for each fern, and its share anew.
Share(c) == <<positive'[c], positive'[c] + negatives'[c]>>

UpdatePosterior(features, class1) ==
  LET cells == CellsOf(features)
      Counted(table) == [c \in Cells |-> table[c] + Meeting(features, c)]
  IN /\ positive' = IF class1 THEN Counted(positive) ELSE positive
     /\ negatives' = IF class1 THEN negatives ELSE Counted(negatives)
     /\ posteriors' = [c \in Cells |-> IF c \in cells THEN Share(c) ELSE posteriors[c]]

\* learn updates for a positive patch of no confidence and for a negative one of some: one half
\* is neither.
\* Mutant: one half is enough of both.
NeedsUpdateStrictly(features, class1) ==
  IF class1 THEN BelowHalf(features) ELSE AboveHalf(features)
NeedsUpdate(features, class1) ==
  IF class1 THEN ~AboveHalf(features) ELSE ~BelowHalf(features)

\* Bound: counters of a fern.
CountsLeft(p) ==
  \A i \in Ferns : LET c == Cell(i, looks[p][i]) IN positive[c] + negatives[c] < MaxUpdates

LearnPatch(p) ==
  /\ ~beyond /\ InTables(p)
  /\ NeedsUpdate(looks[p], label[p])
  /\ CountsLeft(p)
  /\ UpdatePosterior(looks[p], label[p])
  /\ UNCHANGED <<looks, label, forced, beyond>>

\* learn with force, which asks for nothing; the class may be wrong.
LearnForced(p, class1) ==
  /\ ~beyond /\ InTables(p)
  /\ forced < MaxForced
  /\ CountsLeft(p)
  /\ UpdatePosterior(looks[p], class1)
  /\ forced' = forced + 1
  /\ UNCHANGED <<looks, label, beyond>>

\* learn, compute or classify of a patch with a code that leaves the tables.
UseBeyond(p) ==
  /\ ~beyond /\ ~InTables(p)
  /\ beyond' = TRUE
  /\ UNCHANGED <<looks, label, positive, negatives, posteriors, forced>>

\* readFromFile of a file that is not there starts again: new tables, and more points for every
\* fern after those it has, which make more bits of its codes.
StartAgain ==
  /\ ~beyond
  /\ forced < MaxForced
  /\ forced' = forced + 1
  /\ positive' = NoCounts /\ negatives' = NoCounts /\ posteriors' = NoShares
  /\ \E more \in [Patches -> LaterBits] :
       looks' = [p \in Patches |-> [i \in Ferns |-> looks[p][i] * NumIndices + more[p][i]]]
  /\ UNCHANGED <<label, beyond>>

FernsNext ==
  \/ \E p \in Patches :
       LearnPatch(p) \/ UseBeyond(p) \/ \E class1 \in BOOLEAN : LearnForced(p, class1)
  \/ StartAgain

FernsSpec == FernsInit /\ [][FernsNext]_fernsVars
Teaching == \A p \in Patches : WF_fernsVars(LearnPatch(p))
FernsFairSpec == FernsSpec /\ Teaching

(***************************************************************************)
(* Properties                                                              *)
(***************************************************************************)
\* How often the cell c is met when each patch p of a class is presented times[p] times.
MetBy(class1, times, c) ==
  MapThenSumSet(LAMBDA p : times[p] * Meeting(looks[p], c), {p \in Patches : label[p] = class1})

\* The codes tell the patches of the object from the others: there is no way to present them such
\* that patches of the object meet every cell as often as the others do.  Two with the same codes
\* and different classes are one such way, an exclusive or of four is another.
Separable ==
  \A times \in [Patches -> 0 .. 2] :
    (\A c \in Cells : MetBy(TRUE, times, c) = MetBy(FALSE, times, c)) =>
      \A p \in Patches : times[p] = 0

\* compute and classify both find the patches of the object and no others.
AsTaught == \A p \in Patches : Found(p) = label[p] /\ Classified(p) = label[p]

\* A teacher that goes on presenting its patches, with right classes, comes to an end: from some
\* time on the ferns tell them apart and nothing is updated any more, whatever was forced upon
\* them before and also where the ferns share their cells after a second start, unless no tables
\* can tell them apart, or some code leaves the tables (learn, compute, classify, readFromFile).
TeachingSettles ==
  <>[]((\A p \in Patches : InTables(p)) /\ Separable => AsTaught)

=============================================================================
