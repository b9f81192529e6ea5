---------------------------- MODULE EdgeDetector ----------------------------
(***************************************************************************)
(* Edge tracing in ImgProc/edgedetector.cpp. EdgeDetector::canny takes a   *)
(* list of threshold pairs and traces the edges of one gradient image for  *)
(* each of them: connectedComponent scans the pixels above one threshold   *)
(* and stackfill labels what hangs together with them above the other, by  *)
(* a flood fill with a stack of its own.                                   *)
(*                                                                         *)
(* A pixel is a pair <<x, y>>. The label image _lable is the set of pixels *)
(* set to 255, and a label image copied to dst is such a set. The gradient *)
(* image comes from outside: how it is smoothed, derived and thinned is    *)
(* not modelled.                                                           *)
(***************************************************************************)
EXTENDS Integers, Sequences, FiniteSets

CONSTANTS
  Width, Height,       \* s, the size of the image
  Images,              \* the gradient images: functions from pixels to magnitudes
  Calls                \* the arguments lower and higher of canny

Pixels   == (0 .. Width - 1) \X (0 .. Height - 1)
Interior == (1 .. Width - 2) \X (1 .. Height - 2)

\* Thresholds come in pairs: canny indexes higher by the length of lower.
ASSUME EdgeAssumption ==
  /\ Width \in Nat /\ Height \in Nat
  /\ Images \subseteq [Pixels -> Nat]
  /\ \A c \in Calls : /\ c.lower \in Seq(Int) /\ c.higher \in Seq(Int)
                      /\ Len(c.lower) = Len(c.higher)

VARIABLES
  fmag,                \* the gradient image
  lower, higher,       \* canny's arguments
  i,                   \* canny's counter: the pair of thresholds in use is i + 1
  tracing,             \* whether connectedComponent is running
  at,                  \* the pixel its scan has reached
  _lable, points,      \* the label image and the stack, its top last
  dst                  \* the label images traced so far

given == <<fmag, lower, higher>>
vars  == <<given, i, tracing, at, _lable, points, dst>>

Init ==
  /\ fmag \in Images
  /\ \E c \in Calls : lower = c.lower /\ higher = c.higher
  /\ i = 0 /\ tracing = FALSE /\ at = <<1, 1>>
  /\ _lable = {} /\ points = <<>> /\ dst = <<>>

-----------------------------------------------------------------------------
nMinx == 1
nMaxx == Width - 2
nMiny == 1
nMaxy == Height - 2

InBounds(p) == /\ nMinx <= p[1] /\ p[1] <= nMaxx
               /\ nMiny <= p[2] /\ p[2] <= nMaxy

\* The thresholded images of the k-th pair. Those named lower select the pixels that
\* start a trace, those named higher the pixels that continue one.
hout(k) == {p \in Pixels : fmag[p] > lower[k]}
lout(k) == {p \in Pixels : fmag[p] > higher[k]}

\* check_color: a pixel to continue with, not labelled yet.
check_color(p) == InBounds(p) /\ p \notin _lable /\ p \in lout(i + 1)

\* A neighbour of p, if it is to be pushed.
Near(p, dx, dy) == LET q == <<p[1] + dx, p[2] + dy>>
                   IN IF check_color(q) THEN <<q>> ELSE <<>>

\* The neighbours of p, in the order in which they are pushed.
Pushed(p) ==
  Near(p, -1, -1) \o Near(p, -1, 0) \o Near(p, -1, 1) \o
  Near(p,  0, -1)                   \o Near(p,  0, 1) \o
  Near(p,  1, -1) \o Near(p,  1, 0) \o Near(p,  1, 1)

\* The scan covers the rows and columns before nMaxy and nMaxx.
ScanOver == at[1] >= nMaxx \/ at[2] >= nMaxy
\* Mutant: the scan stays in its row.
NextPixelSameRow ==
  IF at[1] + 1 < nMaxx THEN <<at[1] + 1, at[2]>> ELSE <<nMinx, at[2]>>
NextPixel == IF at[1] + 1 < nMaxx THEN <<at[1] + 1, at[2]>> ELSE <<nMinx, at[2] + 1>>

-----------------------------------------------------------------------------
\* Mutant: the labels of the pair before stay.
StartKeepingLabels ==
  /\ ~tracing /\ i < Len(lower)
  /\ tracing' = TRUE /\ at' = <<nMinx, nMiny>>
  /\ UNCHANGED <<given, i, _lable, points, dst>>

\* canny turns to the next pair of thresholds, and connectedComponent clears _lable.
Start ==
  /\ ~tracing /\ i < Len(lower)
  /\ tracing' = TRUE /\ at' = <<nMinx, nMiny>> /\ _lable' = {}
  /\ UNCHANGED <<given, i, points, dst>>

\* The scan passes one pixel; stackfill starts there if it is above the threshold.
Scan ==
  /\ tracing /\ points = <<>> /\ ~ScanOver
  /\ points' = IF at \in hout(i + 1) THEN <<at>> ELSE <<>>
  /\ at' = NextPixel
  /\ UNCHANGED <<given, i, tracing, _lable, dst>>

\* One turn of stackfill: the top pixel is labelled and its neighbours are pushed.
Fill ==
  /\ points # <<>>
  /\ LET p == points[Len(points)] IN
       /\ _lable' = _lable \cup {p}
       /\ points' = SubSeq(points, 1, Len(points) - 1) \o Pushed(p)
  /\ UNCHANGED <<given, i, tracing, at, dst>>

\* The scan is over: the labels are copied out.
Finish ==
  /\ tracing /\ points = <<>> /\ ScanOver
  /\ dst' = Append(dst, _lable)
  /\ tracing' = FALSE /\ i' = i + 1
  /\ UNCHANGED <<given, at, _lable, points>>

Next == Start \/ Scan \/ Fill \/ Finish

Spec == Init /\ [][Next]_vars

\* One thread calls canny and runs it to its end.
FairSpec == Spec /\ WF_vars(Next)

-----------------------------------------------------------------------------
(* Properties.                                                             *)

\* Every variable has a value of its kind. In particular only the interior is labelled
\* and pushed: outside it setPixel and check_color would write and read other rows.
TypeOK ==
  /\ fmag \in [Pixels -> Nat]
  /\ lower \in Seq(Int) /\ higher \in Seq(Int) /\ Len(lower) = Len(higher)
  /\ i \in 0 .. Len(lower) /\ tracing \in BOOLEAN
  /\ tracing => i < Len(lower)
  /\ at \in Nat \X Nat /\ nMinx <= at[1] /\ nMiny <= at[2]
  /\ _lable \subseteq Interior
  /\ points \in Seq(Interior)
  /\ dst \in Seq(SUBSET Interior) /\ Len(dst) = i

Adjacent(p, q) == p # q /\ p[1] - q[1] \in -1 .. 1 /\ p[2] - q[2] \in -1 .. 1

\* Nothing that continues the trace is next to S and outside it.
ClosedUnder(k, S) ==
  \A p \in S : \A q \in lout(k) : InBounds(q) /\ Adjacent(p, q) => q \in S

Seeds(k) == {p \in hout(k) : /\ nMinx <= p[1] /\ p[1] < nMaxx
                             /\ nMiny <= p[2] /\ p[2] < nMaxy}

\* What is traced for a pair of thresholds is exactly what can be reached, in steps to
\* adjacent pixels that continue the trace, from the pixels that start one: the smallest
\* closed set around the seeds, whatever the order of the scan and of the stack, and
\* whatever was traced for the pairs before.
TracedIsReachable ==
  \A k \in 1 .. Len(dst) :
    /\ Seeds(k) \subseteq dst[k]
    /\ ClosedUnder(k, dst[k])
    /\ \A S \in SUBSET dst[k] : Seeds(k) \subseteq S /\ ClosedUnder(k, S) => S = dst[k]

\* canny returns, with one label image for each pair of thresholds.
CannyReturns == <>(Len(dst) = Len(lower))
=============================================================================
