------------------------- MODULE EdgeDetectorProofs -------------------------
(***************************************************************************)
(* Proofs about EdgeDetector, for images of every size and content and any *)
(* list of thresholds: its types, and that what is traced for a pair of    *)
(* thresholds is exactly what can be reached (TracedIsReachable).          *)
(***************************************************************************)
EXTENDS EdgeDetector, SequenceTheorems, TLAPS

-----------------------------------------------------------------------------
(* What the stack and the labels hold in the middle of a trace.            *)

\* The pixels that are labelled or wait for it.
Traced == _lable \cup Range(points)

\* The pixels to continue with around p that have no label yet.
Fresh(p) == {q \in lout(i + 1) : InBounds(q) /\ Adjacent(p, q) /\ q \notin _lable}

\* The scan has gone past p.
Passed(p) == p[2] < at[2] \/ (p[2] = at[2] /\ p[1] < at[1])

\* Nothing is traced that could be missing from a closed set around the seeds.
NothingTooMuch ==
  \A S \in SUBSET Interior :
    Seeds(i + 1) \subseteq S /\ ClosedUnder(i + 1, S) => Traced \subseteq S

\* Around a label nothing is missing.
LabelsAreSurrounded ==
  \A p \in _lable : \A q \in lout(i + 1) : InBounds(q) /\ Adjacent(p, q) => q \in Traced

\* Every seed that the scan has passed is traced.
SeedsAreTraced == \A p \in Seeds(i + 1) : Passed(p) => p \in Traced

TraceInv ==
  /\ TypeOK
  /\ tracing => /\ NothingTooMuch
                /\ LabelsAreSurrounded
                /\ SeedsAreTraced
                /\ at[1] < nMaxx \/ at[1] = nMinx
  /\ ~tracing => points = <<>>
  /\ TracedIsReachable

-----------------------------------------------------------------------------
(* What stackfill pushes.                                                  *)

\* A pixel is inside the bounds just when it is in the interior.
LEMMA InteriorInBounds ==
  ASSUME EdgeAssumption, NEW p \in Int \X Int
  PROVE  InBounds(p) <=> p \in Interior
BY DEF EdgeAssumption, InBounds, Interior, nMinx, nMaxx, nMiny, nMaxy

\* One neighbour is pushed if it is fresh, and nothing else is.
LEMMA NearIsFresh ==
  ASSUME EdgeAssumption, TypeOK, NEW p \in Interior, NEW dx \in -1 .. 1, NEW dy \in -1 .. 1,
         <<dx, dy>> # <<0, 0>>
  PROVE  /\ Near(p, dx, dy) \in Seq(Interior)
         /\ Range(Near(p, dx, dy)) = {q \in Fresh(p) : q = <<p[1] + dx, p[2] + dy>>}
<1> DEFINE q == <<p[1] + dx, p[2] + dy>>
<1>1. p[1] \in Int /\ p[2] \in Int
  BY DEF Interior, EdgeAssumption
<1>2. q \in Int \X Int /\ Adjacent(p, q)
  BY <1>1 DEF Adjacent
<1>3. check_color(q) => q \in Interior
  BY <1>2, InteriorInBounds DEF check_color
<1>4. q \in Fresh(p) <=> check_color(q)
  BY <1>2 DEF Fresh, check_color
<1>5. Near(p, dx, dy) = IF check_color(q) THEN <<q>> ELSE <<>>
  BY DEF Near
<1> HIDE DEF q
<1>6. Range(<<q>>) = {q} /\ Range(<<>>) = {}
  BY DEF Range
<1> QED
  BY <1>3, <1>4, <1>5, <1>6 DEF q

\* What is pushed around p is what is fresh around p.
LEMMA PushedIsFresh ==
  ASSUME EdgeAssumption, TypeOK, NEW p \in Interior
  PROVE  Pushed(p) \in Seq(Interior) /\ Range(Pushed(p)) = Fresh(p)
<1> DEFINE F(dx, dy) == {q \in Fresh(p) : q = <<p[1] + dx, p[2] + dy>>}
           a == Near(p, -1, -1)
           b == Near(p, -1, 0)
           c == Near(p, -1, 1)
           d == Near(p, 0, -1)
           e == Near(p, 0, 1)
           f == Near(p, 1, -1)
           g == Near(p, 1, 0)
           h == Near(p, 1, 1)
<1>1. /\ a \in Seq(Interior) /\ Range(a) = F(-1, -1)
      /\ b \in Seq(Interior) /\ Range(b) = F(-1, 0)
      /\ c \in Seq(Interior) /\ Range(c) = F(-1, 1)
      /\ d \in Seq(Interior) /\ Range(d) = F(0, -1)
  BY NearIsFresh
<1>2. /\ e \in Seq(Interior) /\ Range(e) = F(0, 1)
      /\ f \in Seq(Interior) /\ Range(f) = F(1, -1)
      /\ g \in Seq(Interior) /\ Range(g) = F(1, 0)
      /\ h \in Seq(Interior) /\ Range(h) = F(1, 1)
  BY NearIsFresh
<1>3. Pushed(p) = a \o b \o c \o d \o e \o f \o g \o h
  BY DEF Pushed
<1>4. Fresh(p) = F(-1, -1) \cup F(-1, 0) \cup F(-1, 1) \cup F(0, -1)
                  \cup F(0, 1) \cup F(1, -1) \cup F(1, 0) \cup F(1, 1)
  <2> SUFFICES ASSUME NEW q \in Fresh(p)
               PROVE  \E dx, dy \in -1 .. 1 : <<dx, dy>> # <<0, 0>> /\ q = <<p[1] + dx, p[2] + dy>>
    BY DEF Fresh
  <2>1. p[1] \in Int /\ p[2] \in Int /\ p = <<p[1], p[2]>>
    BY DEF Interior, EdgeAssumption
  <2>2. q[1] \in Int /\ q[2] \in Int /\ q = <<q[1], q[2]>> /\ Adjacent(p, q)
    BY DEF Fresh, lout, Pixels, EdgeAssumption
  <2>3. q[1] - p[1] \in -1 .. 1 /\ q[2] - p[2] \in -1 .. 1
    BY <2>1, <2>2 DEF Adjacent
  <2>4. <<q[1] - p[1], q[2] - p[2]>> # <<0, 0>>
    BY <2>1, <2>2 DEF Adjacent
  <2>5. q = <<p[1] + (q[1] - p[1]), p[2] + (q[2] - p[2])>>
    BY <2>1, <2>2
  <2> QED
    BY <2>3, <2>4, <2>5
<1> HIDE DEF a, b, c, d, e, f, g, h, F
<1>0. /\ a \in Seq(Interior) /\ b \in Seq(Interior) /\ c \in Seq(Interior)
      /\ d \in Seq(Interior) /\ e \in Seq(Interior) /\ f \in Seq(Interior)
      /\ g \in Seq(Interior) /\ h \in Seq(Interior)
  BY <1>1, <1>2
<1> DEFINE ab == a \o b
           abc == ab \o c
           abcd == abc \o d
           abcde == abcd \o e
           abcdef == abcde \o f
           abcdefg == abcdef \o g
<1>5. ab \in Seq(Interior) /\ Range(ab) = Range(a) \cup Range(b)
  BY <1>0, ConcatProperties, RangeConcatenation
<1> HIDE DEF ab
<1>6. abc \in Seq(Interior) /\ Range(abc) = Range(ab) \cup Range(c)
  BY <1>5, <1>0, ConcatProperties, RangeConcatenation
<1> HIDE DEF abc
<1>7. abcd \in Seq(Interior) /\ Range(abcd) = Range(abc) \cup Range(d)
  BY <1>6, <1>0, ConcatProperties, RangeConcatenation
<1> HIDE DEF abcd
<1>8. abcde \in Seq(Interior) /\ Range(abcde) = Range(abcd) \cup Range(e)
  BY <1>7, <1>0, ConcatProperties, RangeConcatenation
<1> HIDE DEF abcde
<1>9. abcdef \in Seq(Interior) /\ Range(abcdef) = Range(abcde) \cup Range(f)
  BY <1>8, <1>0, ConcatProperties, RangeConcatenation
<1> HIDE DEF abcdef
<1>10. abcdefg \in Seq(Interior) /\ Range(abcdefg) = Range(abcdef) \cup Range(g)
  BY <1>9, <1>0, ConcatProperties, RangeConcatenation
<1> HIDE DEF abcdefg
<1>11. abcdefg \o h \in Seq(Interior) /\ Range(abcdefg \o h) = Range(abcdefg) \cup Range(h)
  BY <1>10, <1>0, ConcatProperties, RangeConcatenation
<1> QED
  BY <1>1, <1>2, <1>3, <1>4, <1>5, <1>6, <1>7, <1>8, <1>9, <1>10, <1>11
    DEF ab, abc, abcd, abcde, abcdef, abcdefg

-----------------------------------------------------------------------------
(* The invariant.                                                          *)

\* The initial states satisfy the invariant.
LEMMA InitTraceInv == ASSUME EdgeAssumption, Init PROVE TraceInv
<1>1. TypeOK
  <2>1. fmag \in [Pixels -> Nat]
    BY DEF Init, EdgeAssumption
  <2>2. lower \in Seq(Int) /\ higher \in Seq(Int) /\ Len(lower) = Len(higher)
    BY DEF Init, EdgeAssumption
  <2>3. i \in 0 .. Len(lower) /\ tracing = FALSE
    BY <2>2, LenProperties DEF Init
  <2>4. at \in Nat \X Nat /\ nMinx <= at[1] /\ nMiny <= at[2]
    BY DEF Init, nMinx, nMiny
  <2>5. /\ _lable \subseteq Interior /\ points \in Seq(Interior)
        /\ dst \in Seq(SUBSET Interior) /\ Len(dst) = i
    BY EmptySeq DEF Init
  <2> QED
    BY <2>1, <2>2, <2>3, <2>4, <2>5 DEF TypeOK
<1> QED
  BY <1>1 DEF Init, TraceInv, TracedIsReachable

\* Start begins with nothing traced.
LEMMA StartTraceInv == ASSUME EdgeAssumption, TraceInv, Start PROVE TraceInv'
<1> USE DEF given
<1>1. TypeOK'
  BY DEF Start, TraceInv, TypeOK, nMinx, nMiny
<1>2. tracing' /\ Traced' = {} /\ points = <<>> /\ points' = points
  BY DEF Start, TraceInv, Traced, Range
<1>3. NothingTooMuch' /\ LabelsAreSurrounded'
  BY <1>2 DEF Start, NothingTooMuch, LabelsAreSurrounded
<1>4. SeedsAreTraced'
  <2>1. at' = <<1, 1>>
    BY DEF Start, nMinx, nMiny
  <2>2. \A p \in Seeds(i + 1)' : p[1] \in Int /\ p[2] \in Int /\ 1 <= p[1] /\ 1 <= p[2]
    BY DEF Seeds, hout, Pixels, EdgeAssumption, nMinx, nMiny
  <2> QED
    BY <2>1, <2>2 DEF SeedsAreTraced, Passed
<1>5. TracedIsReachable'
  BY DEF Start, TraceInv, TracedIsReachable, Seeds, ClosedUnder, hout, lout
<1> QED
  BY <1>1, <1>2, <1>3, <1>4, <1>5 DEF TraceInv, Start

\* Scan goes past one pixel, which is traced if it is a seed.
LEMMA ScanTraceInv == ASSUME EdgeAssumption, TraceInv, Scan PROVE TraceInv'
<1> USE DEF given
<1>1. /\ at \in Nat \X Nat /\ at[1] \in Nat /\ at[2] \in Nat /\ at = <<at[1], at[2]>>
      /\ nMinx <= at[1] /\ at[1] < nMaxx /\ nMiny <= at[2] /\ at[2] < nMaxy
      /\ nMaxx \in Int /\ nMaxy \in Int
  BY DEF TraceInv, TypeOK, Scan, ScanOver, nMaxx, nMaxy, EdgeAssumption
<1>2. at \in Interior
  BY <1>1 DEF Interior, nMinx, nMiny, nMaxx, nMaxy, EdgeAssumption
<1>3. points' \in Seq(Interior) /\ Range(points') = {at} \cap hout(i + 1)
  BY <1>2 DEF Scan, Range
<1>4. /\ at' \in Nat \X Nat /\ nMinx <= at'[1] /\ nMiny <= at'[2]
      /\ at'[1] < nMaxx \/ at'[1] = nMinx
  BY <1>1 DEF Scan, NextPixel, nMinx, nMiny
<1>5. TypeOK'
  BY <1>3, <1>4 DEF Scan, TraceInv, TypeOK
<1>6. Traced' = Traced \cup ({at} \cap hout(i + 1))
  BY <1>3 DEF Scan, Traced, Range
<1>7. /\ Seeds(i + 1)' = Seeds(i + 1) /\ hout(i + 1)' = hout(i + 1)
      /\ lout(i + 1)' = lout(i + 1)
      /\ \A S : ClosedUnder(i + 1, S)' <=> ClosedUnder(i + 1, S)
  BY DEF Scan, Seeds, hout, lout, ClosedUnder
<1>8. {at} \cap hout(i + 1) \subseteq Seeds(i + 1)
  BY <1>1 DEF Seeds
<1>9. NothingTooMuch'
  BY <1>6, <1>7, <1>8 DEF NothingTooMuch, TraceInv, Scan
<1>10. LabelsAreSurrounded'
  BY <1>6, <1>7 DEF LabelsAreSurrounded, TraceInv, Scan
<1>11. SeedsAreTraced'
  <2> SUFFICES ASSUME NEW p \in Seeds(i + 1), Passed(p)' PROVE p \in Traced'
    BY <1>7 DEF SeedsAreTraced
  <2>1. /\ p \in hout(i + 1) /\ p[1] \in Int /\ p[2] \in Int /\ p = <<p[1], p[2]>>
        /\ nMinx <= p[1] /\ p[1] < nMaxx
    BY DEF Seeds, hout, Pixels, EdgeAssumption
  <2>2. Passed(p) \/ p = at
    BY <1>1, <2>1 DEF Scan, NextPixel, Passed, nMinx
  <2> QED
    BY <1>6, <2>1, <2>2 DEF TraceInv, SeedsAreTraced, Scan
<1>12. TracedIsReachable'
  BY DEF Scan, TraceInv, TracedIsReachable, Seeds, ClosedUnder, hout, lout
<1> QED
  BY <1>4, <1>5, <1>9, <1>10, <1>11, <1>12 DEF TraceInv, Scan

\* Fill labels the top of the stack and pushes what is fresh around it.
LEMMA FillTraceInv == ASSUME EdgeAssumption, TraceInv, Fill PROVE TraceInv'
<1> USE DEF given
<1> DEFINE p == points[Len(points)]
           rest == SubSeq(points, 1, Len(points) - 1)
<1>1. tracing /\ TypeOK /\ points \in Seq(Interior) /\ points # <<>>
  BY DEF TraceInv, Fill, TypeOK
<1>2. p \in Interior /\ rest \in Seq(Interior) /\ Range(points) = Range(rest) \cup {p}
  <2>1. Len(points) \in Nat /\ Len(points) > 0 /\ DOMAIN points = 1 .. Len(points)
    BY <1>1, LenProperties, EmptySeq
  <2>2. p \in Interior
    BY <1>1, <2>1, ElementOfSeq
  <2>3. /\ rest \in Seq(Interior) /\ DOMAIN rest = 1 .. Len(points) - 1
        /\ \A j \in 1 .. Len(points) - 1 : rest[j] = points[j]
    BY <1>1, <2>1
  <2>4. \A n \in Nat : n > 0 => 1 .. n = (1 .. n - 1) \cup {n}
    OBVIOUS
  <2> HIDE DEF rest
  <2>5. Range(points) = {points[j] : j \in 1 .. Len(points)}
    BY <2>1 DEF Range
  <2>6. Range(rest) = {points[j] : j \in 1 .. Len(points) - 1}
    BY <2>3 DEF Range
  <2>7. 1 .. Len(points) = (1 .. Len(points) - 1) \cup {Len(points)}
    BY <2>1, <2>4
  <2>8. Range(points) = Range(rest) \cup {p}
    BY <2>5, <2>6, <2>7
  <2> QED
    BY <2>2, <2>3, <2>8
<1>3. Pushed(p) \in Seq(Interior) /\ Range(Pushed(p)) = Fresh(p)
  BY <1>1, <1>2, PushedIsFresh
<1>4. /\ points' = rest \o Pushed(p) /\ _lable' = _lable \cup {p}
      /\ UNCHANGED <<given, i, tracing, at, dst>>
  BY DEF Fill
<1> HIDE DEF p, rest
<1>5. points' \in Seq(Interior) /\ Range(points') = Range(rest) \cup Fresh(p)
  <2>1. rest \o Pushed(p) \in Seq(Interior)
    BY <1>2, <1>3, ConcatProperties
  <2>2. Range(rest \o Pushed(p)) = Range(rest) \cup Range(Pushed(p))
    BY <1>2, <1>3, RangeConcatenation
  <2> QED
    BY <1>3, <1>4, <2>1, <2>2
<1>6. TypeOK'
  BY <1>1, <1>2, <1>4, <1>5 DEF TypeOK
<1>7. Traced' = Traced \cup Fresh(p)
  <2>1. Traced' = _lable' \cup Range(points')
    BY DEF Traced, Range
  <2> QED
    BY <1>2, <1>4, <1>5, <2>1 DEF Traced
<1>8. /\ Seeds(i + 1)' = Seeds(i + 1) /\ lout(i + 1)' = lout(i + 1)
      /\ \A S : ClosedUnder(i + 1, S)' <=> ClosedUnder(i + 1, S)
  BY <1>4 DEF Seeds, hout, lout, ClosedUnder
<1>9. p \in Traced
  BY <1>2 DEF Traced
<1>10. NothingTooMuch'
  <2> SUFFICES ASSUME NEW S \in SUBSET Interior, Seeds(i + 1) \subseteq S, ClosedUnder(i + 1, S)
               PROVE  Traced' \subseteq S
    BY <1>8 DEF NothingTooMuch
  <2>1. Traced \subseteq S
    BY <1>1 DEF TraceInv, NothingTooMuch
  <2>2. Fresh(p) \subseteq S
    BY <1>9, <2>1 DEF Fresh, ClosedUnder
  <2> QED
    BY <1>7, <2>1, <2>2
<1>11. LabelsAreSurrounded'
  <2> SUFFICES ASSUME NEW o \in _lable', NEW q \in lout(i + 1), InBounds(q), Adjacent(o, q)
               PROVE  q \in Traced'
    BY <1>8 DEF LabelsAreSurrounded, InBounds, Adjacent, nMinx, nMaxx, nMiny, nMaxy
  <2>1. CASE o \in _lable
    BY <1>1, <1>7, <2>1 DEF TraceInv, LabelsAreSurrounded
  <2>2. CASE o = p
    BY <1>7, <2>2 DEF Fresh, Traced
  <2> QED
    BY <1>4, <2>1, <2>2
<1>12. SeedsAreTraced'
  BY <1>1, <1>4, <1>7, <1>8 DEF TraceInv, SeedsAreTraced, Passed
<1>13. TracedIsReachable'
  BY <1>4 DEF TraceInv, TracedIsReachable, Seeds, ClosedUnder, hout, lout
<1> QED
  BY <1>1, <1>4, <1>6, <1>10, <1>11, <1>12, <1>13 DEF TraceInv

\* Finish copies out labels that are all that can be reached.
LEMMA FinishTraceInv == ASSUME EdgeAssumption, TraceInv, Finish PROVE TraceInv'
<1> USE DEF given
<1>1. /\ TypeOK /\ dst \in Seq(SUBSET Interior) /\ Len(dst) = i /\ i \in Nat
      /\ _lable \in SUBSET Interior /\ i < Len(lower) /\ Len(lower) \in Nat
  <2>1. TypeOK /\ tracing
    BY DEF TraceInv, Finish
  <2> QED
    BY <2>1, LenProperties DEF TypeOK
<1>2. /\ dst' \in Seq(SUBSET Interior) /\ Len(dst') = i + 1
      /\ \A k \in 1 .. i : dst'[k] = dst[k]
      /\ dst'[i + 1] = _lable
  BY <1>1, AppendProperties DEF Finish
<1>3. TypeOK'
  <2>1. i' = i + 1 /\ tracing' = FALSE /\ UNCHANGED <<given, at, _lable, points>>
    BY DEF Finish
  <2>2. i' \in 0 .. Len(lower)
    BY <1>1, <2>1
  <2> QED
    BY <1>1, <1>2, <2>1, <2>2 DEF TypeOK
<1>4. Traced = _lable
  BY DEF Finish, Traced, Range
<1>5. Seeds(i + 1) \subseteq _lable
  <2> SUFFICES ASSUME NEW p \in Seeds(i + 1) PROVE Passed(p)
    BY <1>4 DEF TraceInv, SeedsAreTraced, Finish
  <2>1. /\ p[1] \in Int /\ p[2] \in Int /\ nMinx <= p[1] /\ p[1] < nMaxx /\ p[2] < nMaxy
    BY DEF Seeds, hout, Pixels, EdgeAssumption
  <2>2. at[1] \in Nat /\ at[2] \in Nat /\ nMaxx \in Int /\ nMaxy \in Int
    BY <1>1 DEF TypeOK, nMaxx, nMaxy, EdgeAssumption
  <2>3. at[1] < nMaxx \/ at[1] = nMinx
    BY DEF TraceInv, Finish
  <2> QED
    BY <2>1, <2>2, <2>3 DEF Finish, ScanOver, Passed
<1>6. ClosedUnder(i + 1, _lable)
  BY <1>4 DEF TraceInv, LabelsAreSurrounded, ClosedUnder, Finish
<1>7. \A S \in SUBSET _lable : Seeds(i + 1) \subseteq S /\ ClosedUnder(i + 1, S) => S = _lable
  BY <1>1, <1>4 DEF TraceInv, NothingTooMuch, Finish
<1>8. TracedIsReachable'
  <2> SUFFICES ASSUME NEW j \in 1 .. i + 1
               PROVE  /\ Seeds(j) \subseteq dst'[j]
                      /\ ClosedUnder(j, dst'[j])
                      /\ \A S \in SUBSET dst'[j] :
                           Seeds(j) \subseteq S /\ ClosedUnder(j, S) => S = dst'[j]
    <3>1. Len(dst') = i + 1
      BY <1>2
    <3>2. \A j : Seeds(j)' = Seeds(j) /\ \A S : ClosedUnder(j, S)' <=> ClosedUnder(j, S)
      BY DEF Finish, Seeds, hout, lout, ClosedUnder
    <3> QED
      BY <3>1, <3>2 DEF TracedIsReachable
  <2>1. CASE j = i + 1
    BY <1>2, <1>5, <1>6, <1>7, <2>1
  <2>2. CASE j \in 1 .. i
    BY <1>1, <1>2, <2>2 DEF TraceInv, TracedIsReachable
  <2> QED
    BY <1>1, <2>1, <2>2
<1> QED
  BY <1>3, <1>8 DEF TraceInv, Finish

\* Every behaviour satisfies the invariant.
THEOREM Tracing == Spec => []TraceInv
<1>1. Init => TraceInv
  BY EdgeAssumption, InitTraceInv
<1>2. TraceInv /\ [Next]_vars => TraceInv'
  <2> SUFFICES ASSUME TraceInv, [Next]_vars PROVE TraceInv'
    OBVIOUS
  <2>1. CASE Start
    BY <2>1, EdgeAssumption, StartTraceInv
  <2>2. CASE Scan
    BY <2>2, EdgeAssumption, ScanTraceInv
  <2>3. CASE Fill
    BY <2>3, EdgeAssumption, FillTraceInv
  <2>4. CASE Finish
    BY <2>4, EdgeAssumption, FinishTraceInv
  <2>5. CASE UNCHANGED vars
    <3> USE <2>5 DEF vars, given
    <3>1. TypeOK'
      BY DEF TraceInv, TypeOK
    <3>2. Traced' = Traced
      BY DEF Traced, Range
    <3>3. /\ \A k : Seeds(k)' = Seeds(k) /\ lout(k)' = lout(k)
          /\ \A k, S : ClosedUnder(k, S)' <=> ClosedUnder(k, S)
      BY DEF Seeds, hout, lout, ClosedUnder
    <3>4. tracing => NothingTooMuch' /\ LabelsAreSurrounded' /\ SeedsAreTraced'
      BY <3>2, <3>3 DEF TraceInv, NothingTooMuch, LabelsAreSurrounded, SeedsAreTraced, Passed
    <3>5. TracedIsReachable'
      BY <3>3 DEF TraceInv, TracedIsReachable
    <3> QED
      BY <3>1, <3>4, <3>5 DEF TraceInv
  <2> QED
    BY <2>1, <2>2, <2>3, <2>4, <2>5 DEF Next
<1> QED
  BY <1>1, <1>2, PTL DEF Spec

-----------------------------------------------------------------------------
(* The theorems.                                                           *)

\* Every variable keeps its type; nothing outside the interior is labelled or pushed, so
\* stackfill neither reads nor writes beyond the rows of the image.
THEOREM TracingTypes == Spec => []TypeOK
BY Tracing, PTL DEF TraceInv

\* For every image and every list of thresholds, the label image of each pair is the
\* smallest set that holds the seeds and is closed under continuing the trace.
THEOREM Reachability == Spec => []TracedIsReachable
BY Tracing, PTL DEF TraceInv
=============================================================================
