-------------------------- MODULE ScanBuffersProofs --------------------------
(***************************************************************************)
(* Proofs about ScanBuffers, for any files and texts, any depth of         *)
(* inclusion, any size of the buffers and reads of any length: no buffer   *)
(* is written past its end (BuffersHold), and the scanner implements       *)
(* TokenStream.                                                            *)
(***************************************************************************)
EXTENDS ScanBuffers, SequenceTheorems, FiniteSetTheorems, WellFoundedInduction, TLAPS

-----------------------------------------------------------------------------
(* The inductive invariant.                                                *)

Chars == {"a", "blank", "quote"} \cup Files
Strings == Seq(Chars)

BufferType ==
  [chars : Strings, n : Nat, pos : Nat, size : Nat, file : Slots \cup {0},
   status : {"FREE", "NEW", "NORMAL", "EOF_PENDING"}, fill : BOOLEAN]

\* What was not yet read of the stream of a buffer.
Stream(b) == IF b.fill THEN unread[b.file] ELSE <<>>

\* The buffers of the open texts are the first ones, in the order of inclusion.
StackInv ==
  /\ saved \in Seq(Nat) /\ Depth \in 0 .. MAX_INCLUDE_DEPTH
  /\ \A i \in 1 .. Depth : saved[i] = i
  /\ current = Depth + 1
  /\ \A s \in Slots : buffers[s].status = "FREE" <=> s > current

\* A buffer holds no more than it has room for, and is filled from a stream of its own, of
\* which nothing is left when its end is pending.
BufferInv(s) ==
  LET b == buffers[s] IN
  /\ Len(b.chars) <= b.size
  /\ b.fill => b.file = s /\ b.size > 0
  /\ ~b.fill => b.file = 0
  /\ b.status = "EOF_PENDING" => Stream(b) = <<>>

\* The scanner's own idea of the current buffer.
ScannerInv ==
  /\ n_chars \in Nat /\ text_ptr \in Nat /\ matched \in Nat
  /\ MatchEnd <= n_chars /\ n_chars <= Len(Buffer.chars)
  /\ in = Buffer.file
  /\ Buffer.status = "NEW" => Buffer.n = n_chars

\* A match is acted on when it is the longest: another character follows, or none can.
StageInv ==
  /\ stage \in {"match", "act", "end of buffer"}
  /\ stage = "end of buffer" => matched = Len(Held) /\ RunHeld = Len(Held)
  /\ stage = "act" =>
       /\ Held # <<>>
       /\ matched = IF RunHeld > 0 THEN RunHeld ELSE 1
       /\ RunHeld < Len(Held) \/ Stream(Buffer) = <<>>

ScanInv ==
  /\ contents \in [Files -> Strings] /\ unread \in [Slots -> Strings]
  /\ buffers \in [Slots -> BufferType]
  /\ mode \in {"INITIAL", "STRING"}
  /\ StackInv
  /\ \A s \in 1 .. current : BufferInv(s)
  /\ \A s \in 1 .. Depth : buffers[s].pos <= buffers[s].n /\ buffers[s].n <= Len(buffers[s].chars)
  /\ ScannerInv /\ StageInv

-----------------------------------------------------------------------------
(* Sequences.                                                              *)

\* What is left of a sequence.
LEMMA LeftOf ==
  ASSUME NEW S, NEW s \in Seq(S), NEW n \in 0 .. Len(s), NEW m \in n .. Len(s)
  PROVE  /\ SubSeq(s, n + 1, m) \in Seq(S) /\ Len(SubSeq(s, n + 1, m)) = m - n
         /\ \A i \in 1 .. m - n : SubSeq(s, n + 1, m)[i] = s[n + i]
<1>1. \A i \in n + 1 .. m : s[i] \in S
  <2> TAKE i \in n + 1 .. m
  <2>1. i \in 1 .. Len(s)
    OBVIOUS
  <2> QED
    BY <2>1, ElementOfSeq
<1>2. n + 1 \in Int /\ m \in Int /\ n \in Int
  OBVIOUS
<1>3. /\ SubSeq(s, n + 1, m) \in Seq(S)
      /\ Len(SubSeq(s, n + 1, m)) = IF n + 1 <= m THEN m - (n + 1) + 1 ELSE 0
      /\ \A i \in 1 .. m - (n + 1) + 1 : SubSeq(s, n + 1, m)[i] = s[n + 1 + i - 1]
  BY <1>1, <1>2, SubSeqProperties
<1>4. \A i \in 1 .. m - n : n + 1 + i - 1 = n + i /\ i \in 1 .. m - (n + 1) + 1
  BY <1>2
<1> QED
  BY <1>2, <1>3, <1>4

\* To leave a part of the first of two sequences.
LEMMA LeftOfConcat ==
  ASSUME NEW S, NEW s \in Seq(S), NEW u \in Seq(S), NEW n \in 0 .. Len(s)
  PROVE  SubSeq(s \o u, n + 1, Len(s \o u)) = SubSeq(s, n + 1, Len(s)) \o u
<1> DEFINE w == s \o u
           a == SubSeq(w, n + 1, Len(w))
           d == SubSeq(s, n + 1, Len(s))
           b == d \o u
<1>1. /\ w \in Seq(S) /\ Len(w) = Len(s) + Len(u)
      /\ \A i \in 1 .. Len(s) + Len(u) : w[i] = IF i <= Len(s) THEN s[i] ELSE u[i - Len(s)]
  BY ConcatProperties
<1>2. Len(s) \in Nat /\ Len(u) \in Nat
  BY LenProperties
<1>3. n \in 0 .. Len(w) /\ Len(w) \in n .. Len(w) /\ Len(s) \in n .. Len(s)
  BY <1>1, <1>2
<1> HIDE DEF w
<1>4. /\ a \in Seq(S) /\ Len(a) = Len(w) - n /\ \A i \in 1 .. Len(w) - n : a[i] = w[n + i]
  BY <1>1, <1>3, LeftOf
<1>5. /\ d \in Seq(S) /\ Len(d) = Len(s) - n /\ \A i \in 1 .. Len(s) - n : d[i] = s[n + i]
  BY <1>3, LeftOf
<1> HIDE DEF a, d
<1>6. /\ b \in Seq(S) /\ Len(b) = Len(d) + Len(u)
      /\ \A i \in 1 .. Len(d) + Len(u) : b[i] = IF i <= Len(d) THEN d[i] ELSE u[i - Len(d)]
  BY <1>5, ConcatProperties
<1> HIDE DEF b
<1>7. Len(a) = Len(b)
  BY <1>1, <1>2, <1>4, <1>5, <1>6
<1>8. \A i \in 1 .. Len(a) : a[i] = b[i]
  <2> TAKE i \in 1 .. Len(a)
  <2>1. i \in 1 .. Len(w) - n /\ n + i \in 1 .. Len(s) + Len(u) /\ n \in Nat /\ i \in Nat
    BY <1>1, <1>2, <1>4
  <2>2. CASE i <= Len(d)
    <3>1. n + i <= Len(s) /\ i \in 1 .. Len(s) - n /\ i \in 1 .. Len(d) + Len(u)
      BY <1>2, <1>5, <2>1, <2>2
    <3>2. a[i] = w[n + i] /\ w[n + i] = s[n + i]
      BY <1>1, <1>4, <2>1, <3>1
    <3>3. b[i] = d[i] /\ d[i] = s[n + i]
      BY <1>5, <1>6, <2>2, <3>1
    <3> QED
      BY <3>2, <3>3
  <2>3. CASE ~(i <= Len(d))
    <3>1. /\ ~(n + i <= Len(s)) /\ n + i - Len(s) = i - Len(d)
          /\ i \in 1 .. Len(d) + Len(u)
      BY <1>2, <1>4, <1>5, <1>6, <1>7, <2>1, <2>3
    <3>2. a[i] = w[n + i] /\ w[n + i] = u[n + i - Len(s)]
      BY <1>1, <1>4, <2>1, <3>1
    <3>3. b[i] = u[i - Len(d)]
      BY <1>6, <2>3, <3>1
    <3> QED
      BY <3>1, <3>2, <3>3
  <2> QED
    BY <2>2, <2>3
<1> QED
  BY <1>4, <1>6, <1>7, <1>8, SeqEqual DEF a, b, d, w

\* A part of what is left is left.
LEMMA LeftOfLeft ==
  ASSUME NEW S, NEW s \in Seq(S), NEW n \in 0 .. Len(s), NEW m \in n .. Len(s),
         NEW k \in 0 .. m - n
  PROVE  SubSeq(SubSeq(s, n + 1, m), k + 1, m - n) = SubSeq(s, n + k + 1, m)
<1> DEFINE w == SubSeq(s, n + 1, m)
           a == SubSeq(w, k + 1, m - n)
           b == SubSeq(s, n + k + 1, m)
<1>1. w \in Seq(S) /\ Len(w) = m - n /\ \A i \in 1 .. m - n : w[i] = s[n + i]
  BY LeftOf
<1> HIDE DEF w
<1>2. m - n \in k .. Len(w) /\ k \in 0 .. Len(w) /\ n + k \in 0 .. Len(s) /\ m \in n + k .. Len(s)
  BY <1>1
<1>3. /\ a \in Seq(S) /\ Len(a) = m - n - k /\ \A i \in 1 .. m - n - k : a[i] = w[k + i]
  BY <1>1, <1>2, LeftOf
<1>4. /\ b \in Seq(S) /\ Len(b) = m - (n + k) /\ \A i \in 1 .. m - (n + k) : b[i] = s[n + k + i]
  BY <1>2, LeftOf
<1> HIDE DEF a, b
<1>5. Len(a) = Len(b)
  BY <1>3, <1>4
<1>6. \A i \in 1 .. Len(a) : a[i] = b[i]
  <2> TAKE i \in 1 .. Len(a)
  <2>1. k + i \in 1 .. m - n /\ n + (k + i) = n + k + i /\ i \in 1 .. m - n - k
          /\ i \in 1 .. m - (n + k)
    BY <1>3
  <2> QED
    BY <1>1, <1>3, <1>4, <2>1
<1> QED
  BY <1>3, <1>4, <1>5, <1>6, SeqEqual DEF a, b, w

\* Arithmetic of places in a buffer.
LEMMA FirstPlace == 0 + 1 = 1
OBVIOUS

\* All of a sequence.
LEMMA AllOfIt == ASSUME NEW S, NEW s \in Seq(S) PROVE SubSeq(s, 1, Len(s)) = s
<1> DEFINE a == SubSeq(s, 1, Len(s))
<1>1. Len(s) \in Nat
  BY LenProperties
<1>2. 0 \in 0 .. Len(s) /\ Len(s) \in 0 .. Len(s) /\ 0 + 1 = 1 /\ Len(s) - 0 = Len(s)
  BY <1>1
<1>3. /\ SubSeq(s, 0 + 1, Len(s)) \in Seq(S) /\ Len(SubSeq(s, 0 + 1, Len(s))) = Len(s) - 0
      /\ \A i \in 1 .. Len(s) - 0 : SubSeq(s, 0 + 1, Len(s))[i] = s[0 + i]
  BY <1>2, LeftOf
<1>4. \A i \in 1 .. Len(s) : 0 + i = i
  BY <1>1
<1>5. a \in Seq(S) /\ Len(a) = Len(s) /\ \A i \in 1 .. Len(s) : a[i] = s[i]
  BY <1>2, <1>3, <1>4
<1> HIDE DEF a
<1>6. a = s
  BY <1>5, SeqEqual
<1> QED
  BY <1>6 DEF a

\* A sequence that is cut in two and put together again.
LEMMA CutInTwo ==
  ASSUME NEW S, NEW s \in Seq(S), NEW k \in 0 .. Len(s)
  PROVE  /\ SubSeq(s, 1, k) \in Seq(S) /\ SubSeq(s, k + 1, Len(s)) \in Seq(S)
         /\ SubSeq(s, 1, k) \o SubSeq(s, k + 1, Len(s)) = s
<1>1. Len(s) \in Nat
  BY LenProperties
<1>2. SubSeq(s, 1, k) \in Seq(S)
  <2>1. 0 \in 0 .. Len(s) /\ k \in 0 .. Len(s)
    BY <1>1
  <2>2. SubSeq(s, 0 + 1, k) \in Seq(S)
    BY <2>1, LeftOf
  <2> QED
    BY <2>2, FirstPlace, Zenon
<1>3. SubSeq(s, k + 1, Len(s)) \in Seq(S)
  <2>1. Len(s) \in k .. Len(s)
    BY <1>1
  <2> QED
    BY <2>1, LeftOf
<1>4. SubSeq(s, 1, k) \o SubSeq(s, k + 1, Len(s)) = SubSeq(s, 1, Len(s))
  <2>1. 1 \in 1 .. Len(s) + 1 /\ k \in 1 - 1 .. Len(s) /\ Len(s) \in k .. Len(s)
    BY <1>1
  <2> QED
    BY <2>1, ConcatAdjacentSubSeq
<1> QED
  BY <1>2, <1>3, <1>4, AllOfIt

-----------------------------------------------------------------------------
(* Runs, and the size of a buffer.                                         *)

\* Among finite sets there is one with no other below it.
LEMMA LeastSubset ==
  ASSUME NEW T, \A A \in T : IsFiniteSet(A), T # {}
  PROVE \E A \in T : \A B \in T : B \subseteq A => B = A
<1>1. T \subseteq FiniteSubsetsOf(UNION T)
  BY DEF FiniteSubsetsOf
<1>2. PICK A \in T : \A B \in T : <<B, A>> \notin StrictSubsetOrdering(UNION T)
  BY <1>1, FS_StrictSubsetOrderingWellFounded, WFMin
<1> QED
  BY <1>2 DEF StrictSubsetOrdering

\* A set of natural numbers has a least one.
LEMMA NatMin ==
  ASSUME NEW T \in SUBSET Nat, T # {}
  PROVE  \E x \in T : \A y \in T : x <= y
<1> DEFINE U == {A \in SUBSET Nat : \E x \in T : A = 0 .. x}
<1>1. \A x \in T : 0 .. x \in U
  OBVIOUS
<1>2. U # {}
  BY <1>1
<1>3. \A A \in U : IsFiniteSet(A)
  <2> SUFFICES ASSUME NEW x \in T PROVE IsFiniteSet(0 .. x)
    OBVIOUS
  <2> QED BY FS_Interval
<1>4. \A A \in U : \E x \in T : A = 0 .. x
  OBVIOUS
<1> HIDE DEF U
<1>5. PICK A \in U : \A B \in U : B \subseteq A => B = A
  BY <1>2, <1>3, LeastSubset
<1>6. PICK x \in T : A = 0 .. x
  BY <1>4
<1>7. ASSUME NEW y \in T PROVE x <= y
  <2>1. 0 .. y \in U
    BY <1>1
  <2>2. y < x => 0 .. y \subseteq 0 .. x /\ x \in 0 .. x /\ x \notin 0 .. y
    OBVIOUS
  <2>3. x \in Nat /\ y \in Nat
    OBVIOUS
  <2> QED
    BY <2>1, <2>2, <2>3, <1>5, <1>6
<1> QED
  BY <1>7

\* The run at the beginning of a sequence, which ends where a character is not in the class.
IsRun(s, class, n) ==
  /\ n \in 0 .. Len(s)
  /\ \A i \in 1 .. n : s[i] \in class
  /\ n < Len(s) => s[n + 1] \notin class

\* There is one run,
LEMMA RunExists ==
  ASSUME NEW S, NEW s \in Seq(S), NEW class
  PROVE  \E n \in 0 .. Len(s) : IsRun(s, class, n)
<1> DEFINE T == {n \in 0 .. Len(s) : n < Len(s) => s[n + 1] \notin class}
<1>1. Len(s) \in Nat
  BY LenProperties
<1>2. T \in SUBSET Nat /\ T # {}
  <2>1. Len(s) \in T
    BY <1>1
  <2> QED
    BY <1>1, <2>1
<1>3. PICK n \in T : \A m \in T : n <= m
  <2> HIDE DEF T
  <2> QED
    BY <1>2, NatMin
<1>4. n \in 0 .. Len(s) /\ (n < Len(s) => s[n + 1] \notin class)
  OBVIOUS
<1>5. ASSUME NEW i \in 1 .. n PROVE s[i] \in class
  <2>1. i - 1 \in 0 .. Len(s) /\ i - 1 < Len(s) /\ ~(n <= i - 1) /\ (i - 1) + 1 = i
    BY <1>1, <1>4
  <2>2. i - 1 \notin T
    BY <1>3, <2>1
  <2> QED
    BY <2>1, <2>2
<1> QED
  BY <1>4, <1>5 DEF IsRun

\* and no other.
LEMMA RunIsOne ==
  ASSUME NEW S, NEW s \in Seq(S), NEW class, NEW n, NEW m,
         IsRun(s, class, n), IsRun(s, class, m)
  PROVE  n = m
<1>1. Len(s) \in Nat /\ n \in 0 .. Len(s) /\ m \in 0 .. Len(s)
  BY LenProperties DEF IsRun
<1>2. ~(n < m)
  <2> SUFFICES ASSUME n < m PROVE FALSE
    OBVIOUS
  <2>1. n < Len(s) /\ n + 1 \in 1 .. m
    BY <1>1
  <2> QED
    BY <2>1 DEF IsRun
<1>3. ~(m < n)
  <2> SUFFICES ASSUME m < n PROVE FALSE
    OBVIOUS
  <2>1. m < Len(s) /\ m + 1 \in 1 .. n
    BY <1>1
  <2> QED
    BY <2>1 DEF IsRun
<1> QED
  BY <1>1, <1>2, <1>3

\* RunLength is its length.
LEMMA RunLengthIs ==
  ASSUME NEW S, NEW s \in Seq(S), NEW class
  PROVE  /\ IsRun(s, class, Tokens!RunLength(s, class))
         /\ \A n : IsRun(s, class, n) => Tokens!RunLength(s, class) = n
<1>1. IsRun(s, class, Tokens!RunLength(s, class))
  <2> DEFINE Q(n) == /\ \A i \in 1 .. n : s[i] \in class
                     /\ n < Len(s) => s[n + 1] \notin class
  <2>1. \E n \in 0 .. Len(s) : Q(n)
    BY RunExists DEF IsRun
  <2>2. Tokens!RunLength(s, class) = CHOOSE n \in 0 .. Len(s) : Q(n)
    BY DEF Tokens!RunLength
  <2> HIDE DEF Q
  <2>3. Tokens!RunLength(s, class) \in 0 .. Len(s) /\ Q(Tokens!RunLength(s, class))
    BY <2>1, <2>2
  <2> QED
    BY <2>3 DEF IsRun, Q
<1> QED
  BY <1>1, RunIsOne

\* What follows does not lengthen a run that ends inside.
LEMMA RunOfConcat ==
  ASSUME NEW S, NEW s \in Seq(S), NEW u \in Seq(S), NEW class,
         Tokens!RunLength(s, class) < Len(s) \/ u = <<>>
  PROVE  Tokens!RunLength(s \o u, class) = Tokens!RunLength(s, class)
<1> DEFINE n == Tokens!RunLength(s, class)
<1>1. IsRun(s, class, n)
  BY RunLengthIs
<1>2. CASE u = <<>>
  BY <1>2, ConcatEmptySeq
<1>3. CASE n < Len(s)
  <2>1. /\ s \o u \in Seq(S) /\ Len(s \o u) = Len(s) + Len(u)
        /\ \A i \in 1 .. Len(s) + Len(u) : (s \o u)[i] = IF i <= Len(s) THEN s[i] ELSE u[i - Len(s)]
    BY ConcatProperties
  <2>2. Len(s) \in Nat /\ Len(u) \in Nat
    BY LenProperties
  <2> HIDE DEF n
  <2>3. n \in 0 .. Len(s)
    BY <1>1 DEF IsRun
  <2>4. \A i \in 1 .. n + 1 : i \in 1 .. Len(s) + Len(u) /\ i <= Len(s) /\ (s \o u)[i] = s[i]
    BY <1>3, <2>1, <2>2, <2>3
  <2>5. IsRun(s \o u, class, n)
    <3>1. n \in 0 .. Len(s \o u)
      BY <2>1, <2>2, <2>3
    <3>2. \A i \in 1 .. n : (s \o u)[i] \in class
      BY <1>1, <2>3, <2>4 DEF IsRun
    <3>3. (s \o u)[n + 1] \notin class
      BY <1>1, <1>3, <2>3, <2>4 DEF IsRun
    <3> QED
      BY <3>1, <3>2, <3>3 DEF IsRun
  <2> QED
    BY <2>1, <2>5, RunLengthIs DEF n
<1> QED
  BY <1>2, <1>3

\* The sizes that doubling leads to.
Doublings(s) ==
  {g \in Nat : \A A \in SUBSET Nat : s \in A /\ (\A x \in A : x * 2 \in A) => g \in A}

\* One is the size itself, and the others those that its double leads to.
LEMMA DoublingsSplit ==
  ASSUME NEW s \in Nat PROVE Doublings(s) = {s} \cup Doublings(s * 2)
<1>1. s \in Doublings(s)
  BY DEF Doublings
<1>2. Doublings(s * 2) \subseteq Doublings(s)
  BY DEF Doublings
<1>3. Doublings(s) \subseteq {s} \cup Doublings(s * 2)
  <2> DEFINE A == {s} \cup Doublings(s * 2)
  <2>1. A \in SUBSET Nat
    BY DEF Doublings
  <2>2. s * 2 \in Doublings(s * 2)
    BY DEF Doublings
  <2>3. \A x \in Doublings(s * 2) : x * 2 \in Doublings(s * 2)
    BY DEF Doublings
  <2>4. s \in A /\ \A x \in A : x * 2 \in A
    BY <2>2, <2>3
  <2> HIDE DEF A
  <2>5. Doublings(s) \subseteq A
    BY <2>1, <2>4 DEF Doublings
  <2> QED
    BY <2>5 DEF A
<1> QED
  BY <1>1, <1>2, <1>3

\* They are no smaller.
LEMMA DoublingsGrow == ASSUME NEW s \in Nat PROVE \A g \in Doublings(s) : s <= g
<1> DEFINE A == {x \in Nat : s <= x}
<1>1. A \in SUBSET Nat /\ s \in A /\ \A x \in A : x * 2 \in A
  OBVIOUS
<1>2. \A g \in Doublings(s) : g \in A
  <2> HIDE DEF A
  <2> QED
    BY <1>1 DEF Doublings
<1> QED
  BY <1>2

\* The recursion of Grown has a solution, the least of those sizes with room,
Least(T) == CHOOSE x \in T : \A y \in T : x <= y
FirstWithRoom(s, moved) == Least({g \in Doublings(s) : Room(g, moved) > 0})

LEMMA FirstWithRoomRecurs ==
  ASSUME NEW s \in Nat, NEW moved \in Nat
  PROVE  FirstWithRoom(s, moved) =
           IF Room(s, moved) > 0 THEN s ELSE FirstWithRoom(s * 2, moved)
<1> DEFINE T(n) == {g \in Doublings(n) : Room(g, moved) > 0}
<1>1. CASE Room(s, moved) > 0
  <2>1. s \in T(s) /\ \A g \in T(s) : s <= g
    BY <1>1, DoublingsSplit, DoublingsGrow
  <2>2. T(s) \subseteq Nat
    BY DEF Doublings
  <2> HIDE DEF T
  <2>3. \A x \in T(s) : (\A y \in T(s) : x <= y) => x = s
    BY <2>1, <2>2
  <2>4. Least(T(s)) = s
    BY <2>1, <2>3 DEF Least
  <2> QED
    BY <1>1, <2>4 DEF FirstWithRoom, T
<1>2. CASE ~(Room(s, moved) > 0)
  <2>1. T(s) = T(s * 2)
    BY <1>2, DoublingsSplit
  <2> QED
    BY <1>2, <2>1 DEF FirstWithRoom
<1> QED
  BY <1>1, <1>2

\* so Grown, whatever solution it is, follows it.
LEMMA GrownRecurs ==
  ASSUME NEW s \in Nat, NEW moved \in Nat
  PROVE  Grown(s, moved) = IF Room(s, moved) > 0 THEN s ELSE Grown(s * 2, moved)
<1> DEFINE F(f) == [n \in Nat |-> IF Room(n, moved) > 0 THEN n ELSE f[n * 2]]
           g == [n \in Nat |-> FirstWithRoom(n, moved)]
           h == CHOOSE f : f = F(f)
<1>1. g = F(g)
  <2>1. \A n \in Nat : g[n] = IF Room(n, moved) > 0 THEN n ELSE g[n * 2]
    <3> TAKE n \in Nat
    <3>1. n * 2 \in Nat
      OBVIOUS
    <3> QED
      BY <3>1, FirstWithRoomRecurs
  <2> QED
    BY <2>1
<1>2. h = F(h)
  <2>1. \E f : f = F(f)
    BY <1>1
  <2> HIDE DEF F
  <2> QED
    BY <2>1
<1>3. \A n \in Nat : Grown(n, moved) = h[n]
  BY DEF Grown
<1> HIDE DEF h
<1>4. h[s] = IF Room(s, moved) > 0 THEN s ELSE h[s * 2]
  BY <1>2
<1> QED
  BY <1>3, <1>4

\* A buffer that has any room at first grows until there is room behind what was moved.
LEMMA GrownHasRoom ==
  ASSUME NEW s \in Nat, s > 0, NEW moved \in Nat
  PROVE  Grown(s, moved) \in Nat /\ Room(Grown(s, moved), moved) > 0
<1> DEFINE Good(n) == Grown(n, moved) \in Nat /\ Room(Grown(n, moved), moved) > 0
           Missing(n) == moved + 2 - n
           Bad == {n \in Nat : n > 0 /\ ~Good(n)}
           T == {Missing(n) : n \in Bad}
<1>1. \A n \in Bad : ~(Room(n, moved) > 0) /\ n * 2 \in Bad
  <2> TAKE n \in Bad
  <2>1. n \in Nat /\ n > 0 /\ ~Good(n) /\ n * 2 \in Nat /\ n * 2 > 0
    OBVIOUS
  <2>2. Grown(n, moved) = IF Room(n, moved) > 0 THEN n ELSE Grown(n * 2, moved)
    BY GrownRecurs
  <2> QED
    BY <2>1, <2>2
<1> HIDE DEF Good
<1>2. T \subseteq Nat
  <2> SUFFICES ASSUME NEW n \in Bad PROVE Missing(n) \in Nat
    OBVIOUS
  <2>1. ~(n - moved - 1 > 0) /\ n \in Nat
    BY <1>1 DEF Room
  <2> QED
    BY <2>1
<1>3. Bad = {}
  <2> SUFFICES ASSUME Bad # {} PROVE FALSE
    OBVIOUS
  <2>1. PICK t \in T : \A u \in T : t <= u
    <3>1. T \in SUBSET Nat /\ T # {}
      BY <1>2
    <3> HIDE DEF T
    <3> QED
      BY <3>1, NatMin
  <2>2. PICK n \in Bad : t = Missing(n)
    OBVIOUS
  <2>3. Missing(n * 2) \in T /\ n \in Nat /\ n > 0
    BY <1>1, <2>2
  <2>4. Missing(n * 2) < Missing(n)
    BY <2>3
  <2>5. Missing(n) <= Missing(n * 2)
    BY <2>1, <2>2, <2>3
  <2> QED
    BY <1>2, <2>3, <2>4, <2>5
<1> QED
  BY <1>3 DEF Good

-----------------------------------------------------------------------------
(* What the invariant says of the current buffer.                          *)

\* There is a slot for the buffer of every open text.
LEMMA CurrentSlot ==
  ASSUME ScanAssumption, ScanInv
  PROVE  /\ Depth \in Nat /\ Depth <= MAX_INCLUDE_DEPTH /\ MAX_INCLUDE_DEPTH \in Nat
         /\ current = Depth + 1 /\ current \in Slots /\ 1 .. current \subseteq Slots
         /\ current \in 1 .. current /\ Slots \subseteq Nat
<1>1. Depth \in 0 .. MAX_INCLUDE_DEPTH /\ current = Depth + 1 /\ MAX_INCLUDE_DEPTH \in Nat
  BY DEF ScanInv, StackInv, ScanAssumption
<1> QED
  BY <1>1 DEF Slots

\* The current buffer and what it holds of the text.
LEMMA CurrentBuffer ==
  ASSUME ScanAssumption, ScanInv
  PROVE  /\ Buffer \in BufferType /\ BufferInv(current)
         /\ Held \in Strings /\ Len(Held) = n_chars - text_ptr
         /\ \A i \in 1 .. n_chars - text_ptr : Held[i] = Buffer.chars[text_ptr + i]
         /\ text_ptr \in 0 .. n_chars /\ n_chars \in 0 .. Len(Buffer.chars)
         /\ matched \in 0 .. Len(Held)
         /\ Len(Buffer.chars) \in Nat
<1>1. Buffer \in BufferType /\ BufferInv(current)
  BY CurrentSlot DEF ScanInv, Buffer
<1>2. Buffer.chars \in Strings
  BY <1>1 DEF BufferType
<1>3. Len(Buffer.chars) \in Nat
  BY <1>2, LenProperties DEF Strings
<1>4. /\ n_chars \in Nat /\ text_ptr \in Nat /\ matched \in Nat
      /\ text_ptr + matched <= n_chars /\ n_chars <= Len(Buffer.chars)
  BY DEF ScanInv, ScannerInv, MatchEnd
<1>5. text_ptr \in 0 .. Len(Buffer.chars) /\ n_chars \in text_ptr .. Len(Buffer.chars)
  BY <1>3, <1>4
<1>6. /\ Held \in Strings /\ Len(Held) = n_chars - text_ptr
      /\ \A i \in 1 .. n_chars - text_ptr : Held[i] = Buffer.chars[text_ptr + i]
  BY <1>2, <1>5, LeftOf DEF Strings, Held
<1> QED
  BY <1>1, <1>3, <1>4, <1>6

\* What was not yet read of an open text.
LEMMA StreamType ==
  ASSUME ScanAssumption, ScanInv, NEW s \in 1 .. current
  PROVE  Stream(buffers[s]) \in Strings
<1>1. s \in Slots /\ unread \in [Slots -> Strings] /\ BufferInv(s)
  BY CurrentSlot DEF ScanInv
<1>2. <<>> \in Strings
  BY DEF Strings
<1> QED
  BY <1>1, <1>2 DEF Stream, BufferInv

\* A new buffer that is first at its end changes its status only.
LEMMA FreshIs ==
  ASSUME ScanAssumption, ScanInv
  PROVE  /\ Fresh(Buffer) = [Buffer EXCEPT !.status = IF @ = "NEW" THEN "NORMAL" ELSE @]
         /\ Fresh(Buffer) \in BufferType /\ Fresh(Buffer).status # "NEW"
         /\ Fresh(Buffer).chars = Buffer.chars /\ Fresh(Buffer).file = Buffer.file
         /\ Fresh(Buffer).fill = Buffer.fill /\ Fresh(Buffer).size = Buffer.size
         /\ Fresh(Buffer).pos = Buffer.pos
         /\ Fresh(Buffer).status = "EOF_PENDING" <=> Buffer.status = "EOF_PENDING"
         /\ Fresh(Buffer).status = "FREE" <=> Buffer.status = "FREE"
         /\ NChars = n_chars
<1>1. Buffer \in BufferType /\ in = Buffer.file
  BY CurrentBuffer DEF ScanInv, ScannerInv
<1>2. Buffer.status = "NEW" => Buffer.n = n_chars
  BY DEF ScanInv, ScannerInv
<1>3. NChars = n_chars
  BY <1>2 DEF NChars
<1>4. Fresh(Buffer) = [Buffer EXCEPT !.status = IF @ = "NEW" THEN "NORMAL" ELSE @]
  <2>1. CASE Buffer.status = "NEW"
    BY <1>1, <2>1 DEF Fresh, BufferType
  <2>2. CASE Buffer.status # "NEW"
    BY <1>1, <2>2 DEF Fresh, BufferType
  <2> QED
    BY <2>1, <2>2
<1>5. [Buffer EXCEPT !.status = IF @ = "NEW" THEN "NORMAL" ELSE @] \in BufferType
  BY <1>1 DEF BufferType
<1>6. \A b \in BufferType : LET f == [b EXCEPT !.status = IF @ = "NEW" THEN "NORMAL" ELSE @] IN
        /\ f.chars = b.chars /\ f.file = b.file /\ f.fill = b.fill /\ f.size = b.size
        /\ f.pos = b.pos /\ f.status # "NEW"
        /\ f.status = "EOF_PENDING" <=> b.status = "EOF_PENDING"
        /\ f.status = "FREE" <=> b.status = "FREE"
  BY DEF BufferType
<1> QED
  BY <1>1, <1>3, <1>4, <1>5, <1>6

\* The run at the beginning of what the buffer holds.
LEMMA HeldRun ==
  ASSUME ScanAssumption, ScanInv
  PROVE  IsRun(Held, Tokens!RunClass(mode), RunHeld) /\ RunHeld \in 0 .. Len(Held)
<1>1. IsRun(Held, Tokens!RunClass(mode), RunHeld)
  BY CurrentBuffer, RunLengthIs DEF Strings, RunHeld
<1> QED
  BY <1>1 DEF IsRun

-----------------------------------------------------------------------------
(* The steps.                                                              *)

\* Before the first match nothing is held of a file, and all of a string.
LEMMA InitScanInv ==
  ASSUME ScanAssumption, Init PROVE ScanInv
<1>1. PICK root \in Files :
        LET first == IF source = "file" THEN NewBuffer(1) ELSE ScanBytes(contents[root]) IN
        /\ unread = [s \in Slots |-> IF s = 1 /\ source = "file" THEN contents[root] ELSE <<>>]
        /\ buffers = [s \in Slots |-> IF s = 1 THEN first ELSE NoBuffer]
        /\ n_chars = first.n /\ in = first.file
  BY DEF Init
<1> DEFINE first == IF source = "file" THEN NewBuffer(1) ELSE ScanBytes(contents[root])
<1>2. /\ current = 1 /\ saved = <<>> /\ text_ptr = 0 /\ matched = 0 /\ stage = "match"
      /\ mode = "INITIAL" /\ contents \in [Files -> Texts]
  BY DEF Init
<1>3. contents \in [Files -> Strings] /\ contents[root] \in Strings /\ <<>> \in Strings
        /\ Len(<<>>) = 0
  BY <1>2 DEF ScanAssumption, Strings, Chars
<1>4. Len(contents[root]) \in Nat
  BY <1>3, LenProperties DEF Strings
<1>5. MAX_INCLUDE_DEPTH \in Nat /\ 1 \in Slots /\ Slots \subseteq Nat
        /\ \A s \in Slots : s >= 1
  BY DEF ScanAssumption, Slots
<1>6. /\ first \in BufferType /\ first.status = "NEW" /\ first.pos = 0
      /\ Len(first.chars) <= first.size /\ first.n = Len(first.chars)
      /\ first.fill => first.file = 1 /\ first.size > 0
      /\ ~first.fill => first.file = 0
      /\ first.n \in Nat
  <2>1. CASE source = "file"
    <3>1. first = [chars |-> <<>>, n |-> 0, pos |-> 0, size |-> YY_BUF_SIZE, file |-> 1,
                   status |-> "NEW", fill |-> TRUE]
      BY <2>1 DEF NewBuffer, Initialised, Flushed, NoBuffer
    <3>2. YY_BUF_SIZE \in Nat /\ YY_BUF_SIZE > 0
      BY DEF ScanAssumption
    <3> HIDE DEF first
    <3> QED
      BY <1>3, <1>5, <3>1, <3>2 DEF BufferType
  <2>2. CASE source # "file"
    <3>1. first = [chars |-> contents[root], n |-> Len(contents[root]), pos |-> 0,
                   size |-> Len(contents[root]), file |-> 0, status |-> "NEW", fill |-> FALSE]
      BY <2>2 DEF ScanBytes, ScanBuffer
    <3> HIDE DEF first
    <3> QED
      BY <1>3, <1>4, <3>1 DEF BufferType
  <2> QED
    BY <2>1, <2>2
<1>7. NoBuffer \in BufferType /\ NoBuffer.status = "FREE"
  BY <1>3 DEF NoBuffer, BufferType
<1> HIDE DEF first
<1>8. buffers \in [Slots -> BufferType] /\ buffers[1] = first
        /\ \A s \in Slots : s # 1 => buffers[s] = NoBuffer
  BY <1>1, <1>5, <1>6, <1>7 DEF first
<1>9. unread \in [Slots -> Strings]
  BY <1>1, <1>3
<1>10. Buffer = first /\ n_chars = first.n /\ in = first.file
  BY <1>1, <1>2, <1>8 DEF Buffer, first
<1>11. StackInv
  <2>1. \A s \in Slots : buffers[s].status = "FREE" <=> s > 1
    BY <1>5, <1>6, <1>7, <1>8
  <2> QED
    BY <1>2, <1>5, <2>1 DEF StackInv, Depth
<1>12. BufferInv(1)
  BY <1>6, <1>8 DEF BufferInv
<1>13. ScannerInv
  BY <1>2, <1>6, <1>10 DEF ScannerInv, MatchEnd
<1>14. StageInv
  BY <1>2 DEF StageInv
<1>15. (\A s \in 1 .. current : s = 1) /\ 1 .. Depth = {}
  BY <1>2 DEF Depth
<1> QED
  BY <1>2, <1>3, <1>8, <1>9, <1>11, <1>12, <1>13, <1>14, <1>15 DEF ScanInv

\* Arithmetic of places in a buffer.
LEMMA WithinSum ==
  ASSUME NEW k \in Nat, NEW n \in Nat, NEW m \in Nat, k <= n - m PROVE m + k <= n
OBVIOUS

\* A match is found, or the end of what is held.
LEMMA MatchScanInv ==
  ASSUME ScanAssumption, ScanInv, Match PROVE ScanInv'
<1>1. /\ UNCHANGED <<contents, saved, current, unread, buffers, n_chars, text_ptr, in, mode>>
      /\ IF RunHeld = Len(Held) THEN matched' = RunHeld /\ stage' = "end of buffer"
         ELSE matched' = (IF RunHeld > 0 THEN RunHeld ELSE 1) /\ stage' = "act"
  BY DEF Match, tokenVars
<1>2. RunHeld \in 0 .. Len(Held) /\ Len(Held) = n_chars - text_ptr /\ Held \in Strings
      /\ n_chars \in Nat /\ text_ptr \in Nat
  BY HeldRun, CurrentBuffer
<1>3. Held' = Held /\ RunHeld' = RunHeld /\ Buffer' = Buffer
  BY <1>1 DEF Held, RunHeld, Buffer, Tokens!RunClass, Tokens!RunLength
<1>4. matched' \in Nat /\ matched' <= Len(Held)
  <2>1. Len(Held) \in Nat /\ RunHeld \in Nat /\ RunHeld <= Len(Held)
    BY <1>2, LenProperties DEF Strings
  <2>2. CASE RunHeld > 0 \/ RunHeld = Len(Held)
    BY <1>1, <2>1, <2>2
  <2>3. CASE RunHeld = 0 /\ RunHeld # Len(Held)
    BY <1>1, <2>1, <2>3
  <2> QED
    BY <2>1, <2>2, <2>3
<1>5. ScannerInv'
  <2>1. text_ptr + matched' <= n_chars
    <3>1. matched' <= n_chars - text_ptr
      BY <1>2, <1>4
    <3> QED
      BY <1>2, <1>4, <3>1, WithinSum
  <2> QED
    BY <1>1, <1>3, <1>4, <2>1 DEF ScanInv, ScannerInv, MatchEnd
<1>6. StageInv'
  <2>1. RunHeld # Len(Held) => RunHeld < Len(Held) /\ Held # <<>>
    BY <1>2
  <2> QED
    BY <1>1, <1>3, <2>1 DEF StageInv
<1>7. StackInv' /\ \A s : BufferInv(s)' = BufferInv(s)
  BY <1>1 DEF ScanInv, StackInv, Depth, BufferInv, Stream
<1> QED
  BY <1>1, <1>5, <1>6, <1>7 DEF ScanInv, Depth

\* A rule acts, and the scanner goes on behind the match.
LEMMA AdvanceScanInv ==
  ASSUME ScanAssumption, ScanInv, Advance, mode' \in {"INITIAL", "STRING"} PROVE ScanInv'
<1>1. /\ text_ptr' = MatchEnd /\ matched' = 0 /\ stage' = "match"
      /\ UNCHANGED <<contents, current, saved, unread, buffers, n_chars, in>>
  BY DEF Advance
<1>2. Buffer' = Buffer
  BY <1>1 DEF Buffer
<1>3. ScannerInv'
  BY <1>1, <1>2 DEF ScanInv, ScannerInv, MatchEnd
<1>4. StackInv' /\ \A s : BufferInv(s)' = BufferInv(s)
  BY <1>1 DEF ScanInv, StackInv, Depth, BufferInv, Stream
<1> QED
  BY <1>1, <1>3, <1>4 DEF ScanInv, Depth, StageInv

\* An initialised buffer.
LEMMA InitialisedIs ==
  ASSUME NEW b \in BufferType, NEW f \in Slots
  PROVE  /\ Initialised(b, f) \in BufferType /\ Initialised(b, f).chars = <<>>
         /\ Initialised(b, f).n = 0 /\ Initialised(b, f).pos = 0
         /\ Initialised(b, f).size = b.size /\ Initialised(b, f).status = "NEW"
         /\ Initialised(b, f).file = f /\ Initialised(b, f).fill
<1> DEFINE flushed == Flushed(b)
           i == [flushed EXCEPT !.file = f, !.fill = TRUE]
<1>1. /\ flushed \in BufferType /\ flushed.chars = <<>> /\ flushed.n = 0
      /\ flushed.pos = 0 /\ flushed.size = b.size /\ flushed.status = "NEW"
  <2>1. <<>> \in Strings
    BY DEF Strings
  <2> QED
    BY <2>1 DEF BufferType, Flushed
<1> HIDE DEF flushed
<1>2. /\ i \in BufferType /\ i.chars = flushed.chars /\ i.n = flushed.n
      /\ i.pos = flushed.pos /\ i.size = flushed.size /\ i.status = flushed.status
      /\ i.file = f /\ i.fill
  BY <1>1 DEF BufferType
<1>3. Initialised(b, f) = i
  BY Zenon DEF Initialised, flushed
<1> HIDE DEF i
<1> QED
  BY <1>1, <1>2, <1>3

\* A new buffer.
LEMMA NewBufferIs ==
  ASSUME ScanAssumption, NEW s \in Slots
  PROVE  /\ NewBuffer(s) \in BufferType /\ NewBuffer(s).chars = <<>> /\ NewBuffer(s).n = 0
         /\ NewBuffer(s).pos = 0 /\ NewBuffer(s).size = YY_BUF_SIZE
         /\ NewBuffer(s).file = s /\ NewBuffer(s).status = "NEW" /\ NewBuffer(s).fill
<1>1. NoBuffer \in BufferType
  BY DEF NoBuffer, BufferType, Strings
<1> DEFINE sized == [NoBuffer EXCEPT !.size = YY_BUF_SIZE]
<1>2. sized \in BufferType /\ sized.size = YY_BUF_SIZE
  <2>1. YY_BUF_SIZE \in Nat
    BY DEF ScanAssumption
  <2> QED
    BY <1>1, <2>1 DEF BufferType
<1> HIDE DEF sized
<1>3. NewBuffer(s) = Initialised(sized, s)
  BY Zenon DEF NewBuffer, sized
<1> QED
  BY <1>2, <1>3, InitialisedIs

\* The buffers when the position in the current one is put back.
LEMMA SavedIs ==
  ASSUME ScanAssumption, ScanInv
  PROVE  /\ Saved(buffers) \in [Slots -> BufferType]
         /\ Saved(buffers)[current] = [Buffer EXCEPT !.pos = MatchEnd, !.n = n_chars]
         /\ \A s \in Slots : s # current => Saved(buffers)[s] = buffers[s]
<1>1. buffers \in [Slots -> BufferType] /\ current \in Slots /\ Buffer \in BufferType
        /\ Buffer = buffers[current]
  BY CurrentSlot, CurrentBuffer DEF ScanInv, Buffer
<1> DEFINE new == [Buffer EXCEPT !.pos = MatchEnd, !.n = n_chars]
<1>2. MatchEnd \in Nat /\ n_chars \in Nat
  BY DEF ScanInv, ScannerInv, MatchEnd
<1>3. new \in BufferType
  BY <1>1, <1>2 DEF BufferType
<1>4. Saved(buffers) = [buffers EXCEPT ![current] = new]
  BY <1>1 DEF Saved, BufferType
<1> HIDE DEF new
<1>5. /\ Saved(buffers) \in [Slots -> BufferType] /\ Saved(buffers)[current] = new
      /\ \A s \in Slots : s # current => Saved(buffers)[s] = buffers[s]
  BY <1>1, <1>3, <1>4
<1> QED
  BY <1>5 DEF new

\* A text is included: the buffer waits where the match ends, and a new one is the current one.
LEMMA IncludeScanInv ==
  ASSUME ScanAssumption, ScanInv, ActInclude, Depth # MAX_INCLUDE_DEPTH PROVE ScanInv'
<1> DEFINE new == Depth + 2
<1>1. /\ saved' = Append(saved, current) /\ unread' = [unread EXCEPT ![new] = contents[First]]
      /\ buffers' = [Saved(buffers) EXCEPT ![new] = NewBuffer(new)] /\ current' = new
      /\ n_chars' = NewBuffer(new).n /\ text_ptr' = NewBuffer(new).pos /\ matched' = 0
      /\ in' = NewBuffer(new).file /\ stage' = "match"
      /\ UNCHANGED <<contents, mode>> /\ First \in Files
  BY DEF ActInclude, Load, tokenVars
<1>2. /\ Depth \in Nat /\ current = Depth + 1 /\ current \in Slots /\ Depth < MAX_INCLUDE_DEPTH
      /\ Slots \subseteq Nat /\ MAX_INCLUDE_DEPTH \in Nat
  BY CurrentSlot
<1>3. new \in Slots /\ new # current /\ new = current + 1
  BY <1>2 DEF Slots
<1>4. /\ NewBuffer(new) \in BufferType /\ NewBuffer(new).chars = <<>> /\ NewBuffer(new).n = 0
      /\ NewBuffer(new).pos = 0 /\ NewBuffer(new).size = YY_BUF_SIZE
      /\ NewBuffer(new).file = new /\ NewBuffer(new).status = "NEW"
      /\ NewBuffer(new).fill
  BY <1>3, NewBufferIs
<1> HIDE DEF new
<1>5. /\ buffers' \in [Slots -> BufferType] /\ buffers'[new] = NewBuffer(new)
      /\ buffers'[current] = [Buffer EXCEPT !.pos = MatchEnd, !.n = n_chars]
      /\ \A s \in Slots : s # current /\ s # new => buffers'[s] = buffers[s]
  <2>1. /\ Saved(buffers) \in [Slots -> BufferType]
        /\ Saved(buffers)[current] = [Buffer EXCEPT !.pos = MatchEnd, !.n = n_chars]
        /\ \A s \in Slots : s # current => Saved(buffers)[s] = buffers[s]
    BY SavedIs
  <2> DEFINE bs == Saved(buffers)
             nb == NewBuffer(new)
  <2>2. buffers' = [bs EXCEPT ![new] = nb] /\ bs \in [Slots -> BufferType] /\ nb \in BufferType
    BY <1>1, <1>4, <2>1
  <2> HIDE DEF bs, nb
  <2>3. /\ buffers' \in [Slots -> BufferType] /\ buffers'[new] = nb
        /\ \A s \in Slots : s # new => buffers'[s] = bs[s]
    BY <1>3, <2>2
  <2> QED
    BY <1>2, <1>3, <2>1, <2>3 DEF bs, nb
<1>6. /\ unread' \in [Slots -> Strings] /\ \A s \in Slots : s # new => unread'[s] = unread[s]
  <2>1. contents[First] \in Strings /\ unread \in [Slots -> Strings]
    BY <1>1 DEF ScanInv
  <2> QED
    BY <1>1, <1>3, <2>1
<1>7. /\ Buffer \in BufferType /\ Buffer = buffers[current]
      /\ MatchEnd \in Nat /\ n_chars \in Nat /\ MatchEnd <= n_chars
      /\ n_chars <= Len(Buffer.chars)
  BY CurrentBuffer DEF ScanInv, ScannerInv, Buffer, MatchEnd
<1>8. \A b \in BufferType : \A p \in Nat : \A n \in Nat :
        LET f == [b EXCEPT !.pos = p, !.n = n] IN
        /\ f.chars = b.chars /\ f.file = b.file /\ f.fill = b.fill /\ f.size = b.size
        /\ f.status = b.status /\ f.pos = p /\ f.n = n
  BY DEF BufferType
<1>9. LET f == buffers'[current] IN
        /\ f.chars = Buffer.chars /\ f.file = Buffer.file /\ f.fill = Buffer.fill
        /\ f.size = Buffer.size /\ f.status = Buffer.status /\ f.pos = MatchEnd /\ f.n = n_chars
  BY <1>5, <1>7, <1>8
<1>10. StackInv'
  <2>1. /\ saved' \in Seq(Nat) /\ Len(saved') = Depth + 1 /\ saved'[Depth + 1] = current
        /\ \A i \in 1 .. Depth : saved'[i] = saved[i]
    BY <1>1, <1>2, AppendProperties DEF ScanInv, StackInv, Depth
  <2>2. Depth' = Depth + 1
    BY <2>1 DEF Depth
  <2>3. \A i \in 1 .. Depth + 1 : saved'[i] = i
    <3> TAKE i \in 1 .. Depth + 1
    <3>1. i \in 1 .. Depth \/ i = Depth + 1
      BY <1>2
    <3>2. \A j \in 1 .. Depth : saved[j] = j
      BY DEF ScanInv, StackInv
    <3> QED
      BY <1>2, <2>1, <3>1, <3>2
  <2>4. \A s \in Slots : buffers'[s].status = "FREE" <=> s > new
    <3> TAKE s \in Slots
    <3>1. (buffers[s].status = "FREE" <=> s > current) /\ s \in Nat
      BY <1>2 DEF ScanInv, StackInv
    <3>2. CASE s = new
      BY <1>3, <1>4, <1>5, <3>1, <3>2
    <3>3. CASE s = current
      BY <1>2, <1>3, <1>7, <1>9, <3>1, <3>3
    <3>4. CASE s # new /\ s # current
      BY <1>2, <1>3, <1>5, <3>1, <3>4
    <3> QED
      BY <3>2, <3>3, <3>4
  <2>5. new = Depth + 1 + 1 /\ Depth + 1 \in 0 .. MAX_INCLUDE_DEPTH
    BY <1>2, <1>3
  <2> QED
    BY <1>1, <2>1, <2>2, <2>3, <2>4, <2>5 DEF StackInv
<1>11. \A s \in 1 .. new : BufferInv(s)'
  <2> TAKE s \in 1 .. new
  <2>1. s \in Slots
    BY <1>3 DEF Slots
  <2>2. CASE s = new
    <3>1. buffers'[s] = NewBuffer(new) /\ Len(<<>>) = 0 /\ YY_BUF_SIZE \in Nat /\ YY_BUF_SIZE > 0
      BY <1>5, <2>2 DEF ScanAssumption
    <3> QED
      BY <1>4, <2>2, <3>1 DEF BufferInv
  <2>3. CASE s # new
    <3>1. s \in 1 .. current /\ BufferInv(s) /\ unread'[s] = unread[s]
      BY <1>2, <1>3, <1>6, <2>1, <2>3 DEF ScanInv
    <3>2. CASE s = current
      BY <1>7, <1>9, <3>1, <3>2 DEF BufferInv, Stream
    <3>3. CASE s # current
      BY <1>5, <2>1, <2>3, <3>1, <3>3 DEF BufferInv, Stream
    <3> QED
      BY <3>2, <3>3
  <2> QED
    BY <2>2, <2>3
<1>12. \A s \in 1 .. current :
         buffers'[s].pos <= buffers'[s].n /\ buffers'[s].n <= Len(buffers'[s].chars)
  <2> TAKE s \in 1 .. current
  <2>1. CASE s = current
    BY <1>7, <1>9, <2>1
  <2>2. CASE s # current
    <3>1. s \in 1 .. Depth /\ s \in Slots /\ s # new
      BY <1>2, <1>3, <2>2 DEF Slots
    <3> QED
      BY <1>5, <2>2, <3>1 DEF ScanInv
  <2> QED
    BY <2>1, <2>2
<1>13. Buffer' = NewBuffer(new)
  BY <1>1, <1>5 DEF Buffer
<1>14. ScannerInv'
  <2>1. Len(<<>>) = 0
    OBVIOUS
  <2> QED
    BY <1>1, <1>4, <1>13, <2>1 DEF ScannerInv, MatchEnd
<1>15. StageInv'
  BY <1>1 DEF StageInv
<1>16. Depth' = current
  <2>1. Len(Append(saved, current)) = Depth + 1
    BY <1>2, AppendProperties DEF ScanInv, StackInv, Depth
  <2> QED
    BY <1>1, <1>2, <2>1 DEF Depth
<1> QED
  BY <1>1, <1>5, <1>6, <1>10, <1>11, <1>12, <1>14, <1>15, <1>16 DEF ScanInv

\* Only the current buffer changes.
LEMMA CurrentChanges ==
  ASSUME ScanAssumption, ScanInv, NEW nb \in BufferType, nb.status # "FREE",
         buffers' = [buffers EXCEPT ![current] = nb], UNCHANGED <<current, saved>>
  PROVE  /\ buffers' \in [Slots -> BufferType] /\ Buffer' = nb /\ buffers'[current] = nb
         /\ \A s \in Slots : s # current => buffers'[s] = buffers[s]
         /\ Depth' = Depth /\ StackInv'
         /\ \A s \in 1 .. Depth :
              buffers'[s].pos <= buffers'[s].n /\ buffers'[s].n <= Len(buffers'[s].chars)
<1>1. /\ buffers \in [Slots -> BufferType] /\ current \in Slots /\ Slots \subseteq Nat
      /\ current = Depth + 1 /\ Depth \in Nat /\ MAX_INCLUDE_DEPTH \in Nat
      /\ 1 .. current \subseteq Slots
  BY CurrentSlot DEF ScanInv
<1>2. /\ buffers' \in [Slots -> BufferType] /\ buffers'[current] = nb
      /\ \A s \in Slots : s # current => buffers'[s] = buffers[s]
  BY <1>1
<1>3. Depth' = Depth
  BY DEF Depth
<1>4. \A s \in Slots : buffers'[s].status = "FREE" <=> s > current
  <2> TAKE s \in Slots
  <2>1. buffers[s].status = "FREE" <=> s > current
    BY DEF ScanInv, StackInv
  <2>2. CASE s = current
    BY <1>1, <1>2, <2>2
  <2>3. CASE s # current
    BY <1>2, <2>1, <2>3
  <2> QED
    BY <2>2, <2>3
<1>5. StackInv'
  BY <1>1, <1>3, <1>4 DEF ScanInv, StackInv
<1>6. \A s \in 1 .. Depth : s \in Slots /\ s # current
  BY <1>1
<1> QED
  BY <1>2, <1>3, <1>5, <1>6 DEF ScanInv, Buffer

\* Arithmetic of places in a buffer.
LEMMA WholeSum ==
  ASSUME NEW k \in Nat, NEW n \in Nat, NEW m \in Nat, k = n - m PROVE m + k = n
OBVIOUS

\* At the end of what the buffer holds the match under way is all of it.
LEMMA AtEndOfBuffer ==
  ASSUME ScanAssumption, ScanInv, stage = "end of buffer"
  PROVE  /\ matched = Len(Held) /\ RunHeld = Len(Held) /\ MatchEnd = n_chars
         /\ matched \in Nat
<1>1. matched = Len(Held) /\ RunHeld = Len(Held)
  BY DEF ScanInv, StageInv
<1>2. /\ Len(Held) = n_chars - text_ptr /\ n_chars \in Nat /\ text_ptr \in Nat
      /\ matched \in Nat
  BY CurrentBuffer DEF ScanInv, ScannerInv
<1>3. matched = n_chars - text_ptr
  BY <1>1, <1>2
<1>4. text_ptr + matched = n_chars
  BY <1>2, <1>3, WholeSum
<1> QED
  BY <1>1, <1>2, <1>4 DEF MatchEnd

\* A string is not filled: the match ends with it.
LEMMA EndOfStringScanInv ==
  ASSUME ScanAssumption, ScanInv, EndOfString PROVE ScanInv'
<1> DEFINE nb == Fresh(Buffer)
<1>1. /\ stage = "end of buffer" /\ ~Buffer.fill /\ matched > 0
      /\ buffers' = [buffers EXCEPT ![current] = nb] /\ n_chars' = NChars /\ stage' = "act"
      /\ UNCHANGED <<contents, current, saved, unread, text_ptr, in, matched, mode>>
  BY DEF EndOfString, LastMatch, Buffer, tokenVars
<1>2. /\ nb \in BufferType /\ nb.status # "NEW" /\ nb.chars = Buffer.chars
      /\ nb.file = Buffer.file /\ nb.fill = Buffer.fill /\ nb.size = Buffer.size
      /\ nb.status = "EOF_PENDING" <=> Buffer.status = "EOF_PENDING"
      /\ nb.status = "FREE" <=> Buffer.status = "FREE"
      /\ NChars = n_chars
  BY FreshIs
<1> HIDE DEF nb
<1>3. nb.status # "FREE"
  BY <1>2, CurrentSlot DEF ScanInv, StackInv, Buffer
<1>4. /\ buffers' \in [Slots -> BufferType] /\ Buffer' = nb /\ buffers'[current] = nb
      /\ \A s \in Slots : s # current => buffers'[s] = buffers[s]
      /\ Depth' = Depth /\ StackInv'
      /\ \A s \in 1 .. Depth :
           buffers'[s].pos <= buffers'[s].n /\ buffers'[s].n <= Len(buffers'[s].chars)
  BY <1>1, <1>2, <1>3, CurrentChanges
<1>5. \A s \in 1 .. current : BufferInv(s)'
  <2> TAKE s \in 1 .. current
  <2>1. BufferInv(s) /\ s \in Slots /\ unread' = unread
    BY <1>1, CurrentSlot DEF ScanInv
  <2>2. CASE s = current
    BY <1>2, <1>4, <2>1, <2>2 DEF BufferInv, Stream, Buffer
  <2>3. CASE s # current
    BY <1>4, <2>1, <2>3 DEF BufferInv, Stream
  <2> QED
    BY <2>2, <2>3
<1>6. ScannerInv'
  BY <1>1, <1>2, <1>4 DEF ScanInv, ScannerInv, MatchEnd
<1>7. Held' = Held
  BY <1>1, <1>2, <1>4 DEF Held
<1>8. RunHeld' = RunHeld
  BY <1>1, <1>7 DEF RunHeld, Tokens!RunClass, Tokens!RunLength
<1>9. StageInv'
  <2>1. matched = Len(Held) /\ RunHeld = Len(Held)
    BY <1>1, AtEndOfBuffer
  <2>2. Held # <<>>
    <3>1. Held = <<>> => Len(Held) = 0
      OBVIOUS
    <3>2. Len(Held) > 0
      BY <1>1, <2>1
    <3> QED
      BY <3>1, <3>2
  <2>3. Stream(Buffer)' = <<>>
    BY <1>1, <1>2, <1>4 DEF Stream
  <2> QED
    BY <1>1, <1>7, <1>8, <2>1, <2>2, <2>3 DEF StageInv
<1> QED
  BY <1>1, <1>4, <1>5, <1>6, <1>9 DEF ScanInv

\* A refill: what is held moves to the front, and what was read follows it.
Refilled(k, nb) ==
  /\ k \in 0 .. Len(unread[current])
  /\ k = 0 => unread[current] = <<>> /\ matched > 0
  /\ nb \in BufferType /\ nb.chars = Held \o SubSeq(unread[current], 1, k)
  /\ Len(nb.chars) = matched + k /\ Len(nb.chars) <= nb.size /\ nb.size > 0
  /\ nb.file = current /\ nb.fill /\ nb.status \notin {"NEW", "FREE"}
  /\ nb.status = "EOF_PENDING" => k = 0
  /\ buffers' = [buffers EXCEPT ![current] = nb]
  /\ unread' = [unread EXCEPT ![current] =
                  SubSeq(unread[current], k + 1, Len(unread[current]))]
  /\ n_chars' = matched + k /\ text_ptr' = 0 /\ in = current
  /\ stage' = IF k = 0 THEN "act" ELSE "match"
  /\ UNCHANGED <<contents, source, current, saved, in, matched, tokenVars>>

\* Fill refills the buffer, which by then has room for what is read.
LEMMA FillIs ==
  ASSUME ScanAssumption, ScanInv, Fill
  PROVE  stage = "end of buffer" /\ Buffer.fill /\ \E k, nb : Refilled(k, nb)
<1> DEFINE b == Fresh(Buffer)
           pending == b.status = "EOF_PENDING"
           size == IF pending THEN b.size ELSE Grown(b.size, matched)
           stream == unread[b.file]
           room == Room(size, matched)
           most == IF pending THEN 0 ELSE IF room < Len(stream) THEN room ELSE Len(stream)
           nb(k) == [b EXCEPT !.chars = Moved(b) \o SubSeq(stream, 1, k), !.n = k,
                              !.size = size, !.status = IF k = 0 THEN "EOF_PENDING" ELSE @]
<1>1. stage = "end of buffer" /\ Buffer.fill
  BY DEF Fill
<1>2. PICK k \in IF most = 0 THEN {0} ELSE 1 .. most :
        /\ k = 0 => matched > 0
        /\ buffers' = [buffers EXCEPT ![current] = nb(k)]
        /\ unread' = [unread EXCEPT ![b.file] = SubSeq(stream, k + 1, Len(stream))]
        /\ n_chars' = matched + k /\ text_ptr' = 0
        /\ UNCHANGED <<in, matched>>
        /\ IF k = 0 THEN LastMatch ELSE Continue
  BY DEF Fill
<1>3. /\ Buffer \in BufferType /\ BufferInv(current) /\ Buffer = buffers[current]
      /\ Held \in Strings /\ n_chars \in 0 .. Len(Buffer.chars) /\ Len(Buffer.chars) \in Nat
      /\ current \in Slots /\ buffers[current].status # "FREE" /\ in = Buffer.file
      /\ unread \in [Slots -> Strings]
  BY CurrentBuffer, CurrentSlot DEF ScanInv, StackInv, Buffer, ScannerInv
<1>4. /\ Buffer.file = current /\ Buffer.size > 0 /\ Len(Buffer.chars) <= Buffer.size
      /\ Buffer.status = "EOF_PENDING" => unread[current] = <<>>
  BY <1>1, <1>3 DEF BufferInv, Stream
<1>5. /\ b \in BufferType /\ b.status # "NEW" /\ b.chars = Buffer.chars
      /\ b.file = current /\ b.fill /\ b.size = Buffer.size
      /\ b.status = "EOF_PENDING" <=> Buffer.status = "EOF_PENDING"
      /\ b.status # "FREE"
  BY <1>1, <1>3, <1>4, FreshIs
<1> HIDE DEF b
<1>6. stream = unread[current] /\ stream \in Strings /\ Len(stream) \in Nat
  BY <1>3, <1>5, LenProperties DEF Strings
<1> HIDE DEF stream
<1>7. matched = Len(Held) /\ matched \in Nat /\ text_ptr + matched = n_chars
  BY <1>1, AtEndOfBuffer DEF MatchEnd
<1>8. Moved(b) = Held
  BY <1>5, <1>7 DEF Moved, Held
<1>9. b.size \in Nat /\ b.size > 0
  BY <1>3, <1>4, <1>5 DEF BufferType
<1>10. size \in Nat /\ size > 0 /\ (~pending => room > 0 /\ room = size - matched - 1)
  <2>1. CASE pending
    BY <1>9, <2>1
  <2>2. CASE ~pending
    <3>1. Grown(b.size, matched) \in Nat /\ Room(Grown(b.size, matched), matched) > 0
      BY <1>7, <1>9, GrownHasRoom
    <3> HIDE DEF pending
    <3>2. size = Grown(b.size, matched)
      BY <2>2
    <3> HIDE DEF size
    <3>3. size \in Nat /\ Room(size, matched) > 0
      BY <3>1, <3>2
    <3>4. Room(size, matched) = size - matched - 1
      BY DEF Room
    <3>5. size > 0
      BY <1>7, <3>3, <3>4
    <3> QED
      BY <3>3, <3>4, <3>5
  <2> QED
    BY <2>1, <2>2
<1>11. pending => size = b.size
  OBVIOUS
<1>12. pending => stream = <<>>
  BY <1>4, <1>5, <1>6
<1> HIDE DEF size, pending
<1>13. /\ most \in Nat /\ most <= Len(stream) /\ (~pending => most <= size - matched - 1)
       /\ (most = 0 => Len(stream) = 0) /\ (pending => most = 0)
  <2>1. CASE pending
    <3>1. Len(<<>>) = 0
      OBVIOUS
    <3> QED
      BY <1>6, <1>12, <2>1, <3>1
  <2>2. CASE ~pending
    <3>1. room \in Nat /\ room > 0 /\ room = size - matched - 1
      BY <1>7, <1>10, <2>2
    <3> HIDE DEF room
    <3> QED
      BY <1>6, <2>2, <3>1
  <2> QED
    BY <2>1, <2>2
<1> HIDE DEF most
<1>14. /\ k \in 0 .. Len(stream) /\ k \in Nat /\ (k = 0 => Len(stream) = 0 /\ matched > 0)
       /\ (~pending => matched + k <= size) /\ (pending => k = 0)
  <2>1. k \in Nat /\ k <= most /\ (k = 0 => most = 0)
    BY <1>2, <1>13
  <2>2. k <= Len(stream) /\ (pending => k = 0)
    BY <1>6, <1>13, <2>1
  <2>3. ASSUME ~pending PROVE matched + k <= size
    BY <1>7, <1>10, <1>13, <2>1, <2>3
  <2> QED
    BY <1>2, <1>6, <1>13, <2>1, <2>2, <2>3
<1> DEFINE read == SubSeq(stream, 1, k)
<1>15. read \in Strings /\ Len(read) = k
  <2>1. /\ SubSeq(stream, 0 + 1, k) \in Seq(Chars) /\ Len(SubSeq(stream, 0 + 1, k)) = k - 0
    BY <1>6, <1>14, LeftOf DEF Strings
  <2> QED
    BY <1>14, <2>1 DEF Strings
<1>16. Held \o read \in Strings /\ Len(Held \o read) = matched + k
  <2> HIDE DEF read
  <2> QED
    BY <1>3, <1>7, <1>15, ConcatProperties DEF Strings
<1> DEFINE held == Held \o read
           st == IF k = 0 THEN "EOF_PENDING" ELSE b.status
<1>17. nb(k) = [b EXCEPT !.chars = held, !.n = k, !.size = size, !.status = st]
  BY <1>5, <1>8 DEF BufferType
<1> HIDE DEF nb, held
<1>18. st \in {"NORMAL", "EOF_PENDING"} /\ (st = "EOF_PENDING" => k = 0)
  BY <1>5, <1>14 DEF BufferType, pending
<1> HIDE DEF st
<1>19. held \in Strings /\ Len(held) = matched + k
  BY <1>16 DEF held
<1>20. LET c == [b EXCEPT !.chars = held, !.n = k, !.size = size, !.status = st] IN
         /\ c \in BufferType /\ c.chars = held /\ c.size = size /\ c.status = st
         /\ c.file = b.file /\ c.fill = b.fill
  BY <1>5, <1>10, <1>14, <1>18, <1>19 DEF BufferType
<1>21. /\ nb(k) \in BufferType /\ nb(k).chars = held /\ nb(k).size = size /\ nb(k).status = st
       /\ nb(k).file = current /\ nb(k).fill
  BY <1>5, <1>17, <1>20
<1>22. matched + k <= size
  <2>1. CASE pending
    <3>1. matched <= b.size
      <4>1. n_chars \in Nat /\ text_ptr \in Nat /\ Buffer.size \in Nat
        BY <1>3 DEF ScanInv, ScannerInv, BufferType
      <4>2. matched <= n_chars
        BY <1>7, <4>1
      <4> QED
        BY <1>3, <1>4, <1>5, <1>7, <4>1, <4>2
    <3> QED
      BY <1>7, <1>11, <1>14, <2>1, <3>1
  <2>2. CASE ~pending
    BY <1>14, <2>2
  <2> QED
    BY <2>1, <2>2
<1>23. k = 0 => stream = <<>>
  BY <1>6, <1>14, EmptySeq DEF Strings
<1>24. /\ stage' = (IF k = 0 THEN "act" ELSE "match")
       /\ UNCHANGED <<contents, source, current, saved, tokenVars>>
  BY <1>2 DEF LastMatch, Continue
<1>25. Refilled(k, nb(k))
  BY <1>2, <1>3, <1>4, <1>5, <1>6, <1>10, <1>14, <1>18, <1>19, <1>21, <1>22, <1>23, <1>24
     DEF Refilled, held
<1> QED
  BY <1>1, <1>25

\* What is held after a refill.
LEMMA RefilledHeld ==
  ASSUME ScanAssumption, ScanInv, stage = "end of buffer", NEW k, NEW nb, Refilled(k, nb),
         Buffer' = nb
  PROVE  /\ Held' = Held \o SubSeq(unread[current], 1, k) /\ Held' \in Strings
         /\ k = 0 => Held' = Held
<1>1. /\ nb \in BufferType /\ nb.chars = Held \o SubSeq(unread[current], 1, k)
      /\ Len(nb.chars) = matched + k /\ n_chars' = matched + k /\ text_ptr' = 0
      /\ k = 0 => unread[current] = <<>>
  BY DEF Refilled
<1>2. nb.chars \in Seq(Chars) /\ Held \in Seq(Chars)
  BY <1>1, CurrentBuffer DEF BufferType, Strings
<1>3. Held' = SubSeq(nb.chars, 1, Len(nb.chars))
  <2>1. Held' = SubSeq(nb.chars, text_ptr' + 1, n_chars')
    BY DEF Held
  <2>2. n_chars' = Len(nb.chars)
    BY <1>1, Zenon
  <2>3. text_ptr' + 1 = 1
    <3>1. text_ptr' = 0
      BY <1>1
    <3> QED
      BY <3>1, FirstPlace, Zenon
  <2> QED
    BY <2>1, <2>2, <2>3, Zenon
<1>4. Held' = nb.chars
  BY <1>2, <1>3, AllOfIt
<1>5. k = 0 => SubSeq(unread[current], 1, k) = <<>>
  <2>1. <<>> \in Seq(Chars) /\ Len(<<>>) = 0
    BY EmptySeq
  <2>2. SubSeq(<<>>, 1, Len(<<>>)) = <<>>
    BY <2>1, AllOfIt
  <2> QED
    BY <1>1, <2>1, <2>2
<1> QED
  BY <1>1, <1>2, <1>4, <1>5, ConcatEmptySeq DEF Strings

\* A buffer that is refilled keeps the match under way, or ends it.
LEMMA FillScanInv ==
  ASSUME ScanAssumption, ScanInv, Fill PROVE ScanInv'
<1>1. PICK k, nb : Refilled(k, nb)
  BY FillIs
<1>2. stage = "end of buffer" /\ Buffer.fill
  BY FillIs
<1>3. /\ k \in 0 .. Len(unread[current])
      /\ k = 0 => unread[current] = <<>> /\ matched > 0
      /\ nb \in BufferType /\ nb.chars = Held \o SubSeq(unread[current], 1, k)
      /\ Len(nb.chars) = matched + k /\ Len(nb.chars) <= nb.size /\ nb.size > 0
      /\ nb.file = current /\ nb.fill /\ nb.status \notin {"NEW", "FREE"}
      /\ nb.status = "EOF_PENDING" => k = 0
  BY <1>1 DEF Refilled
<1>4. /\ buffers' = [buffers EXCEPT ![current] = nb]
      /\ unread' = [unread EXCEPT ![current] =
                      SubSeq(unread[current], k + 1, Len(unread[current]))]
      /\ n_chars' = matched + k /\ text_ptr' = 0 /\ in = current
      /\ stage' = IF k = 0 THEN "act" ELSE "match"
      /\ UNCHANGED <<contents, current, saved, in, matched, mode>>
  BY <1>1 DEF Refilled, tokenVars
<1>5. /\ buffers' \in [Slots -> BufferType] /\ Buffer' = nb /\ buffers'[current] = nb
      /\ \A s \in Slots : s # current => buffers'[s] = buffers[s]
      /\ Depth' = Depth /\ StackInv'
      /\ \A s \in 1 .. Depth :
           buffers'[s].pos <= buffers'[s].n /\ buffers'[s].n <= Len(buffers'[s].chars)
  BY <1>3, <1>4, CurrentChanges
<1>6. /\ current \in Slots /\ 1 .. current \subseteq Slots /\ unread \in [Slots -> Strings]
      /\ unread[current] \in Strings /\ Len(unread[current]) \in Nat
  BY CurrentSlot, LenProperties DEF ScanInv, Strings
<1>7. SubSeq(unread[current], k + 1, Len(unread[current])) \in Strings
  <2>1. Len(unread[current]) \in k .. Len(unread[current])
    BY <1>3, <1>6
  <2> QED
    BY <1>3, <1>6, <2>1, LeftOf DEF Strings
<1>8. /\ unread' \in [Slots -> Strings]
      /\ \A s \in Slots : s # current => unread'[s] = unread[s]
      /\ unread'[current] = SubSeq(unread[current], k + 1, Len(unread[current]))
  BY <1>4, <1>6, <1>7
<1>9. k = 0 => unread'[current] = <<>>
  <2>1. k = 0 => Len(unread[current]) = 0
    BY <1>3
  <2>2. k = 0 => SubSeq(<<>>, 1, 0) = <<>>
    OBVIOUS
  <2> QED
    BY <1>3, <1>8, <2>1, <2>2
<1>10. \A s \in 1 .. current : BufferInv(s)'
  <2> TAKE s \in 1 .. current
  <2>1. BufferInv(s) /\ s \in Slots
    BY <1>6 DEF ScanInv
  <2>2. CASE s = current
    BY <1>3, <1>5, <1>9, <2>2 DEF BufferInv, Stream
  <2>3. CASE s # current
    BY <1>5, <1>8, <2>1, <2>3 DEF BufferInv, Stream
  <2> QED
    BY <2>2, <2>3
<1>11. matched = Len(Held) /\ RunHeld = Len(Held) /\ matched \in Nat /\ k \in Nat
  <2>1. k \in Nat
    BY <1>3, <1>6
  <2> QED
    BY <1>2, <2>1, AtEndOfBuffer
<1>12. ScannerInv'
  <2>1. /\ n_chars' \in Nat /\ text_ptr' \in Nat /\ matched' \in Nat
        /\ text_ptr' + matched' <= n_chars'
    BY <1>4, <1>11
  <2>2. n_chars' <= Len(nb.chars)
    BY <1>3, <1>4, <1>11
  <2> QED
    BY <1>3, <1>4, <1>5, <2>1, <2>2 DEF ScannerInv, MatchEnd
<1>13. k = 0 => Held' = Held
  BY <1>1, <1>2, <1>5, RefilledHeld
<1>14. StageInv'
  <2>1. CASE k = 0
    <3>1. Held' = Held /\ matched' = matched /\ stage' = "act"
      BY <1>4, <1>13, <2>1
    <3>2. RunHeld' = RunHeld
      BY <1>4, <3>1 DEF RunHeld, Tokens!RunClass, Tokens!RunLength
    <3>3. Held # <<>> /\ RunHeld > 0
      <4>1. Held = <<>> => Len(Held) = 0
        OBVIOUS
      <4>2. Len(Held) > 0
        BY <1>3, <1>11, <2>1
      <4> QED
        BY <1>11, <4>1, <4>2
    <3>4. Stream(Buffer)' = <<>>
      BY <1>3, <1>5, <1>9, <2>1 DEF Stream
    <3> QED
      BY <1>11, <3>1, <3>2, <3>3, <3>4 DEF StageInv
  <2>2. CASE k # 0
    BY <1>4, <2>2 DEF StageInv
  <2> QED
    BY <2>1, <2>2
<1> QED
  BY <1>4, <1>5, <1>8, <1>10, <1>12, <1>14 DEF ScanInv

\* The outermost text ends: a file is restarted, and nothing of it is held.
LEMMA EndScanInv ==
  ASSUME ScanAssumption, ScanInv, EndOfInput, Depth = 0 PROVE ScanInv'
<1> DEFINE b == Fresh(Buffer)
           r == IF b.fill THEN Initialised(b, in) ELSE b
<1>1. /\ stage = "end of buffer" /\ matched = 0 /\ stage' = stage
      /\ buffers' = [buffers EXCEPT ![current] = r]
      /\ IF b.fill THEN Load(r) ELSE n_chars' = NChars /\ UNCHANGED <<text_ptr, matched, in>>
      /\ UNCHANGED <<contents, unread, mode, current, saved>>
  BY DEF EndOfInput
<1>2. /\ b \in BufferType /\ b.status # "NEW" /\ b.chars = Buffer.chars
      /\ b.file = Buffer.file /\ b.fill = Buffer.fill /\ b.size = Buffer.size
      /\ b.status = "EOF_PENDING" <=> Buffer.status = "EOF_PENDING"
      /\ b.status # "FREE" /\ NChars = n_chars
  BY FreshIs, CurrentSlot DEF ScanInv, StackInv, Buffer
<1>3. /\ current = 1 /\ current \in Slots /\ Buffer \in BufferType /\ BufferInv(current)
      /\ Buffer = buffers[current] /\ in = Buffer.file /\ 1 .. current \subseteq Slots
      /\ \A s \in 1 .. current : s = current
  BY CurrentSlot, CurrentBuffer DEF ScanInv, ScannerInv, Buffer
<1>4. /\ Len(Buffer.chars) <= Buffer.size /\ (Buffer.fill => in = current /\ Buffer.size > 0)
      /\ (~Buffer.fill => Buffer.file = 0)
      /\ Buffer.status = "EOF_PENDING" => Stream(Buffer) = <<>>
  BY <1>3 DEF BufferInv
<1>5. Len(Held) = 0 /\ text_ptr = n_chars /\ n_chars \in Nat
  <2>1. Len(Held) = 0
    BY <1>1, AtEndOfBuffer
  <2>2. Len(Held) = n_chars - text_ptr /\ n_chars \in Nat /\ text_ptr \in Nat
    BY CurrentBuffer DEF ScanInv, ScannerInv
  <2> QED
    BY <2>1, <2>2
<1> HIDE DEF b
<1>6. CASE Buffer.fill
  <2>1. r = Initialised(b, in) /\ Load(r)
    BY <1>1, <1>2, <1>6
  <2>2. /\ Initialised(b, in) \in BufferType /\ Initialised(b, in).chars = <<>>
        /\ Initialised(b, in).n = 0 /\ Initialised(b, in).pos = 0
        /\ Initialised(b, in).size = b.size /\ Initialised(b, in).status = "NEW"
        /\ Initialised(b, in).file = in /\ Initialised(b, in).fill
    BY <1>2, <1>3, <1>4, <1>6, InitialisedIs
  <2> HIDE DEF r
  <2>3. /\ r \in BufferType /\ r.chars = <<>> /\ r.n = 0 /\ r.pos = 0 /\ r.size = Buffer.size
        /\ r.status = "NEW" /\ r.file = current /\ r.fill /\ r.status # "FREE"
    BY <1>2, <1>4, <1>6, <2>1, <2>2
  <2>4. /\ buffers' \in [Slots -> BufferType] /\ Buffer' = r /\ buffers'[current] = r
        /\ Depth' = Depth /\ StackInv'
        /\ \A s \in 1 .. Depth :
             buffers'[s].pos <= buffers'[s].n /\ buffers'[s].n <= Len(buffers'[s].chars)
    BY <1>1, <2>3, CurrentChanges
  <2>5. n_chars' = 0 /\ text_ptr' = 0 /\ matched' = 0 /\ in' = current
    BY <2>1, <2>3 DEF Load
  <2>6. Len(<<>>) = 0
    BY EmptySeq
  <2>7. 0 <= Buffer.size
    BY <1>3 DEF BufferType
  <2>8. \A s \in 1 .. current : BufferInv(s)'
    BY <1>1, <1>3, <1>4, <1>6, <2>3, <2>4, <2>6, <2>7 DEF BufferInv
  <2>9. ScannerInv'
    BY <2>3, <2>4, <2>5, <2>6 DEF ScannerInv, MatchEnd
  <2>10. Held' = <<>>
    <3>1. Held' = SubSeq(r.chars, text_ptr' + 1, n_chars')
      BY <2>4 DEF Held
    <3>2. text_ptr' + 1 = 1
      BY <2>5, FirstPlace, Zenon
    <3>3. <<>> \in Seq(Chars) /\ SubSeq(<<>>, 1, Len(<<>>)) = <<>>
      <4>1. <<>> \in Seq(Chars)
        BY EmptySeq
      <4> QED
        BY <4>1, AllOfIt
    <3> QED
      BY <2>3, <2>5, <2>6, <3>1, <3>2, <3>3, Zenon
  <2>11. RunHeld' = 0
    <3>1. RunHeld' = Tokens!RunLength(<<>>, Tokens!RunClass(mode))
      BY <1>1, <2>10 DEF RunHeld, Tokens!RunClass, Tokens!RunLength
    <3>2. <<>> \in Seq(Chars)
      BY EmptySeq
    <3>3. Tokens!RunLength(<<>>, Tokens!RunClass(mode)) \in 0 .. Len(<<>>)
      BY <3>2, RunLengthIs DEF IsRun
    <3> QED
      BY <2>6, <3>1, <3>3
  <2>12. StageInv'
    BY <1>1, <2>5, <2>6, <2>10, <2>11 DEF StageInv
  <2> QED
    BY <1>1, <2>4, <2>8, <2>9, <2>12 DEF ScanInv
<1>7. CASE ~Buffer.fill
  <2>1. /\ r = b /\ n_chars' = n_chars /\ UNCHANGED <<text_ptr, matched, in>>
    BY <1>1, <1>2, <1>7
  <2> HIDE DEF r
  <2>2. /\ buffers' \in [Slots -> BufferType] /\ Buffer' = b /\ buffers'[current] = b
        /\ Depth' = Depth /\ StackInv'
        /\ \A s \in 1 .. Depth :
             buffers'[s].pos <= buffers'[s].n /\ buffers'[s].n <= Len(buffers'[s].chars)
    BY <1>1, <1>2, <2>1, CurrentChanges
  <2>3. \A s \in 1 .. current : BufferInv(s)'
    BY <1>1, <1>2, <1>3, <1>4, <1>7, <2>2 DEF BufferInv, Stream
  <2>4. ScannerInv'
    BY <1>1, <1>2, <2>1, <2>2 DEF ScanInv, ScannerInv, MatchEnd
  <2>5. Held' = Held
    BY <1>2, <2>1, <2>2 DEF Held
  <2>6. RunHeld' = RunHeld
    BY <1>1, <2>5 DEF RunHeld, Tokens!RunClass, Tokens!RunLength
  <2>7. StageInv'
    BY <1>1, <2>1, <2>5, <2>6 DEF ScanInv, StageInv
  <2> QED
    BY <1>1, <2>2, <2>3, <2>4, <2>7 DEF ScanInv
<1> QED
  BY <1>6, <1>7

\* An included text ends: the scanner goes on where the including text was left.
LEMMA PopIs ==
  ASSUME ScanAssumption, ScanInv, EndOfInput, Depth # 0
  PROVE  /\ stage = "end of buffer" /\ matched = 0
         /\ buffers' = [buffers EXCEPT ![current] = NoBuffer]
         /\ saved' \in Seq(Nat) /\ Depth' = Depth - 1
         /\ \A i \in 1 .. Depth - 1 : saved'[i] = i
         /\ current' = Depth /\ Depth \in Slots /\ Depth # current
         /\ n_chars' = buffers[Depth].n /\ text_ptr' = buffers[Depth].pos /\ matched' = 0
         /\ in' = buffers[Depth].file /\ stage' = "match"
         /\ \A s \in Slots : s # current => buffers'[s] = buffers[s]
         /\ buffers'[current] = NoBuffer /\ buffers' \in [Slots -> BufferType]
         /\ UNCHANGED <<contents, source, unread, tokenVars>>
<1> DEFINE outer == saved[Depth]
<1>1. /\ stage = "end of buffer" /\ matched = 0
      /\ buffers' = [buffers EXCEPT ![current] = NoBuffer]
      /\ saved' = SubSeq(saved, 1, Depth - 1) /\ current' = outer
      /\ n_chars' = buffers[outer].n /\ text_ptr' = buffers[outer].pos /\ matched' = 0
      /\ in' = buffers[outer].file /\ stage' = "match"
      /\ UNCHANGED <<contents, source, unread, tokenVars>>
  BY DEF EndOfInput, Load, Deleted, tokenVars
<1>2. /\ Depth \in Nat /\ current = Depth + 1 /\ current \in Slots
      /\ Slots \subseteq Nat /\ MAX_INCLUDE_DEPTH \in Nat
      /\ 1 .. current \subseteq Slots
      /\ saved \in Seq(Nat) /\ (\A i \in 1 .. Depth : saved[i] = i)
      /\ buffers \in [Slots -> BufferType]
  BY CurrentSlot DEF ScanInv, StackInv
<1>3. Depth \in 1 .. Depth /\ Depth \in Slots /\ Depth # current
  BY <1>2
<1>4. outer = Depth
  BY <1>2, <1>3
<1>5. /\ saved' \in Seq(Nat) /\ Len(saved') = Depth - 1
      /\ \A i \in 1 .. Depth - 1 : saved'[i] = saved[i]
  <2>1. 0 \in 0 .. Len(saved) /\ Depth - 1 \in 0 .. Len(saved) /\ Len(saved) = Depth
    BY <1>2, <1>3 DEF Depth
  <2>2. /\ SubSeq(saved, 0 + 1, Depth - 1) \in Seq(Nat)
        /\ Len(SubSeq(saved, 0 + 1, Depth - 1)) = Depth - 1 - 0
        /\ \A i \in 1 .. Depth - 1 - 0 : SubSeq(saved, 0 + 1, Depth - 1)[i] = saved[0 + i]
    BY <1>2, <2>1, LeftOf
  <2>3. Depth - 1 - 0 = Depth - 1 /\ \A i \in 1 .. Depth - 1 : 0 + i = i
    BY <1>2
  <2>4. saved' = SubSeq(saved, 0 + 1, Depth - 1)
    BY <1>1, FirstPlace, Zenon
  <2> QED
    BY <2>2, <2>3, <2>4
<1>6. \A i \in 1 .. Depth - 1 : saved'[i] = i
  <2> TAKE i \in 1 .. Depth - 1
  <2>1. i \in 1 .. Depth
    BY <1>2
  <2> QED
    BY <1>2, <1>5, <2>1
<1>7. NoBuffer \in BufferType
  <2>1. <<>> \in Strings
    BY EmptySeq DEF Strings
  <2> QED
    BY <2>1 DEF NoBuffer, BufferType
<1>8. /\ \A s \in Slots : s # current => buffers'[s] = buffers[s]
      /\ buffers'[current] = NoBuffer /\ buffers' \in [Slots -> BufferType]
  <2> HIDE DEF outer
  <2> QED
    BY <1>1, <1>2, <1>7
<1>9. Depth' = Depth - 1
  BY <1>5 DEF Depth
<1> QED
  BY <1>1, <1>3, <1>4, <1>5, <1>6, <1>8, <1>9

\* What was held of the including text is held again.
LEMMA PopScanInv ==
  ASSUME ScanAssumption, ScanInv, EndOfInput, Depth # 0 PROVE ScanInv'
<1>1. /\ saved' \in Seq(Nat) /\ Depth' = Depth - 1
      /\ \A i \in 1 .. Depth - 1 : saved'[i] = i
      /\ current' = Depth /\ Depth \in Slots /\ Depth # current
      /\ n_chars' = buffers[Depth].n /\ text_ptr' = buffers[Depth].pos /\ matched' = 0
      /\ in' = buffers[Depth].file /\ stage' = "match"
      /\ \A s \in Slots : s # current => buffers'[s] = buffers[s]
      /\ buffers'[current] = NoBuffer /\ buffers' \in [Slots -> BufferType]
      /\ UNCHANGED <<contents, unread, mode>>
  BY PopIs DEF tokenVars
<1>2. /\ Depth \in Nat /\ Depth <= MAX_INCLUDE_DEPTH /\ MAX_INCLUDE_DEPTH \in Nat
      /\ current = Depth + 1 /\ current \in Slots /\ Slots \subseteq Nat
      /\ 1 .. current \subseteq Slots
  BY CurrentSlot
<1>3. /\ \A s \in Slots : buffers[s].status = "FREE" <=> s > current
      /\ \A s \in 1 .. current : BufferInv(s)
      /\ \A s \in 1 .. Depth :
           buffers[s].pos <= buffers[s].n /\ buffers[s].n <= Len(buffers[s].chars)
      /\ buffers \in [Slots -> BufferType]
  BY DEF ScanInv, StackInv
<1>4. Depth \in 1 .. Depth /\ Depth - 1 \in Nat /\ Depth = Depth - 1 + 1
  BY <1>1, <1>2 DEF Slots
<1>5. \A s \in 1 .. Depth : s \in Slots /\ s # current /\ s \in 1 .. current
                              /\ buffers'[s] = buffers[s]
  BY <1>1, <1>2
<1>6. StackInv'
  <2>1. \A s \in Slots : buffers'[s].status = "FREE" <=> s > Depth
    <3> TAKE s \in Slots
    <3>1. CASE s = current
      <4>1. NoBuffer.status = "FREE"
        BY DEF NoBuffer
      <4> QED
        BY <1>1, <1>2, <3>1, <4>1
    <3>2. CASE s # current
      BY <1>1, <1>2, <1>3, <3>2
    <3> QED
      BY <3>1, <3>2
  <2>2. Depth - 1 \in 0 .. MAX_INCLUDE_DEPTH
    BY <1>2, <1>4
  <2> QED
    BY <1>1, <1>4, <2>1, <2>2 DEF StackInv
<1>7. \A s \in 1 .. Depth : BufferInv(s)'
  BY <1>1, <1>3, <1>5 DEF BufferInv, Stream
<1>8. \A s \in 1 .. Depth - 1 :
        buffers'[s].pos <= buffers'[s].n /\ buffers'[s].n <= Len(buffers'[s].chars)
  <2> TAKE s \in 1 .. Depth - 1
  <2>1. s \in 1 .. Depth
    BY <1>2
  <2> QED
    BY <1>3, <1>5, <2>1
<1>9. Buffer' = buffers[Depth]
  BY <1>1, <1>4, <1>5 DEF Buffer
<1>10. ScannerInv'
  <2>1. /\ buffers[Depth].n \in Nat /\ buffers[Depth].pos \in Nat
        /\ buffers[Depth].pos <= buffers[Depth].n
        /\ buffers[Depth].n <= Len(buffers[Depth].chars)
    BY <1>1, <1>3, <1>4 DEF BufferType
  <2>2. MatchEnd' = buffers[Depth].pos
    <3>1. \A p \in Nat : p + 0 = p
      OBVIOUS
    <3> QED
      BY <1>1, <2>1, <3>1 DEF MatchEnd
  <2> QED
    BY <1>1, <1>9, <2>1, <2>2 DEF ScannerInv
<1>11. StageInv'
  BY <1>1 DEF StageInv
<1> QED
  BY <1>1, <1>6, <1>7, <1>8, <1>10, <1>11 DEF ScanInv

\* Every step keeps the invariant.
LEMMA NextScanInv ==
  ASSUME ScanAssumption, ScanInv, [Next]_vars PROVE ScanInv'
<1>1. CASE Match
  BY <1>1, MatchScanInv
<1>2. mode \in {"INITIAL", "STRING"}
  BY DEF ScanInv
<1>3. CASE ActName \/ ActStringPart \/ ActSpace
  BY <1>2, <1>3, AdvanceScanInv DEF ActName, ActStringPart, ActSpace, tokenVars
<1>4. CASE ActQuote
  BY <1>4, AdvanceScanInv DEF ActQuote
<1>5. CASE ActInclude
  <2>1. CASE Depth = MAX_INCLUDE_DEPTH
    BY <1>2, <1>5, <2>1, AdvanceScanInv DEF ActInclude
  <2>2. CASE Depth # MAX_INCLUDE_DEPTH
    BY <1>5, <2>2, IncludeScanInv
  <2> QED
    BY <2>1, <2>2
<1>6. CASE EndOfString
  BY <1>6, EndOfStringScanInv
<1>7. CASE Fill
  BY <1>7, FillScanInv
<1>8. CASE EndOfInput
  BY <1>8, EndScanInv, PopScanInv
<1>9. CASE UNCHANGED vars
  <2>1. /\ UNCHANGED <<contents, unread, buffers, current, saved, n_chars, text_ptr, in,
                       matched, mode, stage>>
    BY <1>9 DEF vars, scanVars, tokenVars
  <2>2. Buffer' = Buffer /\ Held' = Held /\ Depth' = Depth /\ Stream(Buffer)' = Stream(Buffer)
    BY <2>1 DEF Buffer, Held, Depth, Stream
  <2>3. RunHeld' = RunHeld
    BY <2>1, <2>2 DEF RunHeld, Tokens!RunClass, Tokens!RunLength
  <2>4. /\ StackInv' = StackInv /\ ScannerInv' = ScannerInv /\ StageInv' = StageInv
        /\ \A s : BufferInv(s)' = BufferInv(s)
    <3>1. StackInv' = StackInv
      BY <2>1, <2>2 DEF StackInv
    <3>2. ScannerInv' = ScannerInv
      BY <2>1, <2>2 DEF ScannerInv, MatchEnd
    <3>3. StageInv' = StageInv
      BY <2>1, <2>2, <2>3 DEF StageInv
    <3>4. \A s : BufferInv(s)' = BufferInv(s)
      BY <2>1 DEF BufferInv, Stream
    <3> QED
      BY <3>1, <3>2, <3>3, <3>4
  <2> QED
    BY <2>1, <2>2, <2>4 DEF ScanInv
<1> QED
  BY <1>1, <1>3, <1>4, <1>5, <1>6, <1>7, <1>8, <1>9 DEF Next

\* The buffers and the scanner agree about what is held of each open text, at every step of
\* yylex, of the refills and of the inclusions.
THEOREM Scanning == Spec => []ScanInv
<1>1. Init => ScanInv
  BY ScanAssumption, InitScanInv
<1>2. ScanInv /\ [Next]_vars => ScanInv'
  BY ScanAssumption, NextScanInv
<1> QED
  BY <1>1, <1>2, PTL DEF Spec

\* No buffer is written past its end, the match lies in what the buffer holds, and a buffer
\* exists exactly for each open text, however the reads and the inclusions fall.
THEOREM BuffersInBounds == Spec => []BuffersHold
<1>1. ASSUME ScanInv PROVE BuffersHold
  <2>1. /\ Depth \in Nat /\ current = Depth + 1 /\ Slots \subseteq Nat
        /\ \A s \in Slots : s >= 1
    BY <1>1, ScanAssumption, CurrentSlot DEF Slots
  <2>2. /\ \A s \in Slots : buffers[s].status = "FREE" <=> s > current
        /\ \A i \in 1 .. Depth : saved[i] = i
        /\ \A s \in 1 .. current : BufferInv(s)
        /\ MatchEnd <= n_chars /\ n_chars <= Len(Buffer.chars)
    BY <1>1 DEF ScanInv, StackInv, ScannerInv
  <2>3. ASSUME NEW s \in Slots, buffers[s].status # "FREE"
        PROVE  Len(buffers[s].chars) <= buffers[s].size
    <3>1. s \in 1 .. current
      BY <2>1, <2>2, <2>3
    <3> QED
      BY <2>2, <3>1 DEF BufferInv
  <2>4. ASSUME NEW s \in Slots
        PROVE  s <= current <=> s = current \/ \E i \in 1 .. Depth : saved[i] = s
    <3>1. s \in Nat /\ s >= 1
      BY <2>1
    <3>2. s <= current <=> s = current \/ s \in 1 .. Depth
      BY <2>1, <3>1
    <3>3. s \in 1 .. Depth <=> \E i \in 1 .. Depth : saved[i] = s
      BY <2>2
    <3> QED
      BY <3>2, <3>3
  <2>5. \A s \in Slots : s <= current <=> ~(s > current)
    BY <2>1
  <2> QED
    BY <2>2, <2>3, <2>4, <2>5 DEF BuffersHold
<1> QED
  BY <1>1, Scanning, PTL

-----------------------------------------------------------------------------
(* The refinement.                                                         *)

\* What is left of an including text, and of the current one.
Outer(i) == RestOf(buffers[i], buffers[i].pos, buffers[i].n)
Rest == Held \o Stream(Buffer)

\* The texts of TokenStream, as the invariant shows them.
TextsInv ==
  /\ Depth \in Nat /\ TextsLeft \in Seq(Strings) /\ Len(TextsLeft) = Depth + 1
  /\ Held \in Strings /\ Rest \in Strings /\ TextsLeft[Depth + 1] = Rest
  /\ \A i \in 1 .. Depth : TextsLeft[i] = Outer(i)

\* A part of a buffer and what was not yet read are a text.
LEMMA RestIsText ==
  ASSUME NEW b \in BufferType, NEW u \in Strings, NEW p \in Nat, NEW n \in Nat,
         p <= n, n <= Len(b.chars)
  PROVE  SubSeq(b.chars, p + 1, n) \o u \in Strings
<1>1. b.chars \in Seq(Chars) /\ Len(b.chars) \in Nat
  BY LenProperties DEF BufferType, Strings
<1>2. p \in 0 .. Len(b.chars) /\ n \in p .. Len(b.chars)
  BY <1>1
<1>3. SubSeq(b.chars, p + 1, n) \in Seq(Chars)
  BY <1>1, <1>2, LeftOf
<1> QED
  BY <1>3, ConcatProperties DEF Strings

\* There is one text for each buffer.
LEMMA TextsShape == ScanInv => TextsInv
<1> SUFFICES ASSUME ScanInv PROVE TextsInv
  OBVIOUS
<1> USE ScanAssumption
<1>1. /\ Depth \in Nat /\ current = Depth + 1 /\ 1 .. current \subseteq Slots
      /\ current \in 1 .. current
  BY CurrentSlot
<1>2. /\ \A i \in 1 .. Depth : saved[i] = i
      /\ \A s \in 1 .. Depth :
           buffers[s].pos <= buffers[s].n /\ buffers[s].n <= Len(buffers[s].chars)
      /\ buffers \in [Slots -> BufferType]
  BY DEF ScanInv, StackInv
<1>3. ASSUME NEW i \in 1 .. Depth PROVE Outer(i) \in Strings
  <2>1. i \in 1 .. current /\ i \in Slots
    BY <1>1
  <2>2. Stream(buffers[i]) \in Strings
    BY <2>1, StreamType
  <2>3. buffers[i] \in BufferType /\ buffers[i].pos \in Nat /\ buffers[i].n \in Nat
    BY <1>2, <2>1 DEF BufferType
  <2>4. SubSeq(buffers[i].chars, buffers[i].pos + 1, buffers[i].n) \o Stream(buffers[i]) \in Strings
    BY <1>2, <2>2, <2>3, RestIsText
  <2> QED
    BY <2>4 DEF Outer, RestOf, Stream
<1> DEFINE front == [i \in 1 .. Depth |-> Outer(i)]
<1>4. front \in Seq(Strings) /\ Len(front) = Depth /\ \A i \in 1 .. Depth : front[i] = Outer(i)
  <2> HIDE DEF Outer
  <2> QED
    BY <1>1, <1>3
<1>5. Rest \in Strings
  <2>1. Held \in Strings
    BY CurrentBuffer
  <2>2. Stream(Buffer) \in Strings
    BY <1>1, StreamType DEF Buffer
  <2> QED
    BY <2>1, <2>2, ConcatProperties DEF Strings, Rest
<1>6. TextsLeft = Append(front, Rest)
  <2>1. [i \in 1 .. Depth |-> RestOf(buffers[saved[i]], buffers[saved[i]].pos, buffers[saved[i]].n)]
        = front
    BY <1>2, Zenon DEF Outer
  <2>2. RestOf(Fresh(Buffer), text_ptr, n_chars) = Rest
    <3>1. /\ Fresh(Buffer).chars = Buffer.chars /\ Fresh(Buffer).file = Buffer.file
          /\ Fresh(Buffer).fill = Buffer.fill
      BY FreshIs
    <3> QED
      BY <3>1, Zenon DEF RestOf, Rest, Held, Stream
  <2> QED
    BY <2>1, <2>2, Zenon DEF TextsLeft
<1> HIDE DEF front
<1>7. /\ TextsLeft \in Seq(Strings) /\ Len(TextsLeft) = Depth + 1
      /\ TextsLeft[Depth + 1] = Rest /\ \A i \in 1 .. Depth : TextsLeft[i] = front[i]
  <2> HIDE DEF Rest
  <2>1. /\ Append(front, Rest) \in Seq(Strings) /\ Len(Append(front, Rest)) = Len(front) + 1
        /\ \A i \in 1 .. Len(front) : Append(front, Rest)[i] = front[i]
        /\ Append(front, Rest)[Len(front) + 1] = Rest
    BY <1>4, <1>5, AppendProperties
  <2> QED
    BY <1>4, <1>6, <2>1
<1> QED
  BY <1>1, <1>4, <1>5, <1>7, CurrentBuffer DEF TextsInv


\* Where what is left of each text stays, the texts stay.
LEMMA SameTexts ==
  ASSUME TextsInv, TextsInv', Depth' = Depth, Rest' = Rest,
         \A i \in 1 .. Depth : Outer(i)' = Outer(i)
  PROVE  TextsLeft' = TextsLeft
<1>1. /\ Depth \in Nat /\ TextsLeft \in Seq(Strings) /\ Len(TextsLeft) = Depth + 1
      /\ TextsLeft[Depth + 1] = Rest /\ \A i \in 1 .. Depth : TextsLeft[i] = Outer(i)
  BY DEF TextsInv
<1>2. /\ TextsLeft' \in Seq(Strings) /\ Len(TextsLeft') = Depth + 1
      /\ TextsLeft'[Depth + 1] = Rest
      /\ \A i \in 1 .. Depth : TextsLeft'[i] = Outer(i)
  <2>1. Depth' + 1 = Depth + 1 /\ 1 .. Depth' = 1 .. Depth
    OBVIOUS
  <2>2. /\ TextsLeft' \in Seq(Strings) /\ Len(TextsLeft') = Depth' + 1
        /\ TextsLeft'[Depth' + 1] = Rest'
        /\ \A i \in 1 .. Depth' : TextsLeft'[i] = Outer(i)'
    BY DEF TextsInv, Strings, Chars
  <2> QED
    BY <2>1, <2>2
<1>3. \A i \in 1 .. Depth + 1 : TextsLeft'[i] = TextsLeft[i]
  <2> TAKE i \in 1 .. Depth + 1
  <2>1. i \in 1 .. Depth \/ i = Depth + 1
    BY <1>1
  <2> QED
    BY <1>1, <1>2, <2>1
<1> QED
  BY <1>1, <1>2, <1>3, SeqEqual

\* A rule that takes what was matched reads it from the current text.
LEMMA AdvanceReads ==
  ASSUME ScanAssumption, ScanInv, TextsInv, TextsInv', Advance
  PROVE  Abstract!Read(matched)
<1>1. /\ text_ptr' = MatchEnd
      /\ UNCHANGED <<contents, source, current, saved, unread, buffers, n_chars>>
  BY DEF Advance
<1>2. Depth' = Depth /\ \A i \in 1 .. Depth : Outer(i)' = Outer(i)
  BY <1>1 DEF Depth, Outer, RestOf
<1>3. /\ Buffer \in BufferType /\ Held \in Seq(Chars) /\ Len(Held) = n_chars - text_ptr
      /\ text_ptr \in 0 .. n_chars /\ n_chars \in 0 .. Len(Buffer.chars)
      /\ matched \in 0 .. Len(Held) /\ Len(Buffer.chars) \in Nat
      /\ Buffer.chars \in Seq(Chars)
  BY CurrentBuffer DEF Strings, BufferType
<1>4. Held' = SubSeq(Held, matched + 1, Len(Held))
  <2>1. Held' = SubSeq(Buffer.chars, text_ptr + matched + 1, n_chars)
    BY <1>1 DEF Held, Buffer, MatchEnd
  <2>2. text_ptr \in 0 .. Len(Buffer.chars) /\ n_chars \in text_ptr .. Len(Buffer.chars)
          /\ matched \in 0 .. n_chars - text_ptr
    BY <1>3
  <2>3. SubSeq(SubSeq(Buffer.chars, text_ptr + 1, n_chars), matched + 1, n_chars - text_ptr)
        = SubSeq(Buffer.chars, text_ptr + matched + 1, n_chars)
    BY <1>3, <2>2, LeftOfLeft
  <2> QED
    BY <1>3, <2>1, <2>3 DEF Held
<1>5. Stream(Buffer)' = Stream(Buffer) /\ Stream(Buffer) \in Seq(Chars)
  <2>1. Stream(Buffer)' = Stream(Buffer)
    BY <1>1 DEF Stream, Buffer
  <2> QED
    BY <2>1, CurrentSlot, StreamType DEF Buffer, Strings
<1>6. Rest' = SubSeq(Rest, matched + 1, Len(Rest))
  <2>1. SubSeq(Held \o Stream(Buffer), matched + 1, Len(Held \o Stream(Buffer)))
        = SubSeq(Held, matched + 1, Len(Held)) \o Stream(Buffer)
    BY <1>3, <1>5, LeftOfConcat
  <2> QED
    BY <1>4, <1>5, <2>1 DEF Rest
<1>7. /\ Depth \in Nat /\ TextsLeft \in Seq(Strings) /\ Len(TextsLeft) = Depth + 1
      /\ TextsLeft[Depth + 1] = Rest /\ \A i \in 1 .. Depth : TextsLeft[i] = Outer(i)
  BY DEF TextsInv
<1> DEFINE left == SubSeq(Rest, matched + 1, Len(Rest))
<1>8. /\ TextsLeft' \in Seq(Strings) /\ Len(TextsLeft') = Depth + 1
      /\ TextsLeft'[Depth + 1] = left /\ left \in Strings
      /\ \A i \in 1 .. Depth : TextsLeft'[i] = Outer(i)
  <2>1. Depth' + 1 = Depth + 1 /\ 1 .. Depth' = 1 .. Depth
    BY <1>2
  <2>2. /\ TextsLeft' \in Seq(Strings) /\ Len(TextsLeft') = Depth' + 1 /\ Rest' \in Strings
        /\ TextsLeft'[Depth' + 1] = Rest'
        /\ \A i \in 1 .. Depth' : TextsLeft'[i] = Outer(i)'
    BY DEF TextsInv, Strings, Chars
  <2> QED
    BY <1>2, <1>6, <2>1, <2>2
<1> HIDE DEF left
<1> DEFINE new == [TextsLeft EXCEPT ![Depth + 1] = left]
<1>9. new \in Seq(Strings) /\ Len(new) = Depth + 1
        /\ \A i \in 1 .. Depth + 1 : new[i] = IF i = Depth + 1 THEN left ELSE TextsLeft[i]
  <2>1. Depth + 1 \in 1 .. Len(TextsLeft)
    BY <1>7
  <2> QED
    BY <1>7, <1>8, <2>1, ExceptSeq
<1> HIDE DEF new
<1>10. \A i \in 1 .. Depth + 1 : TextsLeft'[i] = new[i]
  <2> TAKE i \in 1 .. Depth + 1
  <2>1. (i \in 1 .. Depth /\ i # Depth + 1) \/ i = Depth + 1
    BY <1>7
  <2> QED
    BY <1>7, <1>8, <1>9, <2>1
<1>11. TextsLeft' = new
  BY <1>8, <1>9, <1>10, SeqEqual
<1> QED
  BY <1>7, <1>11 DEF Abstract!Read, Abstract!Left, Abstract!Text, new, left

\* What a rule acts on is what TokenStream sees at the beginning of the text.
LEMMA ActsOnTheText ==
  ASSUME ScanAssumption, ScanInv, TextsInv, Acting
  PROVE  /\ Abstract!Text = Rest /\ Rest # <<>> /\ Head(Rest) = First
         /\ Abstract!Run = RunHeld /\ RunHeld \in Nat
         /\ matched = IF RunHeld > 0 THEN RunHeld ELSE 1
         /\ InRun <=> RunHeld > 0
<1>1. /\ Held # <<>> /\ matched = IF RunHeld > 0 THEN RunHeld ELSE 1
      /\ RunHeld < Len(Held) \/ Stream(Buffer) = <<>>
  BY DEF ScanInv, StageInv, Acting
<1>2. Held \in Seq(Chars) /\ Stream(Buffer) \in Seq(Chars)
  BY CurrentBuffer, CurrentSlot, StreamType DEF Buffer, Strings
<1>3. Abstract!Text = Rest
  BY DEF TextsInv, Abstract!Text
<1>4. Len(Held) \in Nat /\ Len(Held) > 0 /\ Len(Stream(Buffer)) \in Nat
  BY <1>1, <1>2, EmptySeq, LenProperties
<1>5. Rest # <<>> /\ Head(Rest) = First
  <2> DEFINE u == Stream(Buffer)
             h == Held
  <2>1. /\ h \o u \in Seq(Chars) /\ Len(h \o u) = Len(h) + Len(u)
        /\ \A i \in 1 .. Len(h) + Len(u) :
             (h \o u)[i] = IF i <= Len(h) THEN h[i] ELSE u[i - Len(h)]
    BY <1>2, ConcatProperties
  <2> HIDE DEF u, h
  <2>2. Len(h) \in Nat /\ Len(h) > 0 /\ Len(u) \in Nat
    BY <1>4 DEF h, u
  <2>3. (h \o u)[1] = h[1] /\ Len(h \o u) > 0
    BY <2>1, <2>2
  <2>4. h \o u # <<>>
    BY <2>3, EmptySeq
  <2>5. Head(h \o u) = h[1] /\ Head(h) = h[1]
    <3>1. \A s \in Seq(Chars) : Head(s) = s[1]
      OBVIOUS
    <3> QED
      BY <1>2, <2>1, <2>3, <3>1 DEF h
  <2> QED
    BY <2>4, <2>5 DEF Rest, First, h, u
<1>6. Abstract!Run = RunHeld
  <2>1. Abstract!Run = Abstract!RunLength(Rest, Abstract!RunClass(mode))
    BY <1>3 DEF Abstract!Run
  <2>2. Abstract!RunClass(mode) = Tokens!RunClass(mode)
    BY DEF Abstract!RunClass, Tokens!RunClass, Abstract!Characters, Tokens!Characters
  <2>3. Abstract!RunLength(Rest, Tokens!RunClass(mode))
        = Tokens!RunLength(Rest, Tokens!RunClass(mode))
    BY DEF Abstract!RunLength, Tokens!RunLength
  <2>4. Tokens!RunLength(Held \o Stream(Buffer), Tokens!RunClass(mode))
        = Tokens!RunLength(Held, Tokens!RunClass(mode))
    BY <1>1, <1>2, RunOfConcat DEF RunHeld
  <2> QED
    BY <2>1, <2>2, <2>3, <2>4, Zenon DEF Rest, RunHeld
<1>7. RunHeld \in Nat /\ (InRun <=> RunHeld > 0)
  <2> DEFINE class == Tokens!RunClass(mode)
  <2>1. RunHeld \in 0 .. Len(Held) /\ IsRun(Held, class, RunHeld)
    BY HeldRun
  <2>2. First = Held[1]
    BY <1>1, <1>2 DEF First
  <2> HIDE DEF class
  <2>3. RunHeld \in Nat
    BY <1>4, <2>1
  <2>4. CASE RunHeld > 0
    <3>1. 1 \in 1 .. RunHeld
      BY <2>3, <2>4
    <3>2. Held[1] \in class
      BY <2>1, <3>1 DEF IsRun
    <3> QED
      BY <2>2, <2>3, <2>4, <3>2 DEF InRun, class
  <2>5. CASE ~(RunHeld > 0)
    <3>1. RunHeld = 0 /\ RunHeld < Len(Held)
      BY <1>4, <2>3, <2>5
    <3>2. Held[1] \notin class
      <4>1. Held[RunHeld + 1] \notin class
        BY <2>1, <3>1 DEF IsRun
      <4> QED
        BY <3>1, <4>1
    <3> QED
      BY <2>2, <2>3, <2>5, <3>2 DEF InRun, class
  <2> QED
    BY <2>3, <2>4, <2>5
<1> QED
  BY <1>1, <1>3, <1>5, <1>6, <1>7

\* The rules of names, of parts of strings, of white space and of quotes.
LEMMA RulesRefine ==
  ASSUME ScanAssumption, ScanInv, TextsInv, TextsInv', ~ended,
         ActName \/ ActStringPart \/ ActSpace \/ ActQuote
  PROVE  Abstract!Next
<1>1. Acting /\ Advance /\ UNCHANGED contents
  BY DEF ActName, ActStringPart, ActSpace, ActQuote, Advance
<1>2. Abstract!Read(matched)
  BY <1>1, AdvanceReads
<1>3. /\ Abstract!Text = Rest /\ Rest # <<>> /\ Head(Rest) = First
      /\ Abstract!Run = RunHeld /\ RunHeld \in Nat
      /\ matched = IF RunHeld > 0 THEN RunHeld ELSE 1
      /\ InRun <=> RunHeld > 0
  BY <1>1, ActsOnTheText
<1>4. ASSUME First = "quote" \/ (mode = "INITIAL" /\ First = "blank") PROVE matched = 1
  <2>1. ~InRun
    BY <1>4 DEF InRun, Tokens!RunClass
  <2> QED
    BY <1>3, <2>1
<1>5. CASE ActName
  <2>1. Abstract!Name
    <3>1. /\ mode = "INITIAL" /\ InRun /\ tokens' = Append(tokens, <<"name", matched>>)
          /\ UNCHANGED <<mode, string, ended>>
      BY <1>5 DEF ActName
    <3>2. Abstract!Run > 0 /\ matched = Abstract!Run
      BY <1>3, <3>1
    <3> QED
      BY <1>1, <1>2, <3>1, <3>2 DEF Abstract!Name
  <2> QED
    BY <2>1 DEF Abstract!Next
<1>6. CASE ActStringPart
  <2>1. Abstract!StringPart
    <3>1. /\ mode = "STRING" /\ InRun /\ string' = string + matched
          /\ UNCHANGED <<mode, tokens, ended>>
      BY <1>6 DEF ActStringPart
    <3>2. Abstract!Run > 0 /\ matched = Abstract!Run
      BY <1>3, <3>1
    <3> QED
      BY <1>1, <1>2, <3>1, <3>2 DEF Abstract!StringPart
  <2> QED
    BY <2>1 DEF Abstract!Next
<1>7. CASE ActSpace
  <2>1. Abstract!Space
    BY <1>1, <1>2, <1>3, <1>4, <1>7 DEF ActSpace, tokenVars, Abstract!Space
  <2> QED
    BY <2>1 DEF Abstract!Next
<1>8. CASE ActQuote
  <2>1. Abstract!Quote
    BY <1>1, <1>2, <1>3, <1>4, <1>8 DEF ActQuote, Abstract!Quote
  <2> QED
    BY <2>1 DEF Abstract!Next
<1> QED
  BY <1>5, <1>6, <1>7, <1>8

\* Matching, the end of a string and a refill leave the texts as they are.
LEMMA ReadingStutters ==
  ASSUME ScanAssumption, ScanInv, TextsInv, TextsInv', Match \/ EndOfString \/ Fill
  PROVE  TextsLeft' = TextsLeft /\ UNCHANGED <<contents, tokenVars>>
<1>1. CASE Match
  <2>1. /\ UNCHANGED <<contents, saved, buffers, current, unread, n_chars, text_ptr>>
        /\ UNCHANGED tokenVars
    BY <1>1 DEF Match
  <2>2. Depth' = Depth /\ Rest' = Rest /\ \A i \in 1 .. Depth : Outer(i)' = Outer(i)
    BY <2>1 DEF Depth, Rest, Held, Stream, Buffer, Outer, RestOf
  <2> QED
    BY <2>1, <2>2, SameTexts
<1>2. /\ current \in Slots /\ current = Depth + 1 /\ Depth \in Nat
      /\ \A i \in 1 .. Depth : i \in Slots /\ i # current /\ i \in 1 .. current
  BY CurrentSlot
<1>3. CASE EndOfString
  <2>1. /\ buffers' = [buffers EXCEPT ![current] = Fresh(Buffer)] /\ n_chars' = NChars
        /\ UNCHANGED <<contents, current, saved, unread, text_ptr>> /\ UNCHANGED tokenVars
    BY <1>3 DEF EndOfString, LastMatch, Buffer
  <2>2. /\ Fresh(Buffer) \in BufferType /\ Fresh(Buffer).chars = Buffer.chars
        /\ Fresh(Buffer).file = Buffer.file /\ Fresh(Buffer).fill = Buffer.fill
        /\ NChars = n_chars /\ Fresh(Buffer).status # "FREE"
    BY FreshIs, CurrentSlot DEF ScanInv, StackInv, Buffer
  <2>3. /\ Buffer' = Fresh(Buffer) /\ Depth' = Depth
        /\ \A s \in Slots : s # current => buffers'[s] = buffers[s]
    BY <2>1, <2>2, CurrentChanges
  <2>4. Rest' = Rest
    <3>1. Held' = Held
      BY <2>1, <2>2, <2>3 DEF Held
    <3>2. Stream(Buffer)' = Stream(Buffer)
      BY <2>1, <2>2, <2>3 DEF Stream
    <3> QED
      BY <3>1, <3>2 DEF Rest
  <2>5. \A i \in 1 .. Depth : Outer(i)' = Outer(i)
    <3> TAKE i \in 1 .. Depth
    <3>1. buffers'[i] = buffers[i] /\ unread' = unread
      BY <1>2, <2>1, <2>3
    <3> QED
      BY <3>1 DEF Outer, RestOf
  <2> QED
    BY <2>1, <2>3, <2>4, <2>5, SameTexts
<1>4. CASE Fill
  <2>1. stage = "end of buffer" /\ Buffer.fill
    BY <1>4, FillIs
  <2>2. PICK k, nb : Refilled(k, nb)
    BY <1>4, FillIs
  <2>3. /\ k \in 0 .. Len(unread[current]) /\ nb \in BufferType
        /\ nb.file = current /\ nb.fill /\ nb.status # "FREE"
        /\ buffers' = [buffers EXCEPT ![current] = nb]
        /\ unread' = [unread EXCEPT ![current] =
                        SubSeq(unread[current], k + 1, Len(unread[current]))]
        /\ UNCHANGED <<contents, current, saved>> /\ UNCHANGED tokenVars
    BY <2>2 DEF Refilled
  <2>4. /\ Buffer' = nb /\ Depth' = Depth
        /\ \A s \in Slots : s # current => buffers'[s] = buffers[s]
    BY <2>3, CurrentChanges
  <2>5. /\ unread \in [Slots -> Strings] /\ unread[current] \in Seq(Chars)
        /\ Held \in Seq(Chars) /\ Stream(Buffer) = unread[current]
        /\ Len(unread[current]) \in Nat
    <3>1. BufferInv(current) /\ Held \in Strings
      BY CurrentBuffer
    <3>2. unread \in [Slots -> Strings]
      BY DEF ScanInv
    <3>3. Buffer.file = current
      BY <2>1, <3>1 DEF BufferInv, Buffer
    <3> QED
      BY <1>2, <2>1, <3>1, <3>2, <3>3, LenProperties DEF Stream, Strings
  <2> DEFINE u == unread[current]
             v == SubSeq(u, 1, k)
             w == SubSeq(u, k + 1, Len(u))
  <2>6. /\ unread'[current] = w /\ \A s \in Slots : s # current => unread'[s] = unread[s]
    BY <1>2, <2>3, <2>5
  <2>7. Held' = Held \o v
    BY <2>1, <2>2, <2>4, RefilledHeld
  <2>8. Stream(Buffer)' = w
    BY <2>3, <2>4, <2>6 DEF Stream
  <2>9. Rest' = Rest
    <3>1. v \o w = u /\ v \in Seq(Chars) /\ w \in Seq(Chars)
      BY <2>3, <2>5, CutInTwo
    <3> HIDE DEF v, w
    <3>2. (Held \o v) \o w = Held \o (v \o w)
      <4>1. \A x, y, z \in Seq(Chars) : (x \o y) \o z = x \o (y \o z)
        BY ConcatAssociative
      <4> QED
        BY <2>5, <3>1, <4>1, Zenon
    <3> QED
      BY <2>5, <2>7, <2>8, <3>1, <3>2 DEF Rest
  <2>10. \A i \in 1 .. Depth : Outer(i)' = Outer(i)
    <3> TAKE i \in 1 .. Depth
    <3>1. buffers'[i] = buffers[i] /\ i \in Slots /\ i # current /\ BufferInv(i)
      BY <1>2, <2>4 DEF ScanInv
    <3>2. buffers[i].fill => unread'[buffers[i].file] = unread[buffers[i].file]
      BY <2>6, <3>1 DEF BufferInv
    <3> QED
      BY <3>1, <3>2 DEF Outer, RestOf
  <2> QED
    BY <2>3, <2>4, <2>9, <2>10, SameTexts
<1> QED
  BY <1>1, <1>3, <1>4

\* An inclusion leaves the including text where the match ends, and opens the included one.
LEMMA IncludeRefines ==
  ASSUME ScanAssumption, ScanInv, TextsInv, TextsInv', ~ended, ActInclude
  PROVE  Abstract!Next
<1>1. Acting /\ mode = "INITIAL" /\ First \in Files /\ UNCHANGED <<contents, mode, string>>
  BY DEF ActInclude, tokenVars, Advance
<1>2. /\ Abstract!Text = Rest /\ Rest # <<>> /\ Head(Rest) = First
      /\ matched = IF RunHeld > 0 THEN RunHeld ELSE 1
      /\ InRun <=> RunHeld > 0
  BY <1>1, ActsOnTheText
<1>3. matched = 1
  <2>1. ~InRun
    BY <1>1, ScanAssumption DEF InRun, Tokens!RunClass, ScanAssumption
  <2> QED
    BY <1>2, <2>1
<1>4. /\ Depth \in Nat /\ TextsLeft \in Seq(Strings) /\ Len(TextsLeft) = Depth + 1
      /\ TextsLeft[Depth + 1] = Rest /\ Rest \in Strings
      /\ \A i \in 1 .. Depth : TextsLeft[i] = Outer(i)
  BY DEF TextsInv
<1>5. Depth <= MAX_INCLUDE_DEPTH /\ MAX_INCLUDE_DEPTH \in Nat
  BY CurrentSlot
<1>6. CASE Depth = MAX_INCLUDE_DEPTH
  <2>1. /\ tokens' = Append(tokens, <<"error", 0>>) /\ ended' = TRUE /\ Advance
    BY <1>6 DEF ActInclude
  <2>2. Abstract!Read(1)
    BY <1>3, <2>1, AdvanceReads
  <2>3. ~(Len(TextsLeft) <= MAX_INCLUDE_DEPTH)
    BY <1>4, <1>6
  <2> QED
    BY <1>1, <1>2, <2>1, <2>2, <2>3 DEF Abstract!Include, Abstract!Next
<1>7. CASE Depth # MAX_INCLUDE_DEPTH
  <2> DEFINE new == Depth + 2
             left == SubSeq(Rest, 1 + 1, Len(Rest))
             text == contents[First]
  <2>1. /\ saved' = Append(saved, current) /\ unread' = [unread EXCEPT ![new] = text]
        /\ buffers' = [Saved(buffers) EXCEPT ![new] = NewBuffer(new)] /\ current' = new
        /\ n_chars' = NewBuffer(new).n /\ text_ptr' = NewBuffer(new).pos
        /\ UNCHANGED tokenVars
    BY <1>7 DEF ActInclude, Load
  <2>2. /\ current = Depth + 1 /\ current \in Slots /\ new \in Slots /\ new # current
        /\ \A i \in 1 .. Depth : i \in Slots /\ i # current /\ i # new /\ i \in 1 .. current
    BY <1>4, <1>5, <1>7, CurrentSlot DEF Slots
  <2>3. /\ NewBuffer(new) \in BufferType /\ NewBuffer(new).chars = <<>> /\ NewBuffer(new).n = 0
        /\ NewBuffer(new).pos = 0 /\ NewBuffer(new).file = new /\ NewBuffer(new).fill
    BY <2>2, NewBufferIs
  <2>4. /\ unread \in [Slots -> Strings] /\ text \in Strings
        /\ unread'[new] = text /\ \A s \in Slots : s # new => unread'[s] = unread[s]
    <3>1. unread \in [Slots -> Strings] /\ text \in Strings
      BY <1>1 DEF ScanInv
    <3> HIDE DEF text, new
    <3> QED
      BY <2>1, <2>2, <3>1
  <2> HIDE DEF new, text
  <2>5. /\ buffers'[new] = NewBuffer(new)
        /\ buffers'[current] = [Buffer EXCEPT !.pos = MatchEnd, !.n = n_chars]
        /\ \A s \in Slots : s # current /\ s # new => buffers'[s] = buffers[s]
    <3>1. /\ Saved(buffers) \in [Slots -> BufferType]
          /\ Saved(buffers)[current] = [Buffer EXCEPT !.pos = MatchEnd, !.n = n_chars]
          /\ \A s \in Slots : s # current => Saved(buffers)[s] = buffers[s]
      BY SavedIs
    <3> DEFINE bs == Saved(buffers)
               nb == NewBuffer(new)
    <3>2. buffers' = [bs EXCEPT ![new] = nb] /\ bs \in [Slots -> BufferType]
      BY <2>1, <3>1
    <3> HIDE DEF bs, nb
    <3>3. buffers'[new] = nb /\ \A s \in Slots : s # new => buffers'[s] = bs[s]
      BY <2>2, <3>2
    <3> QED
      BY <2>2, <3>1, <3>3 DEF bs, nb
  <2>6. /\ buffers'[current].chars = Buffer.chars /\ buffers'[current].file = Buffer.file
        /\ buffers'[current].fill = Buffer.fill /\ buffers'[current].pos = MatchEnd
        /\ buffers'[current].n = n_chars
    <3>1. Buffer \in BufferType
      BY CurrentBuffer
    <3> DEFINE f == [Buffer EXCEPT !.pos = MatchEnd, !.n = n_chars]
    <3>2. /\ f.chars = Buffer.chars /\ f.file = Buffer.file /\ f.fill = Buffer.fill
          /\ f.pos = MatchEnd /\ f.n = n_chars
      BY <3>1 DEF BufferType
    <3>3. buffers'[current] = f
      BY <2>5
    <3> HIDE DEF f
    <3> QED
      BY <3>2, <3>3
  <2>7. Depth' = Depth + 1
    <3>1. Len(Append(saved, current)) = Len(saved) + 1
      BY <2>2, AppendProperties DEF ScanInv, StackInv
    <3> QED
      BY <2>1, <3>1 DEF Depth
  <2>8. Rest' = text
    <3>1. Buffer' = NewBuffer(new)
      BY <2>1, <2>5 DEF Buffer
    <3>2. Held' = <<>>
      <4>1. Held' = SubSeq(<<>>, text_ptr' + 1, n_chars')
        BY <2>3, <3>1 DEF Held
      <4>2. text_ptr' + 1 = 1
        BY <2>1, <2>3, FirstPlace, Zenon
      <4>3. Len(<<>>) = 0 /\ <<>> \in Seq(Chars)
        BY EmptySeq
      <4>4. SubSeq(<<>>, 1, Len(<<>>)) = <<>>
        BY <4>3, AllOfIt
      <4> QED
        BY <2>1, <2>3, <4>1, <4>2, <4>3, <4>4, Zenon
    <3>3. Stream(Buffer)' = text
      BY <2>3, <2>4, <3>1 DEF Stream
    <3> QED
      BY <2>4, <3>2, <3>3, ConcatEmptySeq DEF Rest, Strings
  <2>9. PICK c \in Nat : c = Depth + 1
    BY <1>4
  <2>10. c = current /\ c \in Slots
    BY <2>2, <2>9
  <2>11. Outer(c)' = left
    <3>1. Outer(c)' = SubSeq(Buffer.chars, MatchEnd + 1, n_chars) \o Stream(Buffer)
      <4>1. Buffer.fill => unread'[Buffer.file] = unread[Buffer.file]
        <5>1. BufferInv(current)
          BY CurrentBuffer
        <5>2. Buffer.fill => Buffer.file = current
          BY <5>1 DEF BufferInv, Buffer
        <5> QED
          BY <2>2, <2>4, <5>2
      <4>2. /\ buffers'[c].chars = Buffer.chars /\ buffers'[c].file = Buffer.file
            /\ buffers'[c].fill = Buffer.fill /\ buffers'[c].pos = MatchEnd
            /\ buffers'[c].n = n_chars
        BY <2>6, <2>10
      <4>3. Outer(c)' = SubSeq(buffers'[c].chars, buffers'[c].pos + 1, buffers'[c].n)
                          \o IF buffers'[c].fill THEN unread'[buffers'[c].file] ELSE <<>>
        BY DEF Outer, RestOf
      <4> QED
        BY <4>1, <4>2, <4>3 DEF Stream
    <3>2. /\ Buffer.chars \in Seq(Chars) /\ Held \in Seq(Chars) /\ Len(Held) = n_chars - text_ptr
          /\ text_ptr \in 0 .. n_chars /\ n_chars \in 0 .. Len(Buffer.chars)
          /\ 1 \in 0 .. Len(Held) /\ Len(Buffer.chars) \in Nat
      BY <1>3, CurrentBuffer DEF Strings, BufferType
    <3>3. Stream(Buffer) \in Seq(Chars)
      BY CurrentSlot, StreamType DEF Buffer, Strings
    <3>4. text_ptr \in 0 .. Len(Buffer.chars) /\ n_chars \in text_ptr .. Len(Buffer.chars)
            /\ 1 \in 0 .. n_chars - text_ptr
      BY <3>2
    <3>5. SubSeq(SubSeq(Buffer.chars, text_ptr + 1, n_chars), 1 + 1, n_chars - text_ptr)
          = SubSeq(Buffer.chars, text_ptr + 1 + 1, n_chars)
      BY <3>2, <3>4, LeftOfLeft
    <3>6. SubSeq(Held, 1 + 1, Len(Held)) = SubSeq(Buffer.chars, MatchEnd + 1, n_chars)
      BY <1>3, <3>2, <3>5 DEF Held, MatchEnd
    <3>7. SubSeq(Held \o Stream(Buffer), 1 + 1, Len(Held \o Stream(Buffer)))
          = SubSeq(Held, 1 + 1, Len(Held)) \o Stream(Buffer)
      BY <3>2, <3>3, LeftOfConcat
    <3> QED
      BY <3>1, <3>6, <3>7 DEF Rest
  <2>12. \A i \in 1 .. Depth : Outer(i)' = Outer(i)
    <3> TAKE i \in 1 .. Depth
    <3>1. buffers'[i] = buffers[i] /\ BufferInv(i) /\ i # new
      BY <2>2, <2>5 DEF ScanInv
    <3>2. buffers[i].fill => unread'[buffers[i].file] = unread[buffers[i].file]
      BY <2>2, <2>4, <3>1 DEF BufferInv
    <3> QED
      BY <3>1, <3>2 DEF Outer, RestOf
  <2>13. /\ TextsLeft' \in Seq(Strings) /\ Len(TextsLeft') = Depth + 2
         /\ TextsLeft'[Depth + 2] = text /\ TextsLeft'[c] = left
         /\ \A i \in 1 .. Depth : TextsLeft'[i] = Outer(i)
    <3>1. /\ TextsLeft' \in Seq(Strings) /\ Len(TextsLeft') = Depth' + 1
          /\ TextsLeft'[Depth' + 1] = Rest'
          /\ \A i \in 1 .. Depth' : TextsLeft'[i] = Outer(i)'
      BY DEF TextsInv, Strings, Chars
    <3>2. Depth' + 1 = Depth + 2 /\ c \in 1 .. Depth' /\ \A i \in 1 .. Depth : i \in 1 .. Depth'
      BY <1>4, <2>7, <2>9
    <3> QED
      BY <2>8, <2>11, <2>12, <3>1, <3>2
  <2> DEFINE mid == [TextsLeft EXCEPT ![Depth + 1] = left]
             end == Append(mid, text)
  <2>14. left \in Strings
    <3>1. 1 \in 0 .. Len(Rest) /\ Len(Rest) \in 1 .. Len(Rest) /\ Rest \in Seq(Chars)
      <4>1. Len(Rest) \in Nat /\ Rest \in Seq(Chars)
        BY <1>4, LenProperties DEF Strings
      <4>2. Len(Rest) > 0
        BY <1>2, <4>1, EmptySeq
      <4> QED
        BY <4>1, <4>2
    <3> QED
      BY <3>1, LeftOf DEF Strings
  <2> HIDE DEF left
  <2>15. mid \in Seq(Strings) /\ Len(mid) = Depth + 1
           /\ \A i \in 1 .. Depth + 1 : mid[i] = IF i = Depth + 1 THEN left ELSE TextsLeft[i]
    <3>1. Depth + 1 \in 1 .. Len(TextsLeft)
      BY <1>4
    <3> QED
      BY <1>4, <2>14, <3>1, ExceptSeq
  <2> HIDE DEF mid
  <2>16. /\ end \in Seq(Strings) /\ Len(end) = Depth + 2 /\ end[Depth + 2] = text
         /\ \A i \in 1 .. Depth + 1 : end[i] = mid[i]
    <3>1. /\ end \in Seq(Strings) /\ Len(end) = Len(mid) + 1 /\ end[Len(mid) + 1] = text
          /\ \A i \in 1 .. Len(mid) : end[i] = mid[i]
      BY <2>4, <2>15, AppendProperties
    <3>2. Depth + 1 + 1 = Depth + 2
      BY <1>4
    <3> QED
      BY <2>15, <3>1, <3>2
  <2> HIDE DEF end
  <2>17. \A i \in 1 .. Depth + 2 : TextsLeft'[i] = end[i]
    <3> TAKE i \in 1 .. Depth + 2
    <3>1. \/ i \in 1 .. Depth /\ i # Depth + 1 /\ i \in 1 .. Depth + 1
          \/ i = Depth + 1 /\ i \in 1 .. Depth + 1
          \/ i = Depth + 2
      BY <1>4
    <3> QED
      BY <1>4, <2>9, <2>13, <2>15, <2>16, <3>1
  <2>18. TextsLeft' = end
    BY <2>13, <2>16, <2>17, SeqEqual
  <2>19. Len(TextsLeft) <= MAX_INCLUDE_DEPTH
    BY <1>4, <1>5, <1>7
  <2>20. TextsLeft' = Append([TextsLeft EXCEPT ![Len(TextsLeft)] = Abstract!Left(1)],
                             contents[Head(Rest)])
    BY <1>2, <1>4, <2>18 DEF end, mid, left, text, Abstract!Left
  <2> QED
    BY <1>1, <1>2, <2>1, <2>19, <2>20 DEF Abstract!Include, Abstract!Next, tokenVars
<1> QED
  BY <1>6, <1>7

\* Nothing is left of the current text when the scanner takes it for ended.
LEMMA NothingLeft ==
  ASSUME ScanAssumption, ScanInv, TextsInv, EndOfInput
  PROVE  Held = <<>> /\ Stream(Buffer) = <<>> /\ Rest = <<>> /\ Abstract!Text = <<>>
<1>1. stage = "end of buffer" /\ matched = 0
        /\ (Buffer.fill => unread[Fresh(Buffer).file] = <<>> \/ Buffer.status = "EOF_PENDING")
  BY DEF EndOfInput
<1>2. Held = <<>>
  <2>1. Len(Held) = 0 /\ Held \in Strings
    BY <1>1, AtEndOfBuffer, CurrentBuffer
  <2> QED
    BY <2>1, EmptySeq DEF Strings
<1>3. Stream(Buffer) = <<>>
  <2>1. BufferInv(current) /\ Fresh(Buffer).file = Buffer.file
    BY CurrentBuffer, FreshIs
  <2>2. Buffer.status = "EOF_PENDING" => Stream(Buffer) = <<>>
    BY <2>1 DEF BufferInv, Buffer
  <2>3. Buffer.fill /\ unread[Buffer.file] = <<>> => Stream(Buffer) = <<>>
    BY DEF Stream
  <2>4. ~Buffer.fill => Stream(Buffer) = <<>>
    BY DEF Stream
  <2> QED
    BY <1>1, <2>1, <2>2, <2>3, <2>4
<1>4. Rest = <<>>
  <2>1. <<>> \in Seq(Chars)
    BY EmptySeq
  <2> QED
    BY <1>2, <1>3, <2>1, ConcatEmptySeq DEF Rest
<1> QED
  BY <1>2, <1>3, <1>4 DEF TextsInv, Abstract!Text

\* The end of the outermost text, and of an included one.
LEMMA EndRefines ==
  ASSUME ScanAssumption, ScanInv, TextsInv, TextsInv', ScanInv', ~ended, EndOfInput
  PROVE  Abstract!Next
<1>1. Held = <<>> /\ Stream(Buffer) = <<>> /\ Rest = <<>> /\ Abstract!Text = <<>>
  BY NothingLeft
<1>2. /\ Depth \in Nat /\ TextsLeft \in Seq(Strings) /\ Len(TextsLeft) = Depth + 1
      /\ TextsLeft[Depth + 1] = Rest
      /\ \A i \in 1 .. Depth : TextsLeft[i] = Outer(i)
  BY DEF TextsInv
<1>3. UNCHANGED <<contents, source, unread, mode, string>>
  BY DEF EndOfInput
<1>4. /\ current = Depth + 1 /\ current \in Slots
      /\ \A i \in 1 .. Depth : i \in Slots /\ i # current
  BY CurrentSlot
<1>5. CASE Depth = 0
  <2>1. /\ tokens' = Append(tokens, <<"end", 0>>) /\ ended' = TRUE /\ stage' = stage
        /\ stage = "end of buffer" /\ UNCHANGED <<current, saved>>
    BY <1>5 DEF EndOfInput
  <2>2. matched' = 0
    <3>1. Load(Initialised(Fresh(Buffer), in)) => matched' = 0
      BY DEF Load
    <3> QED
      BY <1>5, <3>1 DEF EndOfInput, Load
  <2>3. Held' = <<>>
    <3>1. matched' = Len(Held')
      <4>1. StageInv'
        BY DEF ScanInv
      <4>2. stage' = "end of buffer"
        BY <2>1
      <4> QED
        BY <4>1, <4>2 DEF StageInv
    <3>2. Held' \in Strings
      BY DEF TextsInv, Strings, Chars
    <3>3. Len(Held') = 0 /\ Held' \in Seq(Chars)
      BY <2>2, <3>1, <3>2 DEF Strings, Chars
    <3> QED
      BY <3>3, EmptySeq
  <2>4. Stream(Buffer)' = <<>>
    <3> DEFINE b == Fresh(Buffer)
               r == IF b.fill THEN Initialised(b, in) ELSE b
    <3>1. buffers' = [buffers EXCEPT ![current] = r]
      BY <1>5 DEF EndOfInput
    <3>2. /\ b \in BufferType /\ b.fill = Buffer.fill /\ b.file = Buffer.file
          /\ in = Buffer.file /\ BufferInv(current)
      BY FreshIs, CurrentBuffer DEF ScanInv, ScannerInv
    <3>3. Buffer.fill => in \in Slots
      BY <1>4, <3>2 DEF BufferInv, Buffer
    <3>4. Buffer.fill => r.fill /\ r.file = in
      BY <3>2, <3>3, InitialisedIs
    <3>5. ~Buffer.fill => ~r.fill
      BY <3>2
    <3> HIDE DEF b, r
    <3>6. Buffer' = r
      BY <1>4, <2>1, <3>1 DEF ScanInv, Buffer
    <3>7. CASE Buffer.fill
      <4>1. Stream(Buffer)' = unread'[in] /\ Stream(Buffer) = unread[in] /\ unread' = unread
        BY <1>3, <3>2, <3>4, <3>6, <3>7 DEF Stream
      <4> QED
        BY <1>1, <4>1
    <3>8. CASE ~Buffer.fill
      BY <3>5, <3>6, <3>8 DEF Stream
    <3> QED
      BY <3>7, <3>8
  <2>5. Rest' = Rest
    BY <1>1, <2>3, <2>4 DEF Rest
  <2>6. Depth' = Depth /\ 1 .. Depth = {}
    <3>1. Depth' = Depth
      BY <2>1 DEF Depth
    <3> QED
      BY <1>5, <3>1
  <2>7. TextsLeft' = TextsLeft
    BY <2>5, <2>6, SameTexts
  <2>8. ~(Len(TextsLeft) > 1)
    BY <1>2, <1>5
  <2> QED
    BY <1>1, <1>3, <2>1, <2>7, <2>8 DEF Abstract!EndOfFile, Abstract!Next
<1>6. CASE Depth # 0
  <2>1. /\ Depth' = Depth - 1 /\ current' = Depth
        /\ n_chars' = buffers[Depth].n /\ text_ptr' = buffers[Depth].pos
        /\ \A s \in Slots : s # current => buffers'[s] = buffers[s]
        /\ UNCHANGED <<contents, source, unread, tokenVars>>
    BY <1>6, PopIs
  <2>2. \A i \in 1 .. Depth : Outer(i)' = Outer(i)
    <3> TAKE i \in 1 .. Depth
    <3>1. buffers'[i] = buffers[i] /\ unread' = unread
      BY <1>4, <2>1
    <3> QED
      BY <3>1 DEF Outer, RestOf
  <2>3. Depth \in 1 .. Depth
    BY <1>2, <1>6
  <2>4. Rest' = Outer(Depth)
    <3>1. Buffer' = buffers[Depth] /\ unread' = unread
      BY <1>4, <2>1, <2>3 DEF Buffer
    <3> QED
      BY <2>1, <3>1 DEF Rest, Held, Stream, Outer, RestOf
  <2>5. /\ TextsLeft' \in Seq(Strings) /\ Len(TextsLeft') = Depth
        /\ \A i \in 1 .. Depth : TextsLeft'[i] = Outer(i)
    <3>1. /\ TextsLeft' \in Seq(Strings) /\ Len(TextsLeft') = Depth' + 1
          /\ TextsLeft'[Depth' + 1] = Rest'
          /\ \A i \in 1 .. Depth' : TextsLeft'[i] = Outer(i)'
      BY DEF TextsInv, Strings, Chars
    <3>2. Depth' + 1 = Depth /\ \A i \in 1 .. Depth : i \in 1 .. Depth' \/ i = Depth
      BY <1>2, <2>1
    <3> QED
      BY <2>2, <2>3, <2>4, <3>1, <3>2
  <2> DEFINE front == SubSeq(TextsLeft, 1, Len(TextsLeft) - 1)
  <2>6. /\ front \in Seq(Strings) /\ Len(front) = Depth
        /\ \A i \in 1 .. Depth : front[i] = TextsLeft[i]
    <3>1. 0 \in 0 .. Len(TextsLeft) /\ Depth \in 0 .. Len(TextsLeft) /\ Depth - 0 = Depth
            /\ Len(TextsLeft) - 1 = Depth
      BY <1>2
    <3>2. /\ SubSeq(TextsLeft, 0 + 1, Depth) \in Seq(Strings)
          /\ Len(SubSeq(TextsLeft, 0 + 1, Depth)) = Depth - 0
          /\ \A i \in 1 .. Depth - 0 : SubSeq(TextsLeft, 0 + 1, Depth)[i] = TextsLeft[0 + i]
      BY <1>2, <3>1, LeftOf
    <3>3. front = SubSeq(TextsLeft, 0 + 1, Depth)
      BY <3>1, FirstPlace, Zenon
    <3>4. \A i \in 1 .. Depth : 0 + i = i
      BY <1>2
    <3> HIDE DEF front
    <3> QED
      BY <3>1, <3>2, <3>3, <3>4
  <2> HIDE DEF front
  <2>7. TextsLeft' = front
    <3>1. \A i \in 1 .. Depth : TextsLeft'[i] = front[i]
      BY <1>2, <2>5, <2>6
    <3> QED
      BY <2>5, <2>6, <3>1, SeqEqual
  <2>8. Len(TextsLeft) > 1
    BY <1>2, <1>6
  <2> QED
    BY <1>1, <1>3, <2>1, <2>7, <2>8 DEF Abstract!EndOfFile, Abstract!Next, front, tokenVars
<1> QED
  BY <1>5, <1>6

\* At first there is the text of one file, whatever it is read from.
LEMMA InitRefines ==
  ASSUME ScanAssumption, Init, ScanInv, TextsInv PROVE Abstract!Init
<1>1. PICK root \in Files :
        LET first == IF source = "file" THEN NewBuffer(1) ELSE ScanBytes(contents[root]) IN
        /\ unread = [s \in Slots |-> IF s = 1 /\ source = "file" THEN contents[root] ELSE <<>>]
        /\ buffers = [s \in Slots |-> IF s = 1 THEN first ELSE NoBuffer]
        /\ n_chars = first.n /\ in = first.file
  BY DEF Init
<1> DEFINE first == IF source = "file" THEN NewBuffer(1) ELSE ScanBytes(contents[root])
           text == contents[root]
<1>2. /\ current = 1 /\ saved = <<>> /\ text_ptr = 0 /\ matched = 0
      /\ mode = "INITIAL" /\ string = 0 /\ tokens = <<>> /\ ended = FALSE
  BY DEF Init
<1>3. 1 \in Slots
  BY DEF Slots, ScanAssumption
<1>4. text \in Seq(Chars) /\ <<>> \in Seq(Chars) /\ Len(<<>>) = 0
  BY EmptySeq DEF ScanInv, Strings
<1> HIDE DEF first
<1>5. Buffer = first /\ n_chars = first.n
  BY <1>1, <1>2, <1>3 DEF Buffer, first
<1> HIDE DEF text
<1>6. Held = SubSeq(first.chars, 1, first.n)
  BY <1>2, <1>5, FirstPlace, Zenon DEF Held
<1>7. Rest = text
  <2>1. CASE source = "file"
    <3>1. /\ NewBuffer(1).chars = <<>> /\ NewBuffer(1).n = 0 /\ NewBuffer(1).file = 1
          /\ NewBuffer(1).fill
      BY <1>3, NewBufferIs
    <3>2. first.chars = <<>> /\ first.n = 0 /\ first.file = 1 /\ first.fill
      BY <2>1, <3>1 DEF first
    <3>3. SubSeq(<<>>, 1, Len(<<>>)) = <<>>
      BY <1>4, AllOfIt
    <3>4. Held = <<>>
      BY <1>4, <1>6, <3>2, <3>3
    <3>5. Stream(Buffer) = text
      BY <1>1, <1>3, <1>5, <2>1, <3>2 DEF Stream, text
    <3> QED
      BY <1>4, <3>4, <3>5, ConcatEmptySeq DEF Rest
  <2>2. CASE source # "file"
    <3>1. first.chars = text /\ first.n = Len(text) /\ ~first.fill
      BY <2>2 DEF first, text, ScanBytes, ScanBuffer
    <3>2. Held = text
      BY <1>4, <1>6, <3>1, AllOfIt
    <3>3. Stream(Buffer) = <<>>
      BY <1>5, <3>1 DEF Stream
    <3> QED
      BY <1>4, <3>2, <3>3, ConcatEmptySeq DEF Rest
  <2> QED
    BY <2>1, <2>2
<1>8. Depth = 0
  BY <1>2 DEF Depth
<1>9. TextsLeft = <<text>>
  <2>1. TextsLeft \in Seq(Strings) /\ Len(TextsLeft) = Depth + 1 /\ TextsLeft[Depth + 1] = Rest
          /\ Rest \in Strings
    BY DEF TextsInv
  <2>2. Len(TextsLeft) = 1 /\ TextsLeft[1] = text /\ text \in Strings
    BY <1>7, <1>8, <2>1
  <2>3. <<text>> \in Seq(Strings) /\ Len(<<text>>) = 1 /\ <<text>>[1] = text
    BY <2>2
  <2>4. \A i \in 1 .. 1 : TextsLeft[i] = <<text>>[i]
    BY <2>2, <2>3
  <2> QED
    BY <2>1, <2>2, <2>3, <2>4, SeqEqual
<1> QED
  BY <1>2, <1>9 DEF Abstract!Init, text

\* Every step of the scanner is one of TokenStream, or leaves its state as it is.
LEMMA NextRefines ==
  ASSUME ScanAssumption, ScanInv, ScanInv', TextsInv, TextsInv', [Next]_vars
  PROVE  [Abstract!Next]_(Abstract!vars)
<1>1. CASE Next
  <2>1. ~ended
    BY <1>1 DEF Next
  <2>2. CASE Match \/ EndOfString \/ Fill
    BY <2>2, ReadingStutters DEF Abstract!vars, tokenVars
  <2>3. CASE ActName \/ ActStringPart \/ ActSpace \/ ActQuote
    BY <2>1, <2>3, RulesRefine
  <2>4. CASE ActInclude
    BY <2>1, <2>4, IncludeRefines
  <2>5. CASE EndOfInput
    BY <2>1, <2>5, EndRefines
  <2> QED
    BY <1>1, <2>2, <2>3, <2>4, <2>5 DEF Next
<1>2. CASE UNCHANGED vars
  <2>1. UNCHANGED <<contents, saved, buffers, current, unread, n_chars, text_ptr>>
          /\ UNCHANGED tokenVars
    BY <1>2 DEF vars, scanVars, tokenVars
  <2>2. Depth' = Depth /\ Rest' = Rest /\ \A i \in 1 .. Depth : Outer(i)' = Outer(i)
    BY <2>1 DEF Depth, Rest, Held, Stream, Buffer, Outer, RestOf
  <2>3. TextsLeft' = TextsLeft
    BY <2>2, SameTexts
  <2> QED
    BY <2>1, <2>3 DEF Abstract!vars, tokenVars
<1> QED
  BY <1>1, <1>2

\* The scanner cuts the texts into the tokens that TokenStream would, for any files, any depth
\* of inclusion, any size of the buffers and reads of any length: no refill and no switch of
\* buffers loses, repeats or splits anything.
THEOREM CutsIntoTokens == Spec => ImplementsTokenStream
<1>1. ScanInv => TextsInv
  BY TextsShape
<1>2. ScanInv' => TextsInv'
  BY <1>1, PTL
<1>3. Init /\ ScanInv => Abstract!Init
  BY <1>1, ScanAssumption, InitRefines
<1>4. ScanInv /\ ScanInv' /\ [Next]_vars => [Abstract!Next]_(Abstract!vars)
  BY <1>1, <1>2, ScanAssumption, NextRefines
<1> QED
  BY <1>3, <1>4, Scanning, PTL DEF Spec, ImplementsTokenStream, Abstract!Spec
=============================================================================
