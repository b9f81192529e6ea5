--------------------------- MODULE SettingsProofs ---------------------------
(***************************************************************************)
(* Proofs about the tree of settings, for heaps of any size: what the      *)
(* recursive definitions of Settings compute, and that every operation of  *)
(* libconfig keeps the tree a tree.                                        *)
(***************************************************************************)
EXTENDS Settings, FiniteSetTheorems, SequenceTheorems, WellFoundedInduction, TLAPS

-----------------------------------------------------------------------------
(* Recursion.                                                              *)

\* Among finite sets there is one with no other below it.
LEMMA LeastSubset ==
  ASSUME NEW T, \A A \in T : IsFiniteSet(A), T # {}
  PROVE \E A \in T : \A B \in T : B \subseteq A => B = A
<1>1. T \subseteq FiniteSubsetsOf(UNION T)
  BY DEF FiniteSubsetsOf
<1>2. PICK A \in T : \A B \in T : <<B, A>> \notin StrictSubsetOrdering(UNION T)
  BY <1>1, FS_StrictSubsetOrderingWellFounded, WFMin
<1> QED
  BY <1>2 DEF StrictSubsetOrdering

\* A set of natural numbers has a least one.
LEMMA NatMin ==
  ASSUME NEW T \in SUBSET Nat, T # {}
  PROVE  \E x \in T : \A y \in T : x <= y
<1> DEFINE U == {A \in SUBSET Nat : \E x \in T : A = 0 .. x}
<1>1. \A x \in T : 0 .. x \in U
  OBVIOUS
<1>2. U # {}
  BY <1>1
<1>3. \A A \in U : IsFiniteSet(A)
  <2> SUFFICES ASSUME NEW x \in T PROVE IsFiniteSet(0 .. x)
    OBVIOUS
  <2> QED BY FS_Interval
<1>4. \A A \in U : \E x \in T : A = 0 .. x
  OBVIOUS
<1> HIDE DEF U
<1>5. PICK A \in U : \A B \in U : B \subseteq A => B = A
  BY <1>2, <1>3, LeastSubset
<1>6. PICK x \in T : A = 0 .. x
  BY <1>4
<1>7. ASSUME NEW y \in T PROVE x <= y
  <2>1. 0 .. y \in U
    BY <1>1
  <2>2. y < x => 0 .. y \subseteq 0 .. x /\ x \in 0 .. x /\ x \notin 0 .. y
    OBVIOUS
  <2>3. x \in Nat /\ y \in Nat
    OBVIOUS
  <2> QED
    BY <2>1, <2>2, <2>3, <1>5, <1>6
<1> QED
  BY <1>7

\* What holds of 0, and of a number when it does of the one before, holds as far as one likes.
LEMMA Stepwise ==
  ASSUME NEW N \in Nat, NEW T, 0 \in T, \A k \in 1 .. N : k - 1 \in T => k \in T
  PROVE  0 .. N \subseteq T
<1> SUFFICES ASSUME NEW j \in 0 .. N, j \notin T PROVE FALSE
  OBVIOUS
<1> DEFINE U == {k \in 0 .. N : k \notin T}
<1>1. U \in SUBSET Nat /\ U # {}
  OBVIOUS
<1> HIDE DEF U
<1>2. PICK x \in U : \A y \in U : x <= y
  BY <1>1, NatMin
<1> USE DEF U
<1>3. x \in 1 .. N /\ x - 1 \in 0 .. N
  BY <1>2
<1>4. ~(x <= x - 1)
  BY <1>3
<1>5. x - 1 \notin U
  BY <1>2, <1>4
<1> QED
  BY <1>2, <1>3, <1>5

\* A recursion over 0 .. N: steps are triples of a number, what was there at the number before
\* and what is there now.
Recurs(f, N, T, start, steps) ==
  /\ f \in [0 .. N -> T]
  /\ f[0] = start
  /\ \A k \in 1 .. N : <<k, f[k - 1], f[k]>> \in steps

\* It has a solution.
LEMMA Recursion ==
  ASSUME NEW N \in Nat, NEW T, NEW start \in T, NEW steps,
         \A k \in 1 .. N, x \in T : \E y \in T : <<k, x, y>> \in steps
  PROVE  \E f : Recurs(f, N, T, start, steps)
<1> DEFINE Solves(f, n) ==
             f \in [0 .. N -> T] /\ f[0] = start /\ \A k \in 1 .. n : <<k, f[k - 1], f[k]>> \in steps
           holds == {n \in 0 .. N : \E f : Solves(f, n)}
<1>1. 0 \in holds
  <2>1. Solves([k \in 0 .. N |-> start], 0) /\ 0 \in 0 .. N
    OBVIOUS
  <2>2. \E f : Solves(f, 0)
    BY <2>1
  <2> HIDE DEF Solves
  <2> QED
    BY <2>1, <2>2
<1>2. ASSUME NEW n \in 1 .. N, n - 1 \in holds PROVE n \in holds
  <2>0. n - 1 \in 0 .. N /\ n \in 0 .. N
    OBVIOUS
  <2>1. PICK f : Solves(f, n - 1)
    BY <1>2, <2>0
  <2>2. f[n - 1] \in T
    BY <2>0, <2>1
  <2>3. PICK y \in T : <<n, f[n - 1], y>> \in steps
    BY <2>2
  <2> DEFINE g == [k \in 0 .. N |-> IF k = n THEN y ELSE f[k]]
  <2>4. g \in [0 .. N -> T] /\ g[0] = start
    BY <2>0, <2>1
  <2>5. ASSUME NEW k \in 1 .. n PROVE <<k, g[k - 1], g[k]>> \in steps
    <3>1. k \in 0 .. N /\ k - 1 \in 0 .. N /\ k - 1 # n
      BY <2>5
    <3>2. g[k - 1] = f[k - 1]
      BY <3>1
    <3>3. CASE k = n
      BY <2>3, <3>1, <3>2, <3>3
    <3>4. CASE k # n
      <4>1. k \in 1 .. n - 1
        BY <2>5, <3>4
      <4> QED
        BY <2>1, <3>1, <3>2, <3>4, <4>1
    <3> QED
      BY <3>3, <3>4
  <2>6. Solves(g, n)
    BY <2>4, <2>5
  <2> QED
    BY <2>0, <2>6
<1> HIDE DEF holds
<1>3. 0 .. N \subseteq holds
  BY <1>1, <1>2, Stepwise
<1>4. N \in holds
  BY <1>3
<1> QED
  BY <1>4 DEF holds, Recurs

-----------------------------------------------------------------------------
(* What is below a setting.                                                *)

Kids(h, m) == {h[m].kids[i] : i \in DOMAIN h[m].kids}
Closed(h, S) == \A m \in S : Kids(h, m) \subseteq S

\* The levels that Subtree goes through.
LEMMA SubtreeLevels ==
  ASSUME NEW h, \A m \in Settings : Kids(h, m) \subseteq Settings, NEW n \in Settings
  PROVE  \E R \in [0 .. MaxSettings -> SUBSET Settings] :
           /\ R[0] = {n}
           /\ \A k \in 1 .. MaxSettings : R[k] = R[k - 1] \cup UNION {Kids(h, m) : m \in R[k - 1]}
           /\ Subtree(h, n) = R[MaxSettings]
<1>0. MaxSettings \in Nat
  BY SettingsAssumption DEF SettingsAssumption
<1> DEFINE Level(f) ==
             [k \in 0 .. MaxSettings |->
                IF k = 0 THEN {n} ELSE f[k - 1] \cup UNION {Kids(h, m) : m \in f[k - 1]}]
           next(S) == S \cup UNION {Kids(h, m) : m \in S}
           steps == {t \in Nat \X (SUBSET Settings) \X (SUBSET Settings) : t[3] = next(t[2])}
           R == CHOOSE f : f = Level(f)
<1>1. \A S \in SUBSET Settings : next(S) \in SUBSET Settings
  OBVIOUS
<1>2. \A k \in 1 .. MaxSettings, S \in SUBSET Settings :
        \E V \in SUBSET Settings : <<k, S, V>> \in steps
  <2> SUFFICES ASSUME NEW k \in 1 .. MaxSettings, NEW S \in SUBSET Settings
               PROVE  <<k, S, next(S)>> \in steps
    BY <1>1
  <2> HIDE DEF next
  <2> QED
    BY <1>1
<1>3. PICK f \in [0 .. MaxSettings -> SUBSET Settings] :
        f[0] = {n} /\ \A k \in 1 .. MaxSettings : <<k, f[k - 1], f[k]>> \in steps
  <2> HIDE DEF steps
  <2>1. {n} \in SUBSET Settings
    OBVIOUS
  <2>2. PICK f : Recurs(f, MaxSettings, SUBSET Settings, {n}, steps)
    BY <1>0, <1>2, <2>1, Recursion
  <2> QED
    BY <2>2 DEF Recurs
<1>4. \A k \in 1 .. MaxSettings : k - 1 \in 0 .. MaxSettings /\ k \in 0 .. MaxSettings /\ k # 0
  BY <1>0
<1>5. \A k \in 1 .. MaxSettings : f[k] = f[k - 1] \cup UNION {Kids(h, m) : m \in f[k - 1]}
  <2> TAKE k \in 1 .. MaxSettings
  <2>1. <<k, f[k - 1], f[k]>> \in steps
    BY <1>3
  <2> QED
    BY <2>1
<1>6. f = Level(f)
  <2>1. \A k \in 0 .. MaxSettings : k # 0 => k \in 1 .. MaxSettings
    BY <1>0
  <2>2. \A k \in 0 .. MaxSettings :
          f[k] = IF k = 0 THEN {n} ELSE f[k - 1] \cup UNION {Kids(h, m) : m \in f[k - 1]}
    BY <1>3, <1>5, <2>1
  <2> QED
    BY <1>3, <2>2
<1>7. R = Level(R)
  <2>1. \E g : g = Level(g)
    BY <1>6
  <2> HIDE DEF Level
  <2> QED
    BY <2>1
<1>8. Subtree(h, n) = R[MaxSettings]
  BY DEF Subtree, Kids
<1> HIDE DEF R
<1>9. R[0] = {n}
  BY <1>0, <1>7
<1>10. \A k \in 1 .. MaxSettings : R[k] = R[k - 1] \cup UNION {Kids(h, m) : m \in R[k - 1]}
  <2> TAKE k \in 1 .. MaxSettings
  <2>1. R[k] = Level(R)[k]
    BY <1>7
  <2> QED
    BY <1>4, <2>1
<1>11. R \in [0 .. MaxSettings -> SUBSET Settings]
  <2> DEFINE holds == {k \in 0 .. MaxSettings : R[k] \in SUBSET Settings}
  <2>1. 0 \in holds
    BY <1>0, <1>9
  <2>2. \A k \in 1 .. MaxSettings : k - 1 \in holds => k \in holds
    <3> TAKE k \in 1 .. MaxSettings
    <3>1. (R[k - 1] \in SUBSET Settings) => R[k] \in SUBSET Settings
      BY <1>10
    <3> QED
      BY <1>4, <3>1
  <2>3. 0 .. MaxSettings \subseteq holds
    <3> HIDE DEF holds
    <3> QED
      BY <1>0, <2>1, <2>2, Stepwise
  <2>4. R = [k \in 0 .. MaxSettings |-> R[k]]
    BY <1>7
  <2> QED
    BY <2>3, <2>4
<1> QED
  BY <1>8, <1>9, <1>10, <1>11

\* Subtree is the least set with the setting that has the elements of each of its own.
LEMMA SubtreeLeast ==
  ASSUME NEW h, \A m \in Settings : Kids(h, m) \subseteq Settings, NEW n \in Settings
  PROVE  /\ n \in Subtree(h, n)
         /\ Subtree(h, n) \subseteq Settings
         /\ Closed(h, Subtree(h, n))
         /\ \A S : n \in S /\ Closed(h, S) => Subtree(h, n) \subseteq S
<1>0. MaxSettings \in Nat /\ 0 \in 0 .. MaxSettings /\ MaxSettings \in 0 .. MaxSettings
  BY SettingsAssumption DEF SettingsAssumption
<1>1. PICK R \in [0 .. MaxSettings -> SUBSET Settings] :
        /\ R[0] = {n}
        /\ \A k \in 1 .. MaxSettings : R[k] = R[k - 1] \cup UNION {Kids(h, m) : m \in R[k - 1]}
        /\ Subtree(h, n) = R[MaxSettings]
  BY SubtreeLevels
<1>2. \A k \in 1 .. MaxSettings : k - 1 \in 0 .. MaxSettings /\ k \in 0 .. MaxSettings
  BY <1>0
<1>3. n \in R[MaxSettings]
  <2> DEFINE holds == {k \in 0 .. MaxSettings : n \in R[k]}
  <2>1. 0 \in holds
    BY <1>0, <1>1
  <2>2. \A k \in 1 .. MaxSettings : k - 1 \in holds => k \in holds
    BY <1>1, <1>2
  <2>3. 0 .. MaxSettings \subseteq holds
    <3> HIDE DEF holds
    <3> QED
      BY <1>0, <2>1, <2>2, Stepwise
  <2> QED
    BY <1>0, <2>3
<1>4. ASSUME NEW S, n \in S, Closed(h, S) PROVE R[MaxSettings] \subseteq S
  <2> DEFINE holds == {k \in 0 .. MaxSettings : R[k] \subseteq S}
  <2>1. 0 \in holds
    BY <1>0, <1>1, <1>4
  <2>2. \A k \in 1 .. MaxSettings : k - 1 \in holds => k \in holds
    <3> TAKE k \in 1 .. MaxSettings
    <3>1. R[k - 1] \subseteq S => R[k] \subseteq S
      BY <1>1, <1>4 DEF Closed
    <3> QED
      BY <1>2, <3>1
  <2>3. 0 .. MaxSettings \subseteq holds
    <3> HIDE DEF holds
    <3> QED
      BY <1>0, <2>1, <2>2, Stepwise
  <2> QED
    BY <1>0, <2>3
<1>5. Closed(h, R[MaxSettings])
  <2> DEFINE holds == {k \in 0 .. MaxSettings : Closed(h, R[k]) \/ Cardinality(R[k]) >= k + 1}
  <2>0. /\ IsFiniteSet(Settings) /\ Cardinality(Settings) = MaxSettings
        /\ \A k \in 0 .. MaxSettings : IsFiniteSet(R[k]) /\ Cardinality(R[k]) \in Nat
    <3>1. IsFiniteSet(Settings) /\ Cardinality(Settings) = MaxSettings
      <4>1. Cardinality(1 .. MaxSettings) = IF 1 > MaxSettings THEN 0 ELSE MaxSettings - 1 + 1
        BY <1>0, FS_Interval
      <4> QED
        BY <1>0, <4>1, FS_Interval DEF Settings
    <3>2. \A k \in 0 .. MaxSettings : R[k] \in SUBSET Settings
      BY <1>1
    <3> QED
      BY <3>1, <3>2, FS_Subset, FS_CardinalityType
  <2>1. 0 \in holds
    <3>1. Cardinality(R[0]) = 1
      BY <1>1, FS_Singleton
    <3> QED
      BY <1>0, <3>1
  <2>2. ASSUME NEW k \in 1 .. MaxSettings, Closed(h, R[k - 1]) \/ Cardinality(R[k - 1]) >= k
        PROVE  Closed(h, R[k]) \/ Cardinality(R[k]) >= k + 1
    <3>1. R[k] = R[k - 1] \cup UNION {Kids(h, m) : m \in R[k - 1]}
      BY <1>1
    <3>2. CASE Closed(h, R[k - 1])
      <4>1. R[k] = R[k - 1]
        BY <3>1, <3>2 DEF Closed
      <4> QED
        BY <3>2, <4>1
    <3>3. CASE ~Closed(h, R[k - 1])
      <4>1. R[k - 1] \subseteq R[k] /\ R[k - 1] # R[k]
        BY <3>1, <3>3 DEF Closed
      <4>2. Cardinality(R[k - 1]) <= Cardinality(R[k]) /\ Cardinality(R[k - 1]) # Cardinality(R[k])
        BY <1>2, <2>0, <4>1, FS_Subset
      <4> QED
        BY <1>2, <2>0, <2>2, <3>3, <4>2
    <3> QED
      BY <3>2, <3>3
  <2>3. \A k \in 1 .. MaxSettings : k - 1 \in holds => k \in holds
    <3> TAKE k \in 1 .. MaxSettings
    <3>1. (k - 1 \in holds <=> Closed(h, R[k - 1]) \/ Cardinality(R[k - 1]) >= k - 1 + 1) /\ k - 1 + 1 = k
      BY <1>2
    <3>2. k \in holds <=> (Closed(h, R[k]) \/ Cardinality(R[k]) >= k + 1)
      BY <1>2
    <3> HIDE DEF holds
    <3> QED
      BY <2>2, <3>1, <3>2
  <2>5. 0 .. MaxSettings \subseteq holds
    <3> HIDE DEF holds
    <3> QED
      BY <1>0, <2>1, <2>3, Stepwise
  <2>6. Closed(h, R[MaxSettings]) \/ Cardinality(R[MaxSettings]) >= MaxSettings + 1
    BY <1>0, <2>5
  <2>7. Cardinality(R[MaxSettings]) <= MaxSettings
    BY <1>0, <1>1, <2>0, FS_Subset
  <2> QED
    BY <1>0, <2>0, <2>6, <2>7
<1> QED
  BY <1>0, <1>1, <1>3, <1>4, <1>5
-----------------------------------------------------------------------------
(* The tree.  TreeInv says what FamilyAgrees, ListsFit and NamesAreUnique  *)
(* say, so that it can be kept: that everything hangs from the root is     *)
(* said of every set with the root that has the elements of its members,   *)
(* and the memory of a list reaches as far as its last chunk.              *)

Heaps == [Settings -> Setting]

FamilyInv(h) ==
  /\ h[Root].type = "GROUP" /\ h[Root].parent = Null /\ h[Root].name = NoName
  /\ \A n \in Live(h) \ {Root} : h[n].parent \in Live(h) /\ n \in Kids(h, h[n].parent)
  /\ \A p \in Settings : \A n \in Kids(h, p) : n \in Live(h) /\ h[n].parent = p
  /\ \A p \in Settings : \A i, j \in 1 .. Len(h[p].kids) : h[p].kids[i] = h[p].kids[j] => i = j
  /\ \A S \in SUBSET Settings : Root \in S /\ Closed(h, S) => Live(h) \subseteq S

Roomy(s) == \E k \in Nat : Len(s.kids) <= k * CHUNK_SIZE /\ k * CHUNK_SIZE <= s.room
ListsInv(h) ==
  \A n \in Settings : Roomy(h[n]) /\ (h[n].room > 0 => h[n].type \in Aggregates)

NamesInv(h) ==
  \A p \in Settings : \A m \in Kids(h, p) :
    /\ h[p].type = "GROUP" <=> h[m].name # NoName
    /\ \A n \in Kids(h, p) : m # n /\ h[m].name # NoName => h[m].name # h[n].name

TreeInv(h) == h \in Heaps /\ FamilyInv(h) /\ ListsInv(h) /\ NamesInv(h)

\* What two settings have in common when their lists and what they hold are left aside.
Alike(s, t) == s.parent = t.parent /\ s.name = t.name /\ s.type = t.type

\* The elements of a setting, by their places.
LEMMA KidsOf ==
  ASSUME NEW h \in Heaps, NEW p \in Settings
  PROVE  /\ h[p].kids \in Seq(Settings) /\ Len(h[p].kids) \in Nat
         /\ DOMAIN h[p].kids = 1 .. Len(h[p].kids)
         /\ Kids(h, p) = {h[p].kids[i] : i \in 1 .. Len(h[p].kids)}
         /\ Kids(h, p) \subseteq Settings
         /\ \A i \in 1 .. Len(h[p].kids) : h[p].kids[i] \in Settings
<1>1. h[p] \in Setting
  BY DEF Heaps
<1>2. h[p].kids \in Seq(Settings)
  BY <1>1 DEF Setting
<1>3. Len(h[p].kids) \in Nat /\ DOMAIN h[p].kids = 1 .. Len(h[p].kids)
  BY <1>2, LenProperties
<1>4. \A i \in 1 .. Len(h[p].kids) : h[p].kids[i] \in Settings
  BY <1>2, ElementOfSeq
<1> QED
  BY <1>2, <1>3, <1>4 DEF Kids

\* A list without memory is empty.
LEMMA NoRoom ==
  ASSUME NEW h \in Heaps, ListsInv(h), NEW p \in Settings, h[p].type \notin Aggregates
  PROVE  Len(h[p].kids) = 0 /\ Kids(h, p) = {} /\ h[p].room = 0
<1>1. h[p].room \in Nat /\ Len(h[p].kids) \in Nat
  BY KidsOf DEF Heaps, Setting
<1>2. h[p].room = 0
  BY <1>1 DEF ListsInv
<1>3. PICK k \in Nat : Len(h[p].kids) <= k * CHUNK_SIZE /\ k * CHUNK_SIZE <= h[p].room
  BY DEF ListsInv, Roomy
<1>4. k * CHUNK_SIZE \in Nat
  BY SettingsAssumption DEF SettingsAssumption
<1>5. Len(h[p].kids) = 0
  BY <1>1, <1>2, <1>3, <1>4
<1> QED
  BY <1>2, <1>5, KidsOf

\* A tree in that sense is sound.
LEMMA TreeIsSoundThen ==
  ASSUME NEW h, TreeInv(h)
  PROVE  FamilyAgrees(h) /\ ListsFit(h) /\ NamesAreUnique(h)
<1> USE DEF TreeInv
<1>1. Root \in Live(h) /\ Live(h) \subseteq Settings /\ Root \in Settings
  BY SettingsAssumption DEF SettingsAssumption, FamilyInv, Live, Root, Settings
<1>2. \A m \in Settings : Kids(h, m) \subseteq Settings
  BY KidsOf
<1>3. Subtree(h, Root) = Live(h)
  <2>1. Closed(h, Live(h))
    BY <1>1 DEF Closed, FamilyInv
  <2>2. Subtree(h, Root) \subseteq Live(h)
    BY <1>1, <1>2, <2>1, SubtreeLeast
  <2>3. Live(h) \subseteq Subtree(h, Root)
    BY <1>1, <1>2, SubtreeLeast DEF FamilyInv
  <2> QED
    BY <2>2, <2>3
<1>4. ASSUME NEW n \in Live(h) \ {Root}
      PROVE  /\ h[n].parent \in Live(h)
             /\ Cardinality({i \in DOMAIN h[h[n].parent].kids : h[h[n].parent].kids[i] = n}) = 1
  <2> DEFINE p == h[n].parent
             places == {i \in DOMAIN h[p].kids : h[p].kids[i] = n}
  <2>1. p \in Live(h) /\ n \in Kids(h, p)
    BY DEF FamilyInv
  <2>2. p \in Settings
    BY <1>1, <2>1
  <2> HIDE DEF p
  <2>3. PICK i \in 1 .. Len(h[p].kids) : h[p].kids[i] = n
    BY <2>1, <2>2, KidsOf
  <2>4. \A j \in 1 .. Len(h[p].kids) : h[p].kids[j] = n => j = i
    BY <2>2, <2>3 DEF FamilyInv
  <2>5. places = {i}
    BY <2>2, <2>3, <2>4, KidsOf
  <2>6. Cardinality(places) = 1
    BY <2>5, FS_Singleton
  <2> QED
    BY <2>1, <2>6 DEF p
<1>5. \A p \in Live(h) : \A i \in DOMAIN h[p].kids : h[h[p].kids[i]].parent = p
  BY <1>1 DEF FamilyInv, Kids
<1>6. FamilyAgrees(h)
  BY <1>3, <1>4, <1>5 DEF FamilyAgrees, FamilyInv
<1>7. ASSUME NEW n \in Settings PROVE Len(h[n].kids) <= h[n].room
  <2>1. PICK k \in Nat : Len(h[n].kids) <= k * CHUNK_SIZE /\ k * CHUNK_SIZE <= h[n].room
    BY DEF ListsInv, Roomy
  <2>2. k * CHUNK_SIZE \in Nat /\ Len(h[n].kids) \in Nat /\ h[n].room \in Nat
    BY KidsOf, SettingsAssumption DEF SettingsAssumption, Heaps, Setting
  <2> QED
    BY <2>1, <2>2
<1>8. ListsFit(h)
  BY <1>7 DEF ListsFit, ListsInv
<1>9. ASSUME NEW p \in Live(h), NEW i \in DOMAIN h[p].kids, NEW j \in DOMAIN h[p].kids
      PROVE  /\ i # j /\ h[h[p].kids[i]].name # NoName =>
                  h[h[p].kids[i]].name # h[h[p].kids[j]].name
             /\ h[p].type = "GROUP" <=> h[h[p].kids[i]].name # NoName
  <2>1. p \in Settings /\ h[p].kids[i] \in Kids(h, p) /\ h[p].kids[j] \in Kids(h, p)
    BY <1>1, <1>9 DEF Kids
  <2>2. i # j => h[p].kids[i] # h[p].kids[j]
    BY <1>9, <2>1, KidsOf DEF FamilyInv
  <2> QED
    BY <2>1, <2>2 DEF NamesInv
<1> QED
  BY <1>6, <1>8, <1>9 DEF NamesAreUnique
-----------------------------------------------------------------------------
(* The operations keep the tree.                                           *)

\* A setting may change what it holds, and take a type when it has none.
LEMMA SameShape ==
  ASSUME NEW h, TreeInv(h), NEW g \in Heaps,
         \A m \in Settings :
           /\ g[m].parent = h[m].parent /\ g[m].name = h[m].name
           /\ g[m].kids = h[m].kids /\ g[m].room = h[m].room
           /\ g[m].type = h[m].type \/ (h[m].type = "NONE" /\ g[m].type \in Types)
  PROVE  TreeInv(g) /\ Live(g) = Live(h) /\ \A m \in Settings : Kids(g, m) = Kids(h, m)
<1> USE DEF TreeInv
<1>1. \A m \in Settings : Kids(g, m) = Kids(h, m)
  BY DEF Kids
<1>2. Live(g) = Live(h)
  BY DEF Live, Types, Scalars, Numbers, Aggregates
<1>3. Root \in Settings /\ Live(h) \subseteq Settings
  BY SettingsAssumption DEF SettingsAssumption, Root, Settings, Live
<1>4. \A S \in SUBSET Settings : Closed(g, S) <=> Closed(h, S)
  BY <1>1 DEF Closed
<1>5. FamilyInv(g)
  <2>1. g[Root].type = "GROUP" /\ g[Root].parent = Null /\ g[Root].name = NoName
    BY <1>3 DEF FamilyInv
  <2>2. \A n \in Live(g) \ {Root} : g[n].parent \in Live(g) /\ n \in Kids(g, g[n].parent)
    BY <1>1, <1>2, <1>3 DEF FamilyInv
  <2>3. \A p \in Settings : \A n \in Kids(g, p) : n \in Live(g) /\ g[n].parent = p
    BY <1>1, <1>2, <1>3 DEF FamilyInv
  <2>4. \A p \in Settings : \A i, j \in 1 .. Len(g[p].kids) : g[p].kids[i] = g[p].kids[j] => i = j
    BY DEF FamilyInv
  <2> QED
    BY <1>2, <1>4, <2>1, <2>2, <2>3, <2>4 DEF FamilyInv
<1>6. \A m \in Settings : g[m].type \in Aggregates \/ (Len(g[m].kids) = 0 /\ Kids(g, m) = {} /\ g[m].room = 0)
  <2> TAKE m \in Settings
  <2>1. CASE h[m].type \in Aggregates
    BY <2>1 DEF Aggregates
  <2>2. CASE h[m].type \notin Aggregates
    BY <1>1, <2>2, NoRoom
  <2> QED
    BY <2>1, <2>2
<1>7. ListsInv(g)
  BY <1>6 DEF ListsInv, Roomy
<1>8. NamesInv(g)
  <2> SUFFICES ASSUME NEW p \in Settings, NEW m \in Kids(g, p)
               PROVE  /\ g[p].type = "GROUP" <=> g[m].name # NoName
                      /\ \A n \in Kids(g, p) : m # n /\ g[m].name # NoName => g[m].name # g[n].name
    BY DEF NamesInv
  <2>1. m \in Settings /\ m \in Kids(h, p) /\ \A n \in Kids(g, p) : n \in Settings /\ n \in Kids(h, p)
    BY <1>1, KidsOf
  <2>2. g[p].type = h[p].type
    <3>1. h[p].type \in Aggregates
      BY <2>1, NoRoom
    <3> QED
      BY <3>1 DEF Aggregates
  <2> QED
    BY <2>1, <2>2 DEF NamesInv
<1> QED
  BY <1>1, <1>2, <1>5, <1>7, <1>8

\* A list that gets an element.
LEMMA ListAddIs ==
  ASSUME NEW h \in Heaps, NEW p \in Settings, NEW n \in Settings
  PROVE  /\ ListAdd(h, p, n) \in Heaps
         /\ \A m \in Settings \ {p} : ListAdd(h, p, n)[m] = h[m]
         /\ Alike(ListAdd(h, p, n)[p], h[p])
         /\ ListAdd(h, p, n)[p].hook = h[p].hook
         /\ ListAdd(h, p, n)[p].val = h[p].val
         /\ ListAdd(h, p, n)[p].file = h[p].file
         /\ ListAdd(h, p, n)[p].kids = Append(h[p].kids, n)
         /\ ListAdd(h, p, n)[p].room =
              IF Len(h[p].kids) % CHUNK_SIZE = 0 THEN Len(h[p].kids) + CHUNK_SIZE ELSE h[p].room
<1> DEFINE len == Len(h[p].kids)
           room == IF len % CHUNK_SIZE = 0 THEN len + CHUNK_SIZE ELSE h[p].room
           kids == Append(h[p].kids, n)
           s == [h[p] EXCEPT !.room = room, !.kids = kids]
<1>1. h[p] \in Setting /\ h[p].room \in Nat
  BY DEF Heaps, Setting
<1>2. len \in Nat /\ room \in Nat /\ kids \in Seq(Settings)
  <2>1. h[p].kids \in Seq(Settings) /\ len \in Nat
    BY KidsOf
  <2>2. CHUNK_SIZE \in Nat
    BY SettingsAssumption DEF SettingsAssumption
  <2>3. kids \in Seq(Settings)
    BY <2>1, AppendProperties
  <2>4. room \in Nat
    <3> HIDE DEF len
    <3>1. len + CHUNK_SIZE \in Nat
      BY <2>1, <2>2
    <3>2. (len % CHUNK_SIZE = 0) \/ (len % CHUNK_SIZE # 0)
      OBVIOUS
    <3> QED
      BY <1>1, <3>1, <3>2, Zenon
  <2> QED
    BY <2>1, <2>3, <2>4
<1>3. ListAdd(h, p, n) = [h EXCEPT ![p] = s]
  BY DEF ListAdd, Heaps
<1> HIDE DEF room, kids
<1>4. s \in Setting
  BY <1>1, <1>2 DEF Setting
<1>5. s.parent = h[p].parent /\ s.name = h[p].name /\ s.type = h[p].type /\ s.hook = h[p].hook
      /\ s.val = h[p].val /\ s.file = h[p].file /\ s.kids = kids /\ s.room = room
  BY <1>1 DEF Setting
<1> HIDE DEF s
<1>6. [h EXCEPT ![p] = s] \in Heaps /\ [h EXCEPT ![p] = s][p] = s
      /\ \A m \in Settings \ {p} : [h EXCEPT ![p] = s][m] = h[m]
  BY <1>4 DEF Heaps
<1> QED
  BY <1>3, <1>5, <1>6 DEF Alike, room, kids

\* An element more is an element more, and it is the last.
LEMMA AppendKids ==
  ASSUME NEW s \in Seq(Settings), NEW n \in Settings
  PROVE  /\ {Append(s, n)[i] : i \in DOMAIN Append(s, n)} = {s[i] : i \in DOMAIN s} \cup {n}
         /\ Len(Append(s, n)) = Len(s) + 1
         /\ \A i \in 1 .. Len(s) : Append(s, n)[i] = s[i]
         /\ Append(s, n)[Len(s) + 1] = n
<1>1. /\ Append(s, n) \in Seq(Settings)
      /\ Len(Append(s, n)) = Len(s) + 1
      /\ \A i \in 1 .. Len(s) : Append(s, n)[i] = s[i]
      /\ Append(s, n)[Len(s) + 1] = n
  BY AppendProperties
<1>2. DOMAIN s = 1 .. Len(s) /\ Len(s) \in Nat /\ DOMAIN Append(s, n) = 1 .. Len(s) + 1
  BY <1>1, LenProperties
<1>3. 1 .. Len(s) + 1 = (1 .. Len(s)) \cup {Len(s) + 1}
  BY <1>2
<1> QED
  BY <1>1, <1>2, <1>3

\* Memory for one more: a list that ends where a chunk does gets the next one.
LEMMA NextRoom ==
  ASSUME NEW len \in Nat, NEW room \in Nat,
         \E k \in Nat : len <= k * CHUNK_SIZE /\ k * CHUNK_SIZE <= room
  PROVE  \A more : more = (IF len % CHUNK_SIZE = 0 THEN len + CHUNK_SIZE ELSE room) =>
            \E k \in Nat : len + 1 <= k * CHUNK_SIZE /\ k * CHUNK_SIZE <= more
<1>0. CHUNK_SIZE \in Nat /\ CHUNK_SIZE > 0
  BY SettingsAssumption DEF SettingsAssumption
<1>1. CASE len % CHUNK_SIZE = 0
  <2> DEFINE d == len \div CHUNK_SIZE
  <2>1. d \in Nat /\ len = d * CHUNK_SIZE
    <3>1. len = CHUNK_SIZE * (len \div CHUNK_SIZE) + (len % CHUNK_SIZE) /\ len \div CHUNK_SIZE \in Nat
      BY <1>0
    <3> QED
      BY <1>0, <1>1, <3>1
  <2> HIDE DEF d
  <2>2. (d + 1) * CHUNK_SIZE = d * CHUNK_SIZE + CHUNK_SIZE /\ d + 1 \in Nat
    BY <1>0, <2>1
  <2>3. len + 1 <= (d + 1) * CHUNK_SIZE /\ (d + 1) * CHUNK_SIZE <= len + CHUNK_SIZE
    BY <1>0, <2>1, <2>2
  <2> QED
    BY <1>1, <2>2, <2>3
<1>2. CASE len % CHUNK_SIZE # 0
  <2>1. PICK k \in Nat : len <= k * CHUNK_SIZE /\ k * CHUNK_SIZE <= room
    OBVIOUS
  <2>2. (k * CHUNK_SIZE) % CHUNK_SIZE = 0 /\ k * CHUNK_SIZE \in Nat
    BY <1>0
  <2>3. len # k * CHUNK_SIZE
    BY <1>2, <2>2
  <2>4. len + 1 <= k * CHUNK_SIZE
    BY <2>1, <2>2, <2>3
  <2> QED
    BY <1>2, <2>1, <2>4
<1> QED
  BY <1>1, <1>2

\* A new setting has the least free address.
LEMMA AddressIsFree ==
  ASSUME NEW h, HasRoom(h)
  PROVE  Address(h) \in Settings /\ Address(h) \notin Live(h)
<1> DEFINE free == Settings \ Live(h)
<1>1. free \in SUBSET Nat /\ free # {}
  BY SettingsAssumption DEF SettingsAssumption, HasRoom, Live, Settings
<1>2. Address(h) = CHOOSE n \in free : \A m \in free : n <= m
  BY DEF Address
<1> HIDE DEF free
<1>3. \E n \in free : \A m \in free : n <= m
  BY <1>1, NatMin
<1>4. Address(h) \in free
  BY <1>2, <1>3
<1> QED
  BY <1>4 DEF free

\* A new setting is empty.
LEMMA NewSettingIs ==
  ASSUME NEW type \in Types \cup {"FREE"}, NEW name \in Names \cup {NoName},
         NEW p \in Settings \cup {Null}
  PROVE  /\ NewSetting(type, name, p) \in Setting
         /\ NewSetting(type, name, p).type = type /\ NewSetting(type, name, p).name = name
         /\ NewSetting(type, name, p).parent = p /\ NewSetting(type, name, p).hook = Null
         /\ NewSetting(type, name, p).kids = <<>> /\ NewSetting(type, name, p).room = 0
         /\ NewSetting(type, name, p).val = 0 /\ NewSetting(type, name, p).file = Null
<1>1. <<>> \in Seq(Settings)
  BY EmptySeq
<1>2. 0 \in Values
  BY DEF Values
<1> QED
  BY <1>1, <1>2 DEF NewSetting, Setting, Formats, Null

\* The same, for all of them at once.
LEMMA NewSettings ==
  \A type \in Types \cup {"FREE"}, name \in Names \cup {NoName}, p \in Settings \cup {Null} :
    /\ NewSetting(type, name, p) \in Setting
    /\ NewSetting(type, name, p).type = type /\ NewSetting(type, name, p).name = name
    /\ NewSetting(type, name, p).parent = p /\ NewSetting(type, name, p).hook = Null
BY NewSettingIs

\* A setting is created at a free address and in the list of its parent.
LEMMA CreateIs ==
  ASSUME NEW h \in Heaps, NEW p \in Live(h), HasRoom(h),
         NEW name \in Names \cup {NoName}, NEW type \in Types
  PROVE  LET g == SettingCreate(h, p, name, type)
             n == Address(h)
         IN  /\ g \in Heaps
             /\ n \in Settings \ Live(h) /\ n # p
             /\ g[n] = NewSetting(type, name, p)
             /\ \A m \in Settings \ {p, n} : g[m] = h[m]
             /\ Alike(g[p], h[p]) /\ g[p].hook = h[p].hook /\ g[p].val = h[p].val
             /\ g[p].file = h[p].file
             /\ g[p].kids = Append(h[p].kids, n)
             /\ g[p].room = IF Len(h[p].kids) % CHUNK_SIZE = 0 THEN Len(h[p].kids) + CHUNK_SIZE
                            ELSE h[p].room
             /\ Live(g) = Live(h) \cup {n}
             /\ Kids(g, p) = Kids(h, p) \cup {n} /\ Kids(g, n) = {}
             /\ \A m \in Settings \ {p, n} : Kids(g, m) = Kids(h, m)
<1> DEFINE n == Address(h)
           k == [h EXCEPT ![n] = NewSetting(type, name, p)]
           g == SettingCreate(h, p, name, type)
<1>1. n \in Settings /\ n \notin Live(h) /\ n # p /\ p \in Settings
  BY AddressIsFree DEF Live
<1>2. NewSetting(type, name, p) \in Setting /\ NewSetting(type, name, p).type = type
      /\ NewSetting(type, name, p).kids = <<>>
  BY <1>1, NewSettingIs
<1>3. g = ListAdd(k, p, n)
  BY DEF SettingCreate
<1> HIDE DEF n, g
<1>4. k \in Heaps /\ k[n] = NewSetting(type, name, p) /\ \A m \in Settings \ {n} : k[m] = h[m]
  BY <1>1, <1>2 DEF Heaps
<1> HIDE DEF k
<1>5. /\ g \in Heaps
      /\ \A m \in Settings \ {p} : g[m] = k[m]
      /\ Alike(g[p], k[p]) /\ g[p].hook = k[p].hook /\ g[p].val = k[p].val /\ g[p].file = k[p].file
      /\ g[p].kids = Append(k[p].kids, n)
      /\ g[p].room = IF Len(k[p].kids) % CHUNK_SIZE = 0 THEN Len(k[p].kids) + CHUNK_SIZE ELSE k[p].room
  BY <1>1, <1>3, <1>4, ListAddIs
<1>6. k[p] = h[p]
  BY <1>1, <1>4
<1>7. g[n] = NewSetting(type, name, p) /\ \A m \in Settings \ {p, n} : g[m] = h[m]
  BY <1>1, <1>4, <1>5
<1>8. Live(g) = Live(h) \cup {n}
  <2>1. type # "FREE"
    BY DEF Types, Scalars, Numbers, Aggregates
  <2>2. g[n].type = type /\ g[p].type = h[p].type
    BY <1>2, <1>5, <1>6, <1>7 DEF Alike
  <2>3. \A m \in Settings : m \in Live(g) <=> m \in Live(h) \cup {n}
    BY <1>1, <1>7, <2>1, <2>2 DEF Live
  <2> QED
    BY <1>1, <2>3 DEF Live
<1>9. Kids(g, p) = Kids(h, p) \cup {n}
  <2>1. h[p].kids \in Seq(Settings)
    BY <1>1, KidsOf
  <2>2. {Append(h[p].kids, n)[i] : i \in DOMAIN Append(h[p].kids, n)} = Kids(h, p) \cup {n}
    BY <1>1, <2>1, AppendKids DEF Kids
  <2>3. g[p].kids = Append(h[p].kids, n)
    BY <1>5, <1>6
  <2> QED
    BY <2>2, <2>3, Zenon DEF Kids
<1>10. Kids(g, n) = {}
  <2>1. g[n].kids = <<>>
    BY <1>2, <1>7
  <2>2. Len(<<>>) = 0
    BY EmptySeq
  <2>3. Kids(g, n) = {g[n].kids[i] : i \in 1 .. Len(g[n].kids)}
    BY <1>1, <1>5, KidsOf
  <2> QED
    BY <2>1, <2>2, <2>3
<1>11. \A m \in Settings \ {p, n} : Kids(g, m) = Kids(h, m)
  BY <1>7 DEF Kids
<1> QED
  BY <1>1, <1>5, <1>6, <1>7, <1>8, <1>9, <1>10, <1>11 DEF n, g

\* What is below a parent may be named if the parent is a group, and must be.
MayBeNamed(h, p, name) ==
  /\ h[p].type = "GROUP" <=> name # NoName
  /\ \A m \in Kids(h, p) : name # NoName => h[m].name # name

\* A setting more leaves a tree.
LEMMA CreateTree ==
  ASSUME NEW h, TreeInv(h), NEW p \in Live(h), HasRoom(h), h[p].type \in Aggregates,
         NEW name \in Names \cup {NoName}, NEW type \in Types, MayBeNamed(h, p, name)
  PROVE  TreeInv(SettingCreate(h, p, name, type))
<1> USE DEF TreeInv
<1> DEFINE n == Address(h)
           g == SettingCreate(h, p, name, type)
<1>1. /\ g \in Heaps
      /\ n \in Settings \ Live(h) /\ n # p
      /\ g[n] = NewSetting(type, name, p)
      /\ \A m \in Settings \ {p, n} : g[m] = h[m]
      /\ Alike(g[p], h[p])
      /\ g[p].kids = Append(h[p].kids, n)
      /\ g[p].room = IF Len(h[p].kids) % CHUNK_SIZE = 0 THEN Len(h[p].kids) + CHUNK_SIZE
                     ELSE h[p].room
      /\ Live(g) = Live(h) \cup {n}
      /\ Kids(g, p) = Kids(h, p) \cup {n} /\ Kids(g, n) = {}
      /\ \A m \in Settings \ {p, n} : Kids(g, m) = Kids(h, m)
  BY CreateIs
<1> HIDE DEF n, g
<1>2. p \in Settings /\ Root \in Settings /\ Root \in Live(h) /\ Live(h) \subseteq Settings
  BY SettingsAssumption DEF SettingsAssumption, Live, Root, Settings, FamilyInv
<1>3. /\ g[n].type = type /\ g[n].name = name /\ g[n].parent = p
      /\ g[n].kids = <<>> /\ g[n].room = 0
  BY <1>1, <1>2, NewSettingIs
<1>4. \A m \in Settings \ {n} : Alike(g[m], h[m])
  BY <1>1 DEF Alike
<1>5. \A m \in Settings : Kids(g, m) \subseteq Settings /\ Kids(h, m) \subseteq Live(h)
  BY <1>1, KidsOf DEF FamilyInv
<1>6. FamilyInv(g)
  <2>1. g[Root].type = "GROUP" /\ g[Root].parent = Null /\ g[Root].name = NoName
    BY <1>1, <1>2, <1>4 DEF FamilyInv, Alike
  <2>2. ASSUME NEW m \in Live(g) \ {Root} PROVE g[m].parent \in Live(g) /\ m \in Kids(g, g[m].parent)
    <3>1. CASE m = n
      BY <1>1, <1>3, <3>1
    <3>2. CASE m # n
      <4>1. m \in Live(h) \ {Root} /\ m \in Settings
        BY <1>1, <1>2, <2>2, <3>2
      <4>2. g[m].parent = h[m].parent /\ h[m].parent \in Live(h) /\ m \in Kids(h, h[m].parent)
        BY <1>4, <3>2, <4>1 DEF Alike, FamilyInv
      <4>3. Kids(h, h[m].parent) \subseteq Kids(g, h[m].parent)
        BY <1>1, <1>2, <4>2
      <4> QED
        BY <1>1, <4>2, <4>3
    <3> QED
      BY <3>1, <3>2
  <2>3. ASSUME NEW q \in Settings, NEW m \in Kids(g, q) PROVE m \in Live(g) /\ g[m].parent = q
    <3>1. CASE m = n
      <4>1. q = p
        BY <1>1, <1>5, <2>3, <3>1
      <4> QED
        BY <1>1, <1>3, <3>1, <4>1
    <3>2. CASE m # n
      <4>1. m \in Kids(h, q)
        BY <1>1, <2>3, <3>2
      <4>2. m \in Live(h) /\ h[m].parent = q /\ m \in Settings
        BY <1>2, <4>1 DEF FamilyInv
      <4> QED
        BY <1>1, <1>4, <3>2, <4>2 DEF Alike
    <3> QED
      BY <3>1, <3>2
  <2>4. ASSUME NEW q \in Settings, NEW i \in 1 .. Len(g[q].kids), NEW j \in 1 .. Len(g[q].kids),
               g[q].kids[i] = g[q].kids[j]
        PROVE  i = j
    <3>1. CASE q = n
      <4>1. Len(g[q].kids) = 0
        BY <1>3, <3>1, EmptySeq
      <4> QED
        BY <2>4, <4>1
    <3>2. CASE q = p
      <4> DEFINE s == h[p].kids
      <4>1. s \in Seq(Settings) /\ Len(s) \in Nat /\ \A x \in 1 .. Len(s) : s[x] \in Kids(h, p)
        BY <1>2, KidsOf
      <4>2. /\ Len(g[p].kids) = Len(s) + 1 /\ g[p].kids[Len(s) + 1] = n
            /\ \A x \in 1 .. Len(s) : g[p].kids[x] = s[x]
        BY <1>1, <4>1, AppendKids
      <4>3. \A x \in 1 .. Len(s) : g[p].kids[x] # n
        BY <1>1, <1>2, <1>5, <4>1, <4>2
      <4>4. \A x, y \in 1 .. Len(s) : s[x] = s[y] => x = y
        BY <1>2 DEF FamilyInv
      <4> HIDE DEF s
      <4>5. i \in (1 .. Len(s)) \cup {Len(s) + 1} /\ j \in (1 .. Len(s)) \cup {Len(s) + 1}
        BY <2>4, <3>2, <4>1, <4>2
      <4> QED
        BY <2>4, <3>2, <4>2, <4>3, <4>4, <4>5
    <3>3. CASE q # n /\ q # p
      BY <1>1, <2>4, <3>3 DEF FamilyInv
    <3> QED
      BY <3>1, <3>2, <3>3
  <2>5. ASSUME NEW S \in SUBSET Settings, Root \in S, Closed(g, S) PROVE Live(g) \subseteq S
    <3>1. Closed(h, S)
      <4>1. \A m \in Settings \ {n} : Kids(h, m) \subseteq Kids(g, m)
        BY <1>1
      <4>2. Kids(h, n) = {}
        <5>1. h[n].type \notin Aggregates
          BY <1>1 DEF Live, Aggregates
        <5> QED
          BY <1>1, <5>1, NoRoom
      <4> QED
        BY <2>5, <4>1, <4>2 DEF Closed
    <3>2. Live(h) \subseteq S
      BY <2>5, <3>1 DEF FamilyInv
    <3>3. n \in S
      BY <1>1, <2>5, <3>2 DEF Closed
    <3> QED
      BY <1>1, <3>2, <3>3
  <2> QED
    BY <2>1, <2>2, <2>3, <2>4, <2>5 DEF FamilyInv
<1>7. ListsInv(g)
  <2> SUFFICES ASSUME NEW m \in Settings
               PROVE  Roomy(g[m]) /\ (g[m].room > 0 => g[m].type \in Aggregates)
    BY DEF ListsInv
  <2>1. CASE m = n
    <3>1. 0 <= 0 * CHUNK_SIZE /\ 0 * CHUNK_SIZE <= 0
      BY SettingsAssumption DEF SettingsAssumption
    <3> QED
      BY <1>3, <2>1, <3>1, EmptySeq DEF Roomy
  <2>2. CASE m = p
    <3>1. Len(h[p].kids) \in Nat /\ h[p].room \in Nat /\ h[p].kids \in Seq(Settings)
      BY <1>2, KidsOf DEF Heaps, Setting
    <3>2. \E k \in Nat : Len(h[p].kids) <= k * CHUNK_SIZE /\ k * CHUNK_SIZE <= h[p].room
      BY <1>2 DEF ListsInv, Roomy
    <3>3. \E k \in Nat : Len(h[p].kids) + 1 <= k * CHUNK_SIZE /\ k * CHUNK_SIZE <= g[p].room
      <4> DEFINE len == Len(h[p].kids)  room == h[p].room
      <4>1. g[p].room = IF len % CHUNK_SIZE = 0 THEN len + CHUNK_SIZE ELSE room
        BY <1>1
      <4>2. len \in Nat /\ room \in Nat /\ \E k \in Nat : len <= k * CHUNK_SIZE /\ k * CHUNK_SIZE <= room
        BY <3>1, <3>2
      <4> HIDE DEF len, room
      <4>3. \E k \in Nat : len + 1 <= k * CHUNK_SIZE /\ k * CHUNK_SIZE <= g[p].room
        BY <4>1, <4>2, NextRoom
      <4> QED
        BY <4>3 DEF len
    <3>4. Len(g[p].kids) = Len(h[p].kids) + 1
      BY <1>1, <3>1, AppendKids
    <3>5. g[p].type = h[p].type
      BY <1>1 DEF Alike
    <3> QED
      BY <2>2, <3>3, <3>4, <3>5 DEF Roomy
  <2>3. CASE m # n /\ m # p
    BY <1>1, <2>3 DEF ListsInv
  <2> QED
    BY <2>1, <2>2, <2>3
<1>8. NamesInv(g)
  <2> SUFFICES ASSUME NEW q \in Settings, NEW m \in Kids(g, q)
               PROVE  /\ g[q].type = "GROUP" <=> g[m].name # NoName
                      /\ \A x \in Kids(g, q) : m # x /\ g[m].name # NoName => g[m].name # g[x].name
    BY DEF NamesInv
  <2>1. q # n
    BY <1>1
  <2>2. g[q].type = h[q].type
    BY <1>4, <2>1 DEF Alike
  <2>3. \A x \in Kids(h, q) : x # n /\ g[x].name = h[x].name
    BY <1>1, <1>2, <1>4, <1>5 DEF Alike
  <2>4. \A x \in Kids(h, q) : h[q].type = "GROUP" <=> h[x].name # NoName
    BY DEF NamesInv
  <2>5. \A x, y \in Kids(h, q) : x # y /\ h[x].name # NoName => h[x].name # h[y].name
    BY DEF NamesInv
  <2>6. CASE q = p
    BY <1>1, <1>3, <2>2, <2>3, <2>4, <2>5, <2>6 DEF MayBeNamed
  <2>7. CASE q # p
    BY <1>1, <2>1, <2>2, <2>3, <2>4, <2>5, <2>7
  <2> QED
    BY <2>6, <2>7
<1> QED
  BY <1>1, <1>6, <1>7, <1>8 DEF g
\* An element less is an element less: the others keep their order.
LEMMA RemoveAtProperties ==
  ASSUME NEW T, NEW s \in Seq(T), NEW i \in 1 .. Len(s),
         \A x, y \in 1 .. Len(s) : s[x] = s[y] => x = y
  PROVE  LET r == SubSeq(s, 1, i - 1) \o SubSeq(s, i + 1, Len(s))
         IN  /\ r \in Seq(T) /\ Len(r) = Len(s) - 1
             /\ \A x, y \in 1 .. Len(r) : r[x] = r[y] => x = y
             /\ {r[x] : x \in DOMAIN r} = {s[x] : x \in DOMAIN s} \ {s[i]}
<1> DEFINE a == SubSeq(s, 1, i - 1)
           b == SubSeq(s, i + 1, Len(s))
           r == a \o b
<1>0. Len(s) \in Nat /\ DOMAIN s = 1 .. Len(s) /\ \A x \in 1 .. Len(s) : s[x] \in T
  BY LenProperties, ElementOfSeq
<1>1. a \in Seq(T) /\ Len(a) = i - 1 /\ \A x \in 1 .. i - 1 : a[x] = s[x]
  <2>1. \A x \in 1 .. i - 1 : s[x] \in T
    BY <1>0
  <2>2. /\ SubSeq(s, 1, i - 1) \in Seq(T)
        /\ Len(SubSeq(s, 1, i - 1)) = IF 1 <= i - 1 THEN i - 1 - 1 + 1 ELSE 0
        /\ \A x \in 1 .. i - 1 - 1 + 1 : SubSeq(s, 1, i - 1)[x] = s[1 + x - 1]
    BY <1>0, <2>1, SubSeqProperties
  <2>3. i - 1 - 1 + 1 = i - 1 /\ (1 <= i - 1 \/ i - 1 = 0) /\ \A x \in 1 .. i - 1 : 1 + x - 1 = x
    BY <1>0
  <2> QED
    BY <2>2, <2>3
<1>2. b \in Seq(T) /\ Len(b) = Len(s) - i /\ \A x \in 1 .. Len(s) - i : b[x] = s[x + i]
  <2>1. \A x \in i + 1 .. Len(s) : s[x] \in T
    BY <1>0
  <2>2. /\ SubSeq(s, i + 1, Len(s)) \in Seq(T)
        /\ Len(SubSeq(s, i + 1, Len(s))) = IF i + 1 <= Len(s) THEN Len(s) - (i + 1) + 1 ELSE 0
        /\ \A x \in 1 .. Len(s) - (i + 1) + 1 : SubSeq(s, i + 1, Len(s))[x] = s[i + 1 + x - 1]
    BY <1>0, <2>1, SubSeqProperties
  <2>3. /\ Len(s) - (i + 1) + 1 = Len(s) - i /\ (i + 1 <= Len(s) \/ Len(s) - i = 0)
        /\ \A x \in 1 .. Len(s) - i : i + 1 + x - 1 = x + i
    <3>1. Len(s) \in Int /\ i \in Int /\ i <= Len(s)
      BY <1>0
    <3>2. Len(s) - (i + 1) + 1 = Len(s) - i /\ (i + 1 <= Len(s) \/ Len(s) - i = 0)
      BY <3>1
    <3>3. \A x \in Int : i + 1 + x - 1 = x + i
      BY <3>1
    <3>4. \A x \in 1 .. Len(s) - i : x \in Int
      BY <3>1
    <3> QED
      BY <3>2, <3>3, <3>4
  <2>4. \A x \in 1 .. Len(s) - i : SubSeq(s, i + 1, Len(s))[x] = s[i + 1 + x - 1]
    <3>1. 1 .. Len(s) - (i + 1) + 1 = 1 .. Len(s) - i
      BY <1>0
    <3> QED
      BY <2>2, <3>1, Zenon
  <2>5. \A x \in 1 .. Len(s) - i : SubSeq(s, i + 1, Len(s))[x] = s[x + i]
    BY <2>3, <2>4
  <2>6. Len(SubSeq(s, i + 1, Len(s))) = Len(s) - i
    BY <1>0, <2>2, <2>3
  <2> QED
    BY <2>2, <2>5, <2>6
<1> HIDE DEF a, b
<1>3. /\ r \in Seq(T) /\ Len(r) = Len(a) + Len(b)
      /\ \A x \in 1 .. Len(a) + Len(b) : r[x] = IF x <= Len(a) THEN a[x] ELSE b[x - Len(a)]
  BY <1>1, <1>2, ConcatProperties
<1>4. Len(r) = Len(s) - 1 /\ DOMAIN r = 1 .. Len(s) - 1
  <2>1. Len(r) = Len(s) - 1
    BY <1>0, <1>1, <1>2, <1>3
  <2> HIDE DEF r
  <2>2. DOMAIN r = 1 .. Len(r)
    BY <1>3, LenProperties
  <2> QED
    BY <2>1, <2>2
<1>5. \A x \in 1 .. Len(s) - 1 : r[x] = IF x < i THEN s[x] ELSE s[x + 1]
  <2> TAKE x \in 1 .. Len(s) - 1
  <2>1. r[x] = IF x <= Len(a) THEN a[x] ELSE b[x - Len(a)]
    BY <1>0, <1>1, <1>2, <1>3
  <2>2. CASE x < i
    BY <1>0, <1>1, <2>1, <2>2
  <2>3. CASE ~(x < i)
    <3>1. x - (i - 1) \in 1 .. Len(s) - i /\ x - (i - 1) + i = x + 1 /\ ~(x <= i - 1)
      BY <1>0, <2>3
    <3>2. b[x - (i - 1)] = s[x + 1]
      BY <1>2, <3>1
    <3> QED
      BY <1>1, <2>1, <2>3, <3>1, <3>2
  <2> QED
    BY <2>2, <2>3
<1> HIDE DEF r
<1>6. ASSUME NEW x \in 1 .. Len(s) - 1, NEW y \in 1 .. Len(s) - 1, r[x] = r[y] PROVE x = y
  <2> DEFINE at(z) == IF z < i THEN z ELSE z + 1
  <2>1. at(x) \in 1 .. Len(s) /\ at(y) \in 1 .. Len(s) /\ r[x] = s[at(x)] /\ r[y] = s[at(y)]
    BY <1>0, <1>5
  <2>2. at(x) = at(y)
    BY <1>6, <2>1
  <2> QED
    BY <1>0, <2>2
<1>7. ASSUME NEW x \in 1 .. Len(s) - 1 PROVE r[x] \in {s[y] : y \in 1 .. Len(s)} \ {s[i]}
  <2>1. CASE x < i
    <3>1. r[x] = s[x] /\ x \in 1 .. Len(s) /\ x # i
      BY <1>0, <1>5, <2>1
    <3> QED
      BY <3>1
  <2>2. CASE ~(x < i)
    <3>1. r[x] = s[x + 1] /\ x + 1 \in 1 .. Len(s) /\ x + 1 # i
      BY <1>0, <1>5, <2>2
    <3> QED
      BY <3>1
  <2> QED
    BY <2>1, <2>2
<1>8. ASSUME NEW y \in 1 .. Len(s), s[y] # s[i] PROVE \E x \in 1 .. Len(s) - 1 : r[x] = s[y]
  <2>1. CASE y < i
    <3>1. y \in 1 .. Len(s) - 1 /\ r[y] = s[y]
      BY <1>0, <1>5, <2>1
    <3> QED
      BY <3>1
  <2>2. CASE ~(y < i)
    <3>1. y # i
      BY <1>8
    <3>2. y - 1 \in 1 .. Len(s) - 1 /\ ~(y - 1 < i) /\ y - 1 + 1 = y
      BY <1>0, <2>2, <3>1
    <3>3. r[y - 1] = s[y]
      BY <1>5, <3>2
    <3> QED
      BY <3>2, <3>3
  <2> QED
    BY <2>1, <2>2
<1>9. {r[x] : x \in DOMAIN r} = {s[x] : x \in DOMAIN s} \ {s[i]}
  <2>1. {r[x] : x \in 1 .. Len(s) - 1} \subseteq {s[y] : y \in 1 .. Len(s)} \ {s[i]}
    BY <1>7
  <2>2. {s[y] : y \in 1 .. Len(s)} \ {s[i]} \subseteq {r[x] : x \in 1 .. Len(s) - 1}
    <3> SUFFICES ASSUME NEW y \in 1 .. Len(s), s[y] # s[i]
                 PROVE  s[y] \in {r[x] : x \in 1 .. Len(s) - 1}
      OBVIOUS
    <3> QED
      BY <1>8
  <2> QED
    BY <1>0, <1>4, <2>1, <2>2
<1> QED
  BY <1>3, <1>4, <1>6, <1>9 DEF r, a, b

\* A list that loses an element.
LEMMA ListRemoveIs ==
  ASSUME NEW h, TreeInv(h), NEW p \in Settings, NEW i \in 1 .. Len(h[p].kids)
  PROVE  LET g == ListRemove(h, p, i) IN
         /\ g \in Heaps
         /\ \A m \in Settings \ {p} : g[m] = h[m]
         /\ Alike(g[p], h[p]) /\ g[p].hook = h[p].hook /\ g[p].val = h[p].val
         /\ g[p].file = h[p].file /\ g[p].room = h[p].room
         /\ Len(g[p].kids) = Len(h[p].kids) - 1
         /\ \A x, y \in 1 .. Len(g[p].kids) : g[p].kids[x] = g[p].kids[y] => x = y
         /\ Kids(g, p) = Kids(h, p) \ {h[p].kids[i]}
         /\ \A m \in Settings \ {p} : Kids(g, m) = Kids(h, m)
<1> USE DEF TreeInv
<1> DEFINE list == h[p].kids
           kids == SubSeq(list, 1, i - 1) \o SubSeq(list, i + 1, Len(list))
           s == [h[p] EXCEPT !.kids = kids]
           g == ListRemove(h, p, i)
<1>1. h[p] \in Setting /\ list \in Seq(Settings)
  BY KidsOf DEF Heaps
<1>2. \A x, y \in 1 .. Len(list) : list[x] = list[y] => x = y
  BY DEF FamilyInv
<1>3. g = [h EXCEPT ![p] = s]
  BY DEF ListRemove, Heaps
<1> HIDE DEF g
<1>4. /\ kids \in Seq(Settings) /\ Len(kids) = Len(list) - 1
      /\ \A x, y \in 1 .. Len(kids) : kids[x] = kids[y] => x = y
      /\ {kids[x] : x \in DOMAIN kids} = {list[x] : x \in DOMAIN list} \ {list[i]}
  <2> HIDE DEF list
  <2>1. i \in 1 .. Len(list)
    BY DEF list
  <2> QED
    BY <1>1, <1>2, <2>1, RemoveAtProperties
<1> HIDE DEF kids
<1>5. s \in Setting /\ Alike(s, h[p]) /\ s.hook = h[p].hook /\ s.val = h[p].val
      /\ s.file = h[p].file /\ s.room = h[p].room /\ s.kids = kids
  BY <1>1, <1>4 DEF Setting, Alike
<1> HIDE DEF s
<1>6. g \in Heaps /\ g[p] = s /\ \A m \in Settings \ {p} : g[m] = h[m]
  BY <1>3, <1>5 DEF Heaps
<1>7. Kids(g, p) = Kids(h, p) \ {h[p].kids[i]}
  <2>1. g[p].kids = kids
    BY <1>5, <1>6
  <2>2. {g[p].kids[x] : x \in DOMAIN g[p].kids} = {kids[x] : x \in DOMAIN kids}
    BY <2>1, Zenon
  <2>3. {h[p].kids[x] : x \in DOMAIN h[p].kids} = {list[x] : x \in DOMAIN list} /\ list[i] = h[p].kids[i]
    BY Zenon DEF list
  <2> HIDE DEF list
  <2> QED
    BY <1>4, <2>2, <2>3, Zenon DEF Kids
<1>8. \A m \in Settings \ {p} : Kids(g, m) = Kids(h, m)
  BY <1>6 DEF Kids
<1> QED
  BY <1>4, <1>5, <1>6, <1>7, <1>8 DEF g, list
\* What is below an element does not reach above it, and is the same once the element has
\* left the list of its parent.
LEMMA BelowIsApart ==
  ASSUME NEW h, TreeInv(h), NEW p \in Live(h), NEW i \in 1 .. Len(h[p].kids)
  PROVE  LET e == h[p].kids[i]
             below == Subtree(h, e)
         IN  /\ e \in below /\ below \subseteq Live(h) /\ Closed(h, below)
             /\ Root \notin below /\ p \notin below
             /\ \A m \in below : m = e \/ h[m].parent \in below
             /\ Subtree(ListRemove(h, p, i), e) = below
<1> USE DEF TreeInv
<1> DEFINE e == h[p].kids[i]
           D == Subtree(h, e)
           g == ListRemove(h, p, i)
<1>1. p \in Settings /\ Live(h) \subseteq Settings /\ Root \in Live(h) /\ Null \notin Settings
  BY SettingsAssumption DEF SettingsAssumption, FamilyInv, Live, Root, Settings, Null
<1>2. e \in Kids(h, p) /\ e \in Live(h) /\ h[e].parent = p
  <2>1. e \in Kids(h, p)
    BY <1>1, KidsOf
  <2> QED
    BY <1>1, <2>1 DEF FamilyInv
<1>3. \A m \in Settings : Kids(h, m) \subseteq Settings /\ Kids(h, m) \subseteq Live(h)
  BY KidsOf DEF FamilyInv
<1>4. /\ g \in Heaps
      /\ Kids(g, p) = Kids(h, p) \ {e}
      /\ \A m \in Settings \ {p} : Kids(g, m) = Kids(h, m)
  BY <1>1, ListRemoveIs
<1> HIDE DEF e, g
<1>5. /\ e \in D /\ D \subseteq Settings /\ Closed(h, D)
      /\ \A S : e \in S /\ Closed(h, S) => D \subseteq S
  BY <1>1, <1>2, <1>3, SubtreeLeast
<1>6. D \subseteq Live(h)
  <2>1. Closed(h, Live(h))
    BY <1>1, <1>3 DEF Closed
  <2> QED
    BY <1>2, <1>5, <2>1
<1>7. \A m \in D : m = e \/ h[m].parent \in D
  <2> DEFINE V == {m \in D : m = e \/ h[m].parent \in D}
  <2>1. \A m \in V : Kids(h, m) \subseteq V
    <3> SUFFICES ASSUME NEW m \in V, NEW x \in Kids(h, m) PROVE x \in V
      OBVIOUS
    <3>1. x \in D
      BY <1>5 DEF Closed
    <3>2. h[x].parent = m
      BY <1>5 DEF FamilyInv
    <3> QED
      BY <3>1, <3>2
  <2>2. e \in V /\ Closed(h, V)
    BY <1>5, <2>1 DEF Closed
  <2>3. D \subseteq V
    BY <1>5, <2>2
  <2> QED
    BY <2>3
<1> HIDE DEF D
<1>8. Root \notin D
  <2>1. h[Root].parent = Null
    BY DEF FamilyInv
  <2> QED
    BY <1>1, <1>2, <1>5, <1>7, <2>1
<1>9. p \notin D
  <2> SUFFICES ASSUME p \in D PROVE FALSE
    OBVIOUS
  <2> DEFINE S == Live(h) \ D
  <2>1. ASSUME NEW m \in S, NEW x \in Kids(h, m) PROVE x \in S
    <3>1. x \in Live(h) /\ h[x].parent = m /\ m \notin D
      BY <1>1, <1>3 DEF FamilyInv
    <3> QED
      BY <1>2, <1>7, <3>1
  <2>2. Root \in S /\ S \in SUBSET Settings /\ Closed(h, S)
    BY <1>1, <1>8, <2>1 DEF Closed
  <2>3. Live(h) \subseteq S
    BY <2>2 DEF FamilyInv
  <2> QED
    BY <1>2, <1>5, <2>3
<1>10. Subtree(g, e) = D
  <2>1. \A m \in Settings : Kids(g, m) \subseteq Kids(h, m) /\ Kids(g, m) \subseteq Settings
    BY <1>1, <1>3, <1>4
  <2>2. /\ e \in Subtree(g, e) /\ Subtree(g, e) \subseteq Settings /\ Closed(g, Subtree(g, e))
        /\ \A S : e \in S /\ Closed(g, S) => Subtree(g, e) \subseteq S
    BY <1>1, <1>2, <2>1, SubtreeLeast
  <2>3. Closed(g, D)
    BY <1>5, <2>1 DEF Closed
  <2>4. Subtree(g, e) \subseteq D
    BY <1>5, <2>2, <2>3
  <2>5. Closed(h, Subtree(g, e))
    BY <1>4, <1>9, <2>2, <2>4 DEF Closed
  <2>6. D \subseteq Subtree(g, e)
    BY <1>5, <2>2, <2>5
  <2> QED
    BY <2>4, <2>6
<1> QED
  BY <1>5, <1>6, <1>7, <1>8, <1>9, <1>10 DEF e, D, g

\* An element is destroyed with what is below it, and nothing else changes.
LEMMA DestroyIs ==
  ASSUME NEW h, TreeInv(h), NEW p \in Live(h), NEW i \in 1 .. Len(h[p].kids)
  PROVE  LET e == h[p].kids[i]
             below == Subtree(h, e)
             g == SettingDestroy(ListRemove(h, p, i), e)
         IN  /\ g \in Heaps /\ Live(g) = Live(h) \ below
             /\ \A m \in below : g[m] = FreeMemory /\ Kids(g, m) = {}
             /\ \A m \in Settings \ below :
                  /\ Alike(g[m], h[m]) /\ g[m].hook = h[m].hook /\ g[m].val = h[m].val
                  /\ g[m].room = h[m].room /\ g[m].file = h[m].file
             /\ \A m \in Settings \ (below \cup {p}) : g[m] = h[m] /\ Kids(g, m) = Kids(h, m)
             /\ Kids(g, p) = Kids(h, p) \ {e} /\ Len(g[p].kids) = Len(h[p].kids) - 1
             /\ \A x, y \in 1 .. Len(g[p].kids) : g[p].kids[x] = g[p].kids[y] => x = y
<1> DEFINE e == h[p].kids[i]
           D == Subtree(h, e)
           k == ListRemove(h, p, i)
           g == SettingDestroy(k, e)
<1>1. e \in D /\ D \subseteq Live(h) /\ p \notin D /\ Subtree(k, e) = D
  BY BelowIsApart
<1>2. /\ k \in Heaps
      /\ \A m \in Settings \ {p} : k[m] = h[m]
      /\ Alike(k[p], h[p]) /\ k[p].hook = h[p].hook /\ k[p].val = h[p].val
      /\ k[p].file = h[p].file /\ k[p].room = h[p].room
      /\ Len(k[p].kids) = Len(h[p].kids) - 1
      /\ \A x, y \in 1 .. Len(k[p].kids) : k[p].kids[x] = k[p].kids[y] => x = y
      /\ Kids(k, p) = Kids(h, p) \ {e}
      /\ \A m \in Settings \ {p} : Kids(k, m) = Kids(h, m)
  BY ListRemoveIs DEF Live
<1>3. g = [m \in Settings |-> IF m \in D THEN FreeMemory ELSE k[m]]
  BY <1>1, Zenon DEF SettingDestroy
<1>4. p \in Settings /\ D \subseteq Settings
  BY <1>1 DEF Live
<1>5. FreeMemory \in Setting /\ FreeMemory.kids = <<>> /\ FreeMemory.type = "FREE"
  BY NewSettingIs DEF FreeMemory, Null
<1> HIDE DEF e, D, k, g
<1>6. /\ \A m \in D : g[m] = FreeMemory
      /\ \A m \in Settings \ D : g[m] = k[m]
  BY <1>3, <1>4
<1>7. g \in Heaps
  BY <1>2, <1>3, <1>5 DEF Heaps
<1>8. \A m \in D : Kids(g, m) = {}
  <2> TAKE m \in D
  <2>1. Len(g[m].kids) = 0
    BY <1>5, <1>6, EmptySeq
  <2> QED
    BY <1>4, <1>7, <2>1, KidsOf
<1>9. \A m \in Settings \ D : Kids(g, m) = Kids(k, m)
  BY <1>6 DEF Kids
<1>10. Live(g) = Live(h) \ D
  <2>1. \A m \in Settings \ D : g[m].type = h[m].type
    BY <1>2, <1>6 DEF Alike
  <2> QED
    BY <1>5, <1>6, <2>1 DEF Live
<1>11. \A m \in Settings \ D :
         /\ Alike(g[m], h[m]) /\ g[m].hook = h[m].hook /\ g[m].val = h[m].val
         /\ g[m].room = h[m].room /\ g[m].file = h[m].file
  BY <1>2, <1>6 DEF Alike
<1>12. \A m \in Settings \ (D \cup {p}) : g[m] = h[m] /\ Kids(g, m) = Kids(h, m)
  BY <1>2, <1>6, <1>9
<1>13. /\ Kids(g, p) = Kids(h, p) \ {e} /\ Len(g[p].kids) = Len(h[p].kids) - 1
       /\ \A x, y \in 1 .. Len(g[p].kids) : g[p].kids[x] = g[p].kids[y] => x = y
  BY <1>1, <1>2, <1>4, <1>6, <1>9
<1> QED
  BY <1>6, <1>7, <1>8, <1>10, <1>11, <1>12, <1>13 DEF e, D, k, g

\* What is left is a tree.
LEMMA DestroyTree ==
  ASSUME NEW h, TreeInv(h), NEW p \in Live(h), NEW i \in 1 .. Len(h[p].kids)
  PROVE  TreeInv(SettingDestroy(ListRemove(h, p, i), h[p].kids[i]))
<1> USE DEF TreeInv
<1> DEFINE e == h[p].kids[i]
           D == Subtree(h, e)
           g == SettingDestroy(ListRemove(h, p, i), e)
<1>1. /\ e \in D /\ D \subseteq Live(h) /\ Closed(h, D) /\ Root \notin D /\ p \notin D
      /\ \A m \in D : m = e \/ h[m].parent \in D
  BY BelowIsApart
<1>2. /\ g \in Heaps /\ Live(g) = Live(h) \ D
      /\ \A m \in D : g[m] = FreeMemory /\ Kids(g, m) = {}
      /\ \A m \in Settings \ D :
           /\ Alike(g[m], h[m]) /\ g[m].hook = h[m].hook /\ g[m].val = h[m].val
           /\ g[m].room = h[m].room /\ g[m].file = h[m].file
      /\ \A m \in Settings \ (D \cup {p}) : g[m] = h[m] /\ Kids(g, m) = Kids(h, m)
      /\ Kids(g, p) = Kids(h, p) \ {e} /\ Len(g[p].kids) = Len(h[p].kids) - 1
      /\ \A x, y \in 1 .. Len(g[p].kids) : g[p].kids[x] = g[p].kids[y] => x = y
  BY DestroyIs
<1>3. p \in Settings /\ Live(h) \subseteq Settings /\ Root \in Live(h)
  BY SettingsAssumption DEF SettingsAssumption, FamilyInv, Live, Root, Settings
<1>4. FreeMemory.kids = <<>> /\ FreeMemory.room = 0
  BY DEF FreeMemory, NewSetting
<1> HIDE DEF e, D, g
<1>5. \A m \in Settings : Kids(h, m) \subseteq Live(h)
  BY DEF FamilyInv
<1>6. \A m \in Settings : Kids(g, m) \subseteq Kids(h, m) \ {e}
  <2> TAKE m \in Settings
  <2>1. CASE m \in D
    BY <1>2, <2>1
  <2>2. CASE m = p
    BY <1>2, <2>2
  <2>3. CASE m \notin D /\ m # p
    <3>1. e \in Kids(h, p)
      BY <1>3, KidsOf DEF e
    <3>2. h[e].parent = p
      BY <1>3, <3>1 DEF FamilyInv
    <3>3. e \notin Kids(h, m)
      BY <2>3, <3>2 DEF FamilyInv
    <3> QED
      BY <1>2, <2>3, <3>3
  <2> QED
    BY <2>1, <2>2, <2>3
<1>7. FamilyInv(g)
  <2>1. g[Root].type = "GROUP" /\ g[Root].parent = Null /\ g[Root].name = NoName
    BY <1>1, <1>2, <1>3 DEF FamilyInv, Alike
  <2>2. ASSUME NEW m \in Live(g) \ {Root} PROVE g[m].parent \in Live(g) /\ m \in Kids(g, g[m].parent)
    <3>1. m \in Live(h) \ {Root} /\ m \in Settings /\ m \notin D /\ m # e
      BY <1>1, <1>2, <1>3
    <3>2. g[m].parent = h[m].parent /\ h[m].parent \in Live(h) /\ m \in Kids(h, h[m].parent)
      BY <1>2, <3>1 DEF FamilyInv, Alike
    <3>3. h[m].parent \notin D
      BY <1>1, <3>1, <3>2 DEF Closed
    <3> QED
      BY <1>2, <1>3, <3>1, <3>2, <3>3
  <2>3. ASSUME NEW q \in Settings, NEW m \in Kids(g, q) PROVE m \in Live(g) /\ g[m].parent = q
    <3>1. m \in Kids(h, q) /\ m # e /\ q \notin D
      BY <1>2, <1>6
    <3>2. m \in Live(h) /\ h[m].parent = q /\ m \in Settings
      BY <1>3, <3>1 DEF FamilyInv
    <3>3. m \notin D
      BY <1>1, <3>1, <3>2
    <3> QED
      BY <1>2, <3>2, <3>3 DEF Alike
  <2>4. ASSUME NEW q \in Settings
        PROVE  \A x, y \in 1 .. Len(g[q].kids) : g[q].kids[x] = g[q].kids[y] => x = y
    <3>1. CASE q \in D
      <4>1. Len(g[q].kids) = 0
        BY <1>2, <1>4, <3>1, EmptySeq
      <4> QED
        BY <4>1
    <3>2. CASE q = p
      BY <1>2, <3>2
    <3>3. CASE q \notin D /\ q # p
      BY <1>2, <3>3 DEF FamilyInv
    <3> QED
      BY <3>1, <3>2, <3>3
  <2>5. ASSUME NEW S \in SUBSET Settings, Root \in S, Closed(g, S) PROVE Live(g) \subseteq S
    <3>1. ASSUME NEW m \in S \cup D PROVE Kids(h, m) \subseteq S \cup D
      <4>1. CASE m \in D
        BY <1>1, <4>1 DEF Closed
      <4>2. CASE m \notin D
        <5>1. m \in S /\ m \in Settings /\ Kids(g, m) \subseteq S
          BY <2>5, <3>1, <4>2 DEF Closed
        <5>2. Kids(h, m) \subseteq Kids(g, m) \cup {e}
          BY <1>2, <4>2, <5>1
        <5> QED
          BY <1>1, <5>1, <5>2
      <4> QED
        BY <4>1, <4>2
    <3>2. S \cup D \in SUBSET Settings /\ Root \in S \cup D /\ Closed(h, S \cup D)
      BY <1>1, <1>3, <2>5, <3>1 DEF Closed
    <3>3. Live(h) \subseteq S \cup D
      BY <3>2 DEF FamilyInv
    <3> QED
      BY <1>2, <3>3
  <2> QED
    BY <2>1, <2>2, <2>3, <2>4, <2>5 DEF FamilyInv
<1>8. ListsInv(g)
  <2> SUFFICES ASSUME NEW m \in Settings
               PROVE  Roomy(g[m]) /\ (g[m].room > 0 => g[m].type \in Aggregates)
    BY DEF ListsInv
  <2>1. CASE m \in D
    <3>1. 0 <= 0 * CHUNK_SIZE /\ 0 * CHUNK_SIZE <= 0
      BY SettingsAssumption DEF SettingsAssumption
    <3> QED
      BY <1>2, <1>4, <2>1, <3>1, EmptySeq DEF Roomy
  <2>2. CASE m = p
    <3>1. PICK k \in Nat : Len(h[p].kids) <= k * CHUNK_SIZE /\ k * CHUNK_SIZE <= h[p].room
      BY <1>3 DEF ListsInv, Roomy
    <3>2. Len(h[p].kids) \in Nat /\ k * CHUNK_SIZE \in Nat
      BY <1>3, KidsOf, SettingsAssumption DEF SettingsAssumption
    <3>3. Len(h[p].kids) - 1 <= k * CHUNK_SIZE
      BY <3>1, <3>2
    <3>4. Len(g[p].kids) <= k * CHUNK_SIZE /\ k * CHUNK_SIZE <= g[p].room
      BY <1>1, <1>2, <1>3, <3>1, <3>3
    <3>5. g[p].type = h[p].type /\ g[p].room = h[p].room
      BY <1>1, <1>2, <1>3 DEF Alike
    <3>6. h[p].room > 0 => h[p].type \in Aggregates
      BY <1>3 DEF ListsInv
    <3> QED
      BY <2>2, <3>4, <3>5, <3>6 DEF Roomy
  <2>3. CASE m \notin D /\ m # p
    BY <1>2, <2>3 DEF ListsInv
  <2> QED
    BY <2>1, <2>2, <2>3
<1>9. NamesInv(g)
  <2>1. ASSUME NEW q \in Settings, NEW m \in Kids(g, q)
        PROVE  m \in Kids(h, q) /\ g[m].name = h[m].name /\ g[q].type = h[q].type
    <3>1. m \in Kids(h, q) /\ q \notin D /\ m \in Live(g) /\ m \in Settings
      BY <1>2, <1>3, <1>5, <1>6, <1>7 DEF FamilyInv
    <3>2. m \notin D
      BY <1>2, <3>1
    <3> QED
      BY <1>2, <3>1, <3>2 DEF Alike
  <2> QED
    BY <2>1 DEF NamesInv
<1> QED
  BY <1>2, <1>7, <1>8, <1>9 DEF g, e
-----------------------------------------------------------------------------
(* Sieves and paths.                                                       *)

\* The elements of a list that are in a set, one after the other.
Sifts(Kept, T, list, ms) ==
  /\ Kept \in [0 .. Len(list) -> Seq(T)]
  /\ Kept[0] = <<>>
  /\ \A k \in 1 .. Len(list) :
       Kept[k] = IF list[k] \in ms THEN Append(Kept[k - 1], list[k]) ELSE Kept[k - 1]
  /\ Only(list, ms) = Kept[Len(list)]

\* A sieve goes through its list.
LEMMA OnlySteps ==
  ASSUME NEW T, NEW list \in Seq(T), NEW ms
  PROVE  \E Kept : Sifts(Kept, T, list, ms)
<1> DEFINE N == Len(list)
           Sieve(f) ==
             [i \in 0 .. N |->
                IF i = 0 THEN <<>>
                ELSE IF list[i] \in ms THEN Append(f[i - 1], list[i]) ELSE f[i - 1]]
           next(k, s) == IF list[k] \in ms THEN Append(s, list[k]) ELSE s
           steps == {t \in Nat \X Seq(T) \X Seq(T) : t[3] = next(t[1], t[2])}
           Kept == CHOOSE f : f = Sieve(f)
<1>0. N \in Nat /\ \A k \in 1 .. N : list[k] \in T
  BY LenProperties, ElementOfSeq
<1>1. \A k \in 1 .. N, s \in Seq(T) : next(k, s) \in Seq(T)
  <2> TAKE k \in 1 .. N, s \in Seq(T)
  <2>1. Append(s, list[k]) \in Seq(T)
    BY <1>0, AppendProperties
  <2> QED
    BY <2>1
<1>2. \A k \in 1 .. N, s \in Seq(T) : \E t \in Seq(T) : <<k, s, t>> \in steps
  <2> HIDE DEF N, next
  <2> SUFFICES ASSUME NEW k \in 1 .. N, NEW s \in Seq(T)
               PROVE  <<k, s, next(k, s)>> \in steps
    BY <1>1
  <2>1. k \in Nat
    BY <1>0
  <2> QED
    BY <1>1, <2>1
<1>3. PICK f \in [0 .. N -> Seq(T)] :
        f[0] = <<>> /\ \A k \in 1 .. N : <<k, f[k - 1], f[k]>> \in steps
  <2> HIDE DEF steps, N
  <2>1. <<>> \in Seq(T)
    BY EmptySeq
  <2>2. PICK f : Recurs(f, N, Seq(T), <<>>, steps)
    BY <1>0, <1>2, <2>1, Recursion
  <2> QED
    BY <2>2 DEF Recurs
<1> HIDE DEF N
<1>4. \A k \in 1 .. N : f[k] = next(k, f[k - 1])
  <2> TAKE k \in 1 .. N
  <2> HIDE DEF next
  <2>1. <<k, f[k - 1], f[k]>> \in steps
    BY <1>3
  <2> QED
    BY <2>1
<1>5. \A k \in 0 .. N : k # 0 => k \in 1 .. N
  BY <1>0
<1>6. f = Sieve(f)
  <2>1. \A k \in 0 .. N : f[k] = IF k = 0 THEN <<>>
                                 ELSE IF list[k] \in ms THEN Append(f[k - 1], list[k]) ELSE f[k - 1]
    BY <1>3, <1>4, <1>5, Zenon
  <2> QED
    BY <1>3, <2>1
<1>7. Kept = Sieve(Kept)
  <2>1. \E g : g = Sieve(g)
    BY <1>6
  <2> HIDE DEF Sieve
  <2> QED
    BY <2>1
<1>8. Only(list, ms) = Kept[N]
  BY DEF Only, N
<1> HIDE DEF Kept
<1>9. 0 \in 0 .. N /\ \A k \in 1 .. N : k - 1 \in 0 .. N /\ k \in 0 .. N /\ k # 0
  BY <1>0
<1>10. Kept[0] = <<>>
  BY <1>7, <1>9
<1>11. \A k \in 1 .. N : Kept[k] = next(k, Kept[k - 1])
  <2> TAKE k \in 1 .. N
  <2>1. Kept[k] = Sieve(Kept)[k]
    BY <1>7, Zenon
  <2>2. Sieve(Kept)[k] = next(k, Kept[k - 1])
    BY <1>9, Zenon
  <2> QED
    BY <2>1, <2>2
<1>12. Kept \in [0 .. N -> Seq(T)]
  <2> DEFINE holds == {k \in 0 .. N : Kept[k] \in Seq(T)}
  <2>1. 0 \in holds
    BY <1>9, <1>10, EmptySeq
  <2>2. \A k \in 1 .. N : k - 1 \in holds => k \in holds
    <3> HIDE DEF next
    <3> QED
      BY <1>1, <1>9, <1>11
  <2>3. 0 .. N \subseteq holds
    <3> HIDE DEF holds
    <3> QED
      BY <1>0, <2>1, <2>2, Stepwise
  <2>4. Kept = [k \in 0 .. N |-> Kept[k]]
    BY <1>7
  <2> QED
    BY <2>3, <2>4
<1> QED
  BY <1>8, <1>10, <1>11, <1>12 DEF N, Sifts

\* What a sieve leaves of a list: the elements that are in the set, each once if it was.
LEMMA OnlyProperties ==
  ASSUME NEW T, NEW list \in Seq(T), NEW ms
  PROVE  LET r == Only(list, ms) IN
         /\ r \in Seq(T)
         /\ {r[x] : x \in DOMAIN r} = {list[x] : x \in DOMAIN list} \cap ms
         /\ (\A x, y \in 1 .. Len(list) : list[x] = list[y] => x = y) =>
              \A x, y \in 1 .. Len(r) : r[x] = r[y] => x = y
<1> DEFINE N == Len(list)
           Members(s) == {s[x] : x \in DOMAIN s}
           Once(s) == \A x, y \in 1 .. Len(s) : s[x] = s[y] => x = y
<1>0. N \in Nat /\ DOMAIN list = 1 .. N /\ \A k \in 1 .. N : list[k] \in T
  BY LenProperties, ElementOfSeq
<1>i. PICK Kept : Sifts(Kept, T, list, ms)
  BY OnlySteps
<1> HIDE DEF N
<1>1. /\ Kept \in [0 .. N -> Seq(T)]
      /\ Kept[0] = <<>>
      /\ \A k \in 1 .. N :
           Kept[k] = IF list[k] \in ms THEN Append(Kept[k - 1], list[k]) ELSE Kept[k - 1]
      /\ Only(list, ms) = Kept[N]
  BY <1>i, Zenon DEF N, Sifts
<1>2. \A k \in 1 .. N : k - 1 \in 0 .. N /\ k \in 0 .. N /\ Kept[k - 1] \in Seq(T)
  BY <1>0, <1>1
<1>3. ASSUME NEW s \in Seq(T), NEW e \in T
      PROVE  /\ Members(Append(s, e)) = Members(s) \cup {e}
             /\ Len(Append(s, e)) = Len(s) + 1 /\ Len(s) \in Nat
             /\ \A x \in 1 .. Len(s) : Append(s, e)[x] = s[x] /\ s[x] \in Members(s)
             /\ Append(s, e)[Len(s) + 1] = e
  <2>1. /\ Append(s, e) \in Seq(T)
        /\ Len(Append(s, e)) = Len(s) + 1
        /\ \A x \in 1 .. Len(s) : Append(s, e)[x] = s[x]
        /\ Append(s, e)[Len(s) + 1] = e
    BY AppendProperties
  <2>2. DOMAIN s = 1 .. Len(s) /\ Len(s) \in Nat /\ DOMAIN Append(s, e) = 1 .. Len(s) + 1
    BY <2>1, LenProperties
  <2>3. 1 .. Len(s) + 1 = (1 .. Len(s)) \cup {Len(s) + 1}
    BY <2>2
  <2> QED
    BY <2>1, <2>2, <2>3
<1>4. Members(<<>>) = {} /\ Once(<<>>)
  <2>1. DOMAIN <<>> = {} /\ Len(<<>>) = 0
    BY EmptySeq
  <2> QED
    BY <2>1
<1> HIDE DEF Members
<1>5. N \in {k \in 0 .. N : Members(Kept[k]) = {list[x] : x \in 1 .. k} \cap ms}
  <2> DEFINE holds == {k \in 0 .. N : Members(Kept[k]) = {list[x] : x \in 1 .. k} \cap ms}
  <2>1. 0 \in holds
    BY <1>0, <1>1, <1>4
  <2>2. ASSUME NEW k \in 1 .. N, Members(Kept[k - 1]) = {list[x] : x \in 1 .. k - 1} \cap ms
        PROVE  Members(Kept[k]) = {list[x] : x \in 1 .. k} \cap ms
    <3>1. {list[x] : x \in 1 .. k} = {list[x] : x \in 1 .. k - 1} \cup {list[k]}
      <4>1. 1 .. k = (1 .. k - 1) \cup {k}
        BY <1>0
      <4> QED
        BY <4>1
    <3>2. CASE list[k] \in ms
      <4>1. Members(Kept[k]) = Members(Kept[k - 1]) \cup {list[k]}
        BY <1>0, <1>1, <1>2, <1>3, <3>2
      <4> QED
        BY <2>2, <3>1, <3>2, <4>1
    <3>3. CASE list[k] \notin ms
      BY <1>1, <2>2, <3>1, <3>3
    <3> QED
      BY <3>2, <3>3
  <2>3. \A k \in 1 .. N : k - 1 \in holds => k \in holds
    BY <1>2, <2>2
  <2>4. 0 .. N \subseteq holds
    <3> HIDE DEF holds
    <3> QED
      BY <1>0, <2>1, <2>3, Stepwise
  <2> QED
    BY <1>0, <2>4
<1>6. ASSUME Once(list) PROVE N \in {k \in 0 .. N : \A x, y \in 1 .. Len(Kept[k]) : Kept[k][x] = Kept[k][y] => x = y}
  <2> DEFINE within == {k \in 0 .. N : \A x \in 1 .. Len(Kept[k]) : \E z \in 1 .. k : Kept[k][x] = list[z]}
             once == {k \in 0 .. N : \A x, y \in 1 .. Len(Kept[k]) : Kept[k][x] = Kept[k][y] => x = y}
  <2>1. 0 \in within /\ 0 \in once
    <3>1. Len(Kept[0]) = 0
      BY <1>1, EmptySeq
    <3> QED
      BY <1>0, <3>1
  <2>2. ASSUME NEW k \in 1 .. N, k - 1 \in within, k - 1 \in once
        PROVE  k \in within /\ k \in once
    <3> DEFINE s == Kept[k - 1]
               last == Len(s) + 1
    <3>1. s \in Seq(T) /\ list[k] \in T /\ Len(s) \in Nat
      BY <1>0, <1>2, LenProperties
    <3>2. \A x \in 1 .. Len(s) : \E z \in 1 .. k - 1 : s[x] = list[z]
      BY <2>2
    <3>3. \A x, y \in 1 .. Len(s) : s[x] = s[y] => x = y
      BY <2>2
    <3>4. CASE list[k] \notin ms
      <4>1. Kept[k] = s
        BY <1>1, <3>4
      <4>2. \A z \in 1 .. k - 1 : z \in 1 .. k
        OBVIOUS
      <4> HIDE DEF s
      <4> QED
        BY <1>2, <3>2, <3>3, <4>1, <4>2
    <3>5. CASE list[k] \in ms
      <4>1. /\ Len(Kept[k]) = last
            /\ \A x \in 1 .. Len(s) : Kept[k][x] = s[x]
            /\ Kept[k][last] = list[k]
        <5>1. Kept[k] = Append(s, list[k])
          BY <1>1, <3>5
        <5> HIDE DEF s
        <5> QED
          BY <1>3, <3>1, <5>1
      <4>2. 1 .. last = (1 .. Len(s)) \cup {last} /\ last \notin 1 .. Len(s)
        BY <3>1
      <4>3. \A z \in 1 .. k - 1 : z \in 1 .. k /\ z # k /\ z \in 1 .. N
        BY <1>0
      <4>4. \A z \in 1 .. k - 1 : list[z] # list[k]
        BY <1>6, <4>3 DEF N
      <4>5. \A x \in 1 .. Len(s) : s[x] # list[k]
        BY <3>2, <4>4
      <4> HIDE DEF s, last
      <4>6. \A x \in 1 .. Len(Kept[k]) : \E z \in 1 .. k : Kept[k][x] = list[z]
        BY <3>2, <4>1, <4>2, <4>3
      <4>7. \A x, y \in 1 .. Len(Kept[k]) : Kept[k][x] = Kept[k][y] => x = y
        BY <3>3, <4>1, <4>2, <4>5
      <4> QED
        BY <1>2, <4>6, <4>7
    <3> QED
      BY <3>4, <3>5
  <2> DEFINE both == within \cap once
  <2>3. 0 \in both /\ \A k \in 1 .. N : k - 1 \in both => k \in both
    <3> HIDE DEF within, once
    <3> QED
      BY <2>1, <2>2
  <2>4. 0 .. N \subseteq both
    <3> HIDE DEF both
    <3> QED
      BY <1>0, <2>3, Stepwise
  <2> QED
    BY <1>0, <2>4
<1>7. Members(Kept[N]) = {list[x] : x \in DOMAIN list} \cap ms
  BY <1>0, <1>5
<1>8. Kept[N] \in Seq(T)
  BY <1>0, <1>1
<1>9. Only(list, ms) = Kept[N]
  BY <1>1
<1>10. (\A x, y \in 1 .. Len(list) : list[x] = list[y] => x = y) =>
         \A x, y \in 1 .. Len(Kept[N]) : Kept[N][x] = Kept[N][y] => x = y
  BY <1>6
<1> QED
  BY <1>7, <1>8, <1>9, <1>10, Zenon DEF Members
\* A way up from a setting: from each to its parent, as far as there is one.
LEMMA AncestorsSteps ==
  ASSUME NEW h, TreeInv(h), NEW n \in Live(h)
  PROVE  \E Up :
           /\ Up \in [0 .. MaxSettings -> {s \in Seq(Live(h)) : Len(s) >= 1}]
           /\ Up[0] = <<n>>
           /\ \A k \in 1 .. MaxSettings :
                LET up == Up[k - 1]  p == h[up[Len(up)]].parent IN
                Up[k] = IF p = Null THEN up ELSE Append(up, p)
           /\ Ancestors(h, n) = Up[MaxSettings]
<1> USE DEF TreeInv
<1> DEFINE T == {s \in Seq(Live(h)) : Len(s) >= 1}
           above(s) == h[s[Len(s)]].parent
           next(s) == IF above(s) = Null THEN s ELSE Append(s, above(s))
           Climb(f) ==
             [k \in 0 .. MaxSettings |->
                IF k = 0 THEN <<n>>
                ELSE LET up == f[k - 1]  p == h[up[Len(up)]].parent IN
                     IF p = Null THEN up ELSE Append(up, p)]
           steps == {t \in Nat \X T \X T : t[3] = next(t[2])}
           Up == CHOOSE f : f = Climb(f)
<1>0. MaxSettings \in Nat
  BY SettingsAssumption DEF SettingsAssumption
<1>1. \A s \in T : next(s) \in T
  <2> TAKE s \in T
  <2>1. s \in Seq(Live(h)) /\ Len(s) \in 1 .. Len(s) /\ Len(s) \in Nat
    BY LenProperties
  <2>2. s[Len(s)] \in Live(h)
    BY <2>1, ElementOfSeq
  <2>3. above(s) = Null \/ above(s) \in Live(h)
    BY <2>2 DEF FamilyInv
  <2> HIDE DEF above
  <2>4. CASE above(s) = Null
    BY <2>4
  <2>5. CASE above(s) # Null
    <3>1. Append(s, above(s)) \in Seq(Live(h)) /\ Len(Append(s, above(s))) = Len(s) + 1
      BY <2>1, <2>3, <2>5, AppendProperties
    <3> QED
      BY <2>1, <2>5, <3>1
  <2> QED
    BY <2>4, <2>5
<1>2. <<n>> \in T
  <2>1. <<n>> \in Seq(Live(h)) /\ Len(<<n>>) = 1
    OBVIOUS
  <2> QED
    BY <2>1
<1> HIDE DEF T, next
<1>3. \A k \in 1 .. MaxSettings, s \in T : \E t \in T : <<k, s, t>> \in steps
  <2> SUFFICES ASSUME NEW k \in 1 .. MaxSettings, NEW s \in T
               PROVE  <<k, s, next(s)>> \in steps
    BY <1>1
  <2> QED
    BY <1>0, <1>1
<1>4. PICK f \in [0 .. MaxSettings -> T] :
        f[0] = <<n>> /\ \A k \in 1 .. MaxSettings : <<k, f[k - 1], f[k]>> \in steps
  <2> HIDE DEF steps
  <2>1. PICK f : Recurs(f, MaxSettings, T, <<n>>, steps)
    BY <1>0, <1>2, <1>3, Recursion
  <2> QED
    BY <2>1 DEF Recurs
<1>5. \A k \in 1 .. MaxSettings : f[k] = next(f[k - 1])
  <2> TAKE k \in 1 .. MaxSettings
  <2>1. <<k, f[k - 1], f[k]>> \in steps
    BY <1>4
  <2> QED
    BY <2>1
<1>6. \A k \in 0 .. MaxSettings : k # 0 => k \in 1 .. MaxSettings
  BY <1>0
<1>7. f = Climb(f)
  <2>1. \A k \in 0 .. MaxSettings :
          f[k] = IF k = 0 THEN <<n>>
                 ELSE LET up == f[k - 1]  p == h[up[Len(up)]].parent IN
                      IF p = Null THEN up ELSE Append(up, p)
    BY <1>4, <1>5, <1>6, Zenon DEF next
  <2> QED
    BY <1>4, <2>1
<1>8. Up = Climb(Up)
  <2>1. \E g : g = Climb(g)
    BY <1>7
  <2> HIDE DEF Climb
  <2> QED
    BY <2>1
<1>9. Ancestors(h, n) = Up[MaxSettings]
  BY DEF Ancestors
<1> HIDE DEF Up
<1>10. 0 \in 0 .. MaxSettings
       /\ \A k \in 1 .. MaxSettings : k - 1 \in 0 .. MaxSettings /\ k \in 0 .. MaxSettings /\ k # 0
  BY <1>0
<1>11. Up[0] = <<n>>
  BY <1>8, <1>10
<1>12. \A k \in 1 .. MaxSettings : Up[k] = next(Up[k - 1])
  <2> TAKE k \in 1 .. MaxSettings
  <2>1. Up[k] = Climb(Up)[k]
    BY <1>8, Zenon
  <2>2. Climb(Up)[k] = next(Up[k - 1])
    BY <1>10, Zenon DEF next
  <2> QED
    BY <2>1, <2>2
<1>13. Up \in [0 .. MaxSettings -> T]
  <2> DEFINE holds == {k \in 0 .. MaxSettings : Up[k] \in T}
  <2>1. 0 \in holds
    BY <1>2, <1>10, <1>11
  <2>2. \A k \in 1 .. MaxSettings : k - 1 \in holds => k \in holds
    BY <1>1, <1>10, <1>12
  <2>3. 0 .. MaxSettings \subseteq holds
    <3> HIDE DEF holds
    <3> QED
      BY <1>0, <2>1, <2>2, Stepwise
  <2>4. Up = [k \in 0 .. MaxSettings |-> Up[k]]
    BY <1>8
  <2> QED
    BY <2>3, <2>4
<1>14. \A k \in 1 .. MaxSettings :
         LET up == Up[k - 1]  p == h[up[Len(up)]].parent IN
         Up[k] = IF p = Null THEN up ELSE Append(up, p)
  BY <1>12, Zenon DEF next
<1> QED
  BY <1>9, <1>11, <1>13, <1>14, Zenon DEF T

\* From a setting to the root, each time to the parent.
WayUp(up, h, n) ==
  /\ up \in Seq(Live(h)) /\ Len(up) >= 1 /\ Len(up) \in Nat
  /\ up[1] = n /\ up[Len(up)] = Root
  /\ \A k \in 1 .. Len(up) - 1 : up[k] # Root /\ h[up[k]].parent = up[k + 1]

\* The way up from a setting ends at the root: each step is to a level less of the tree.
LEMMA AncestorsProperties ==
  ASSUME NEW h, TreeInv(h), NEW n \in Live(h)
  PROVE  WayUp(Ancestors(h, n), h, n)
<1> USE DEF TreeInv
<1> DEFINE T == {s \in Seq(Live(h)) : Len(s) >= 1}
<1>0. MaxSettings \in Nat /\ Root \in Settings /\ Root \in Live(h) /\ Live(h) \subseteq Settings
      /\ Null \notin Settings
  BY SettingsAssumption DEF SettingsAssumption, FamilyInv, Live, Root, Settings, Null
<1>1. PICK Up :
        /\ Up \in [0 .. MaxSettings -> T]
        /\ Up[0] = <<n>>
        /\ \A k \in 1 .. MaxSettings :
             LET up == Up[k - 1]  p == h[up[Len(up)]].parent IN
             Up[k] = IF p = Null THEN up ELSE Append(up, p)
        /\ Ancestors(h, n) = Up[MaxSettings]
  BY AncestorsSteps, Zenon
<1>2. \A k \in 1 .. MaxSettings : k - 1 \in 0 .. MaxSettings /\ k \in 0 .. MaxSettings
  BY <1>0
<1>3. \A m \in Settings : Kids(h, m) \subseteq Settings
  BY KidsOf
<1>4. PICK R \in [0 .. MaxSettings -> SUBSET Settings] :
        /\ R[0] = {Root}
        /\ \A k \in 1 .. MaxSettings : R[k] = R[k - 1] \cup UNION {Kids(h, m) : m \in R[k - 1]}
        /\ Subtree(h, Root) = R[MaxSettings]
  BY <1>0, <1>3, SubtreeLevels
<1>5. R[MaxSettings] = Live(h)
  <2>1. FamilyAgrees(h)
    BY TreeIsSoundThen
  <2> QED
    BY <1>4, <2>1 DEF FamilyAgrees
<1>6. ASSUME NEW k \in 1 .. MaxSettings PROVE R[k - 1] \subseteq R[k]
  BY <1>4
<1>7. \A k \in 0 .. MaxSettings : Root \in R[k] /\ R[k] \subseteq Settings
  <2> DEFINE holds == {k \in 0 .. MaxSettings : Root \in R[k]}
  <2>1. 0 \in holds /\ \A k \in 1 .. MaxSettings : k - 1 \in holds => k \in holds
    BY <1>0, <1>2, <1>4, <1>6
  <2>2. 0 .. MaxSettings \subseteq holds
    <3> HIDE DEF holds
    <3> QED
      BY <1>0, <2>1, Stepwise
  <2> QED
    BY <1>4, <2>2
<1>8. \A k \in 1 .. MaxSettings : \A x \in R[k] : x = Root \/ h[x].parent \in R[k - 1]
  <2> DEFINE holds == {k \in 0 .. MaxSettings :
                         k = 0 \/ \A x \in R[k] : x = Root \/ h[x].parent \in R[k - 1]}
  <2>1. 0 \in holds
    BY <1>0
  <2>2. ASSUME NEW k \in 1 .. MaxSettings, k - 1 \in holds PROVE k \in holds
    <3> SUFFICES ASSUME NEW x \in R[k], x # Root PROVE h[x].parent \in R[k - 1]
      BY <1>2
    <3>1. CASE x \in R[k - 1]
      <4>1. k - 1 # 0
        BY <1>4, <3>1
      <4>2. h[x].parent \in R[k - 1 - 1] /\ k - 1 \in 1 .. MaxSettings
        BY <1>2, <2>2, <3>1, <4>1
      <4> QED
        BY <1>6, <4>2
    <3>2. CASE x \notin R[k - 1]
      <4>1. PICK m \in R[k - 1] : x \in Kids(h, m)
        BY <1>4, <3>2
      <4>2. m \in Settings
        BY <1>2, <1>7
      <4> QED
        BY <4>1, <4>2 DEF FamilyInv
    <3> QED
      BY <3>1, <3>2
  <2>3. 0 .. MaxSettings \subseteq holds
    <3> HIDE DEF holds
    <3> QED
      BY <1>0, <2>1, <2>2, Stepwise
  <2>4. \A k \in 1 .. MaxSettings : k # 0
    BY <1>0
  <2> QED
    BY <1>2, <2>3, <2>4
<1> DEFINE Way(s, k) ==
             /\ s[1] = n /\ s[Len(s)] \in R[MaxSettings - k]
             /\ \A j \in 1 .. Len(s) - 1 : s[j] # Root /\ h[s[j]].parent = s[j + 1]
           holds == {k \in 0 .. MaxSettings : Way(Up[k], k)}
<1>9. 0 \in holds
  <2>1. Len(<<n>>) = 1 /\ <<n>>[1] = n
    OBVIOUS
  <2> QED
    BY <1>0, <1>1, <1>5, <2>1
<1>10. ASSUME NEW k \in 1 .. MaxSettings, Way(Up[k - 1], k - 1) PROVE Way(Up[k], k)
  <2> DEFINE s == Up[k - 1]
             last == s[Len(s)]
             p == h[last].parent
  <2>1. s \in Seq(Live(h)) /\ Len(s) \in Nat /\ Len(s) >= 1 /\ last \in Live(h)
    <3>1. s \in T
      BY <1>1, <1>2
    <3>2. s \in Seq(Live(h)) /\ Len(s) >= 1
      BY <3>1
    <3> HIDE DEF s
    <3>3. Len(s) \in Nat
      BY <3>2, LenProperties
    <3> QED
      BY <3>2, <3>3, ElementOfSeq
  <2>2. Up[k] = IF p = Null THEN s ELSE Append(s, p)
    BY <1>1
  <2>3. last \in R[MaxSettings - (k - 1)] /\ MaxSettings - (k - 1) \in 1 .. MaxSettings
        /\ MaxSettings - (k - 1) - 1 = MaxSettings - k /\ MaxSettings - k \in 0 .. MaxSettings
    BY <1>0, <1>10
  <2>4. last = Root \/ p \in R[MaxSettings - k]
    BY <1>8, <2>3
  <2>5. Way(s, k - 1)
    BY <1>10
  <2> HIDE DEF s
  <2>6. CASE p = Null
    <3>1. last = Root
      BY <1>0, <1>7, <2>3, <2>4, <2>6
    <3>2. Way(s, k)
      BY <1>7, <2>3, <2>5, <3>1
    <3> HIDE DEF Way
    <3> QED
      BY <2>2, <2>6, <3>2
  <2>7. CASE p # Null
    <3>1. last # Root /\ p \in Live(h) /\ p \in R[MaxSettings - k]
      BY <2>1, <2>4, <2>7 DEF FamilyInv
    <3> DEFINE t == Append(s, p)
    <3>2. /\ Len(t) = Len(s) + 1 /\ t[Len(s) + 1] = p
          /\ \A j \in 1 .. Len(s) : t[j] = s[j]
      <4> HIDE DEF p
      <4> QED
        BY <2>1, <3>1, AppendProperties
    <3> HIDE DEF t
    <3>3. t[1] = n /\ t[Len(t)] \in R[MaxSettings - k]
      BY <2>1, <2>5, <3>1, <3>2
    <3>4. ASSUME NEW j \in 1 .. Len(t) - 1 PROVE t[j] # Root /\ h[t[j]].parent = t[j + 1]
      <4>1. CASE j = Len(s)
        BY <2>1, <3>1, <3>2, <4>1
      <4>2. CASE j # Len(s)
        <5>1. j \in 1 .. Len(s) - 1 /\ j \in 1 .. Len(s) /\ j + 1 \in 1 .. Len(s)
          BY <2>1, <3>2, <4>2
        <5> QED
          BY <2>5, <3>2, <5>1
      <4> QED
        BY <4>1, <4>2
    <3>5. Way(t, k)
      BY <3>3, <3>4
    <3>6. Up[k] = t
      BY <2>2, <2>7 DEF t
    <3> HIDE DEF Way
    <3> QED
      BY <3>5, <3>6
  <2> QED
    BY <2>6, <2>7
<1>11. \A k \in 1 .. MaxSettings : k - 1 \in holds => k \in holds
  <2> HIDE DEF Way
  <2> QED
    BY <1>2, <1>10
<1>12. 0 .. MaxSettings \subseteq holds
  <2> HIDE DEF holds
  <2> QED
    BY <1>0, <1>9, <1>11, Stepwise
<1>13. MaxSettings \in 0 .. MaxSettings /\ MaxSettings - MaxSettings = 0
  BY <1>0
<1>14. Way(Up[MaxSettings], MaxSettings) /\ Up[MaxSettings] \in T
  <2> HIDE DEF Way
  <2> QED
    BY <1>1, <1>12, <1>13
<1> DEFINE up == Up[MaxSettings]
<1>15. up \in Seq(Live(h)) /\ Len(up) >= 1
  BY <1>14
<1>16. /\ up[1] = n /\ up[Len(up)] = Root
       /\ \A j \in 1 .. Len(up) - 1 : up[j] # Root /\ h[up[j]].parent = up[j + 1]
  BY <1>4, <1>13, <1>14
<1>17. Ancestors(h, n) = up
  BY <1>1
<1> HIDE DEF up
<1>18. Len(up) \in Nat
  BY <1>15, LenProperties
<1> QED
  BY <1>15, <1>16, <1>17, <1>18 DEF WayUp
\* A search by name finds a member of a group with that name, or there is none.
LEMMA GetMemberIs ==
  ASSUME NEW h, TreeInv(h), NEW p \in Live(h), NEW name
  PROVE  LET m == GetMember(h, p, name)
             i == ListSearch(h, p, name)
         IN  /\ m = Null \/ /\ m \in Kids(h, p) /\ h[p].type = "GROUP" /\ name # NoName
                            /\ h[m].name = name
                            /\ i \in 1 .. Len(h[p].kids) /\ h[p].kids[i] = m
             /\ m = Null /\ h[p].type = "GROUP" /\ name # NoName =>
                  \A x \in Kids(h, p) : h[x].name # name
<1> USE DEF TreeInv
<1> DEFINE found == Matches(h, p, name)
           i == ListSearch(h, p, name)
           m == GetMember(h, p, name)
<1>1. p \in Settings /\ Null = 0 /\ Null \notin Settings
  BY SettingsAssumption DEF SettingsAssumption, Live, Null, Settings
<1>2. /\ Len(h[p].kids) \in Nat /\ DOMAIN h[p].kids = 1 .. Len(h[p].kids)
      /\ Kids(h, p) = {h[p].kids[x] : x \in 1 .. Len(h[p].kids)}
      /\ Kids(h, p) \subseteq Settings
  BY <1>1, KidsOf
<1>3. found \in SUBSET Nat /\ found \subseteq 1 .. Len(h[p].kids)
      /\ \A x \in found : h[h[p].kids[x]].name = name
  BY <1>2 DEF Matches
<1>4. i = IF name = NoName \/ found = {} THEN Null ELSE CHOOSE x \in found : \A y \in found : x <= y
  BY DEF ListSearch
<1>5. found = {} => \A x \in Kids(h, p) : h[x].name # name
  BY <1>2 DEF Matches
<1> HIDE DEF found
<1>6. found # {} => \E x \in found : \A y \in found : x <= y
  BY <1>3, NatMin
<1>7. i = Null \/ (i \in found /\ name # NoName)
  BY <1>4, <1>6
<1>8. i = Null => name = NoName \/ found = {}
  <2>1. \A x \in found : x # Null
    BY <1>1, <1>3
  <2> QED
    BY <1>4, <1>6, <2>1
<1>9. m = IF h[p].type # "GROUP" \/ i = Null THEN Null ELSE h[p].kids[i]
  BY DEF GetMember
<1> HIDE DEF i, m
<1>10. m = Null \/ /\ m \in Kids(h, p) /\ h[p].type = "GROUP" /\ name # NoName
                   /\ h[m].name = name
                   /\ i \in 1 .. Len(h[p].kids) /\ h[p].kids[i] = m
  BY <1>2, <1>3, <1>7, <1>9
<1>11. m = Null /\ h[p].type = "GROUP" => i = Null
  <2>1. \A x \in 1 .. Len(h[p].kids) : h[p].kids[x] # Null
    BY <1>1, <1>2
  <2> QED
    BY <1>3, <1>7, <1>9, <2>1
<1> QED
  BY <1>5, <1>8, <1>10, <1>11 DEF i, m

\* A search by index gives the element there, or there is none.
LEMMA GetElemIs ==
  ASSUME NEW h, TreeInv(h), NEW p \in Live(h), NEW i
  PROVE  \/ GetElem(h, p, i) = Null
         \/ /\ h[p].type \in Aggregates /\ i \in 1 .. Len(h[p].kids)
            /\ GetElem(h, p, i) = h[p].kids[i] /\ GetElem(h, p, i) \in Kids(h, p)
<1>1. p \in Settings /\ DOMAIN h[p].kids = 1 .. Len(h[p].kids)
  BY KidsOf DEF TreeInv, Live
<1> QED
  BY <1>1 DEF GetElem, Kids

\* A member is found by its name, and an element by its index.
LEMMA FoundAgain ==
  ASSUME NEW h, TreeInv(h), NEW p \in Live(h), NEW m \in Kids(h, p)
  PROVE  /\ h[p].type = "GROUP" <=> h[m].name # NoName
         /\ h[m].name # NoName => GetMember(h, p, h[m].name) = m
         /\ SettingIndex(h, m) \in 1 .. Len(h[p].kids)
         /\ GetElem(h, p, SettingIndex(h, m)) = m
<1> USE DEF TreeInv
<1>1. p \in Settings /\ Null \notin Settings /\ p # Null
  BY SettingsAssumption DEF SettingsAssumption, Live, Null, Settings
<1>2. /\ DOMAIN h[p].kids = 1 .. Len(h[p].kids)
      /\ Kids(h, p) = {h[p].kids[x] : x \in 1 .. Len(h[p].kids)}
      /\ Kids(h, p) \subseteq Settings
  BY <1>1, KidsOf
<1>3. h[p].type = "GROUP" <=> h[m].name # NoName
  BY <1>1 DEF NamesInv
<1>4. ASSUME h[m].name # NoName PROVE GetMember(h, p, h[m].name) = m
  <2> DEFINE x == GetMember(h, p, h[m].name)
  <2>1. x = Null \/ (x \in Kids(h, p) /\ h[x].name = h[m].name)
    BY GetMemberIs
  <2>2. x # Null
    BY <1>3, <1>4, GetMemberIs
  <2> HIDE DEF x
  <2>3. x = m
    BY <1>1, <1>4, <2>1, <2>2 DEF NamesInv
  <2> QED
    BY <2>3 DEF x
<1>5. SettingIndex(h, m) \in 1 .. Len(h[p].kids) /\ h[p].kids[SettingIndex(h, m)] = m
  <2>1. h[m].parent = p
    BY <1>1 DEF FamilyInv
  <2>2. \E i \in DOMAIN h[p].kids : h[p].kids[i] = m
    BY <1>2
  <2>3. SettingIndex(h, m) = CHOOSE i \in DOMAIN h[p].kids : h[p].kids[i] = m
    BY <1>1, <2>1, <2>2 DEF SettingIndex
  <2> QED
    BY <1>2, <2>2, <2>3
<1>6. h[p].type \in Aggregates
  BY <1>1, NoRoom
<1>7. GetElem(h, p, SettingIndex(h, m)) = m
  BY <1>2, <1>5, <1>6 DEF GetElem
<1> QED
  BY <1>3, <1>4, <1>5, <1>7

\* A path is followed step by step.
Leads(At, h, n, path) ==
  /\ At \in [0 .. Len(path) -> Live(h) \cup {Null}]
  /\ At[0] = n
  /\ \A k \in 1 .. Len(path) : At[k] = StepTo(h, At[k - 1], path[k])
  /\ LookupFrom(h, n, path) = At[Len(path)]

\* Any path can be, from any setting.
LEMMA LookupSteps ==
  ASSUME NEW h, TreeInv(h), NEW n \in Live(h), NEW path, Len(path) \in Nat
  PROVE  \E At : Leads(At, h, n, path)
<1> USE DEF TreeInv
<1> DEFINE N == Len(path)
           T == Live(h) \cup {Null}
           Follow(f) == [k \in 0 .. N |-> IF k = 0 THEN n ELSE StepTo(h, f[k - 1], path[k])]
           next(k, x) == StepTo(h, x, path[k])
           steps == {t \in Nat \X T \X T : t[3] = next(t[1], t[2])}
           At == CHOOSE f : f = Follow(f)
<1>1. \A k \in 1 .. N, x \in T : next(k, x) \in T
  <2> SUFFICES ASSUME NEW k \in 1 .. N, NEW x \in Live(h) PROVE next(k, x) \in T
    BY DEF StepTo
  <2>1. \A name : GetMember(h, x, name) = Null \/ GetMember(h, x, name) \in Kids(h, x)
    BY GetMemberIs
  <2>2. \A i : GetElem(h, x, i) = Null \/ GetElem(h, x, i) \in Kids(h, x)
    BY GetElemIs
  <2>3. Kids(h, x) \subseteq Live(h)
    BY DEF FamilyInv, Live
  <2> QED
    BY <2>1, <2>2, <2>3 DEF StepTo
<1>2. N \in Nat
  OBVIOUS
<1> HIDE DEF N, T, next
<1>3. \A k \in 1 .. N, x \in T : \E y \in T : <<k, x, y>> \in steps
  <2> SUFFICES ASSUME NEW k \in 1 .. N, NEW x \in T PROVE <<k, x, next(k, x)>> \in steps
    BY <1>1
  <2> QED
    BY <1>1, <1>2
<1>4. PICK f \in [0 .. N -> T] : f[0] = n /\ \A k \in 1 .. N : <<k, f[k - 1], f[k]>> \in steps
  <2> HIDE DEF steps
  <2>1. n \in T
    BY DEF T
  <2>2. PICK f : Recurs(f, N, T, n, steps)
    BY <1>2, <1>3, <2>1, Recursion
  <2> QED
    BY <2>2 DEF Recurs
<1>5. \A k \in 1 .. N : f[k] = next(k, f[k - 1])
  <2> TAKE k \in 1 .. N
  <2>1. <<k, f[k - 1], f[k]>> \in steps
    BY <1>4
  <2> QED
    BY <2>1
<1>6. \A k \in 0 .. N : k # 0 => k \in 1 .. N
  BY <1>2
<1>7. f = Follow(f)
  <2>1. \A k \in 0 .. N : f[k] = IF k = 0 THEN n ELSE StepTo(h, f[k - 1], path[k])
    BY <1>4, <1>5, <1>6, Zenon DEF next
  <2> QED
    BY <1>4, <2>1
<1>8. At = Follow(At)
  <2>1. \E g : g = Follow(g)
    BY <1>7
  <2> HIDE DEF Follow
  <2> QED
    BY <2>1
<1>9. LookupFrom(h, n, path) = At[N]
  BY DEF LookupFrom, N
<1> HIDE DEF At
<1>10. 0 \in 0 .. N /\ \A k \in 1 .. N : k - 1 \in 0 .. N /\ k \in 0 .. N /\ k # 0
  BY <1>2
<1>11. At[0] = n
  BY <1>8, <1>10
<1>12. \A k \in 1 .. N : At[k] = next(k, At[k - 1])
  <2> TAKE k \in 1 .. N
  <2>1. At[k] = Follow(At)[k]
    BY <1>8, Zenon
  <2>2. Follow(At)[k] = next(k, At[k - 1])
    BY <1>10, Zenon DEF next
  <2> QED
    BY <2>1, <2>2
<1>13. At \in [0 .. N -> T]
  <2> DEFINE holds == {k \in 0 .. N : At[k] \in T}
  <2>1. 0 \in holds
    BY <1>10, <1>11 DEF T
  <2>2. \A k \in 1 .. N : k - 1 \in holds => k \in holds
    BY <1>1, <1>10, <1>12
  <2>3. 0 .. N \subseteq holds
    <3> HIDE DEF holds
    <3> QED
      BY <1>2, <2>1, <2>2, Stepwise
  <2>4. At = [k \in 0 .. N |-> At[k]]
    BY <1>8
  <2> QED
    BY <2>3, <2>4
<1> QED
  BY <1>9, <1>11, <1>12, <1>13, Zenon DEF N, T, next, Leads

\* The path of a setting leads back to it.
LEMMA PathLeadsHome ==
  ASSUME NEW h, TreeInv(h), NEW n \in Live(h)
  PROVE  LookupFrom(h, Root, ConstructPath(h, n)) = n
<1> USE DEF TreeInv
<1> DEFINE up == Ancestors(h, n)
           depth == Len(up) - 1
           path == ConstructPath(h, n)
<1>0. Root \in Live(h) /\ Live(h) \subseteq Settings /\ Null = 0 /\ Null \notin Settings
  BY SettingsAssumption DEF SettingsAssumption, FamilyInv, Live, Root, Settings, Null
<1>w. WayUp(up, h, n)
  BY AncestorsProperties
<1> HIDE DEF up
<1>1. /\ up \in Seq(Live(h)) /\ Len(up) >= 1 /\ Len(up) \in Nat
      /\ up[1] = n /\ up[Len(up)] = Root
      /\ \A k \in 1 .. Len(up) - 1 : up[k] # Root /\ h[up[k]].parent = up[k + 1]
  BY <1>w DEF WayUp
<1>2. path = [k \in 1 .. depth |->
                LET m == up[depth - k + 1] IN
                IF h[m].name # NoName THEN [name |-> h[m].name, index |-> 0]
                                      ELSE [name |-> NoName, index |-> SettingIndex(h, m)]]
  BY DEF ConstructPath, up
<1> HIDE DEF path
<1>3. depth \in Nat
  BY <1>1
<1>4. Len(path) = depth
  BY <1>2, <1>3
<1>5. PICK At : Leads(At, h, Root, path)
  <2>1. Len(path) \in Nat
    BY <1>3, <1>4
  <2> QED
    BY <1>0, <2>1, LookupSteps
<1> USE DEF Leads
<1>6. ASSUME NEW k \in 1 .. depth PROVE StepTo(h, up[depth - (k - 1) + 1], path[k]) = up[depth - k + 1]
  <2> DEFINE m == up[depth - k + 1]
             p == up[depth - (k - 1) + 1]
  <2>1. depth - k + 1 \in 1 .. Len(up) - 1 /\ depth - (k - 1) + 1 = depth - k + 1 + 1
        /\ depth - k + 1 \in 1 .. Len(up)
    BY <1>1, <1>3
  <2>2. m # Root /\ h[m].parent = p
    BY <1>1, <2>1
  <2>3. m \in Live(h)
    BY <1>1, <2>1, ElementOfSeq
  <2>4. path[k] = IF h[m].name # NoName THEN [name |-> h[m].name, index |-> 0]
                                        ELSE [name |-> NoName, index |-> SettingIndex(h, m)]
    BY <1>2
  <2> HIDE DEF m, p, depth
  <2>5. p \in Live(h) /\ m \in Kids(h, p) /\ p # Null
    BY <1>0, <2>2, <2>3 DEF FamilyInv
  <2>6. /\ h[p].type = "GROUP" <=> h[m].name # NoName
        /\ h[m].name # NoName => GetMember(h, p, h[m].name) = m
        /\ SettingIndex(h, m) \in 1 .. Len(h[p].kids)
        /\ GetElem(h, p, SettingIndex(h, m)) = m
    BY <2>5, FoundAgain
  <2>7. StepTo(h, p, path[k]) = m
    <3>1. CASE h[m].name # NoName
      <4>1. path[k].index = 0 /\ path[k].name = h[m].name
        BY <2>4, <3>1
      <4> QED
        BY <2>5, <2>6, <3>1, <4>1 DEF StepTo
    <3>2. CASE h[m].name = NoName
      <4>1. path[k].index = SettingIndex(h, m)
        BY <2>4, <3>2
      <4>2. SettingIndex(h, m) # 0
        BY <2>6
      <4> QED
        BY <2>5, <2>6, <4>1, <4>2 DEF StepTo
    <3> QED
      BY <3>1, <3>2
  <2> QED
    BY <2>7 DEF m, p
<1> DEFINE holds == {k \in 0 .. depth : At[k] = up[depth - k + 1]}
<1>7. 0 \in holds
  <2>1. depth - 0 + 1 = Len(up)
    BY <1>1
  <2> QED
    BY <1>1, <1>3, <1>5, <2>1
<1>8. \A k \in 1 .. depth : k - 1 \in holds => k \in holds
  <2> TAKE k \in 1 .. depth
  <2>1. k \in 0 .. depth /\ k - 1 \in 0 .. depth
    BY <1>3
  <2>2. At[k] = StepTo(h, At[k - 1], path[k])
    BY <1>4, <1>5
  <2> QED
    BY <1>6, <2>1, <2>2
<1>9. 0 .. depth \subseteq holds
  <2> HIDE DEF holds, depth
  <2> QED
    BY <1>3, <1>7, <1>8, Stepwise
<1>10. At[depth] = n
  <2>1. depth \in 0 .. depth /\ depth - depth + 1 = 1
    BY <1>3
  <2> QED
    BY <1>1, <1>9, <2>1
<1> QED
  BY <1>4, <1>5, <1>10 DEF path
=============================================================================
