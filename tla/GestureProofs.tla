--------------------------- MODULE GestureProofs ---------------------------
(***************************************************************************)
(* Proofs about the gesture application, for any names, any number of      *)
(* templates, saves, starts of the process and recreations of its screens: *)
(* the template directory stays as save relies on finding it               *)
(* (StoreIsSound), no template is ever written over (NothingIsOverwritten),*)
(* Done is enabled only when there is a gesture (DoneHasAGesture), and the *)
(* list agrees with itself and with the store (ListShowsTheStore).         *)
(***************************************************************************)
EXTENDS GestureApp, FiniteSetTheorems, TLAPS

-----------------------------------------------------------------------------
(* The store between two steps of a save.                                  *)

AllNames == Names \cup {NoName}

\* The files of directory n are those below c.
FilledTo(n, c) == \A j \in Numbers : csv[n][j] # Absent <=> j < c

\* How many files any directory can have: each save so far has added at most one, and
\* the save that is about to open its file none yet.
Limit == MaxStored + saves - (IF save.step = "open" THEN 1 ELSE 0)

Gapless == \A n \in AllNames : \E c \in 0 .. Limit : FilledTo(n, c)

\* A picture has points beside it.
PicturesHavePoints ==
  \A n \in AllNames, j \in Numbers : bmp[n][j] # Absent => csv[n][j] # Absent

\* What the save under way will find at its number.
SaveInv ==
  /\ save.step = "open" /\ dirExists(save.name) => FilledTo(save.name, save.num)
  /\ save.step \in {"write", "finish"} => dirExists(save.name)
  /\ save.step \in {"write", "bitmap", "finish"} /\ dirExists(save.name) =>
       /\ save.num \in Numbers
       /\ save.step = "write" => csv[save.name][save.num] = Cut
       /\ save.step = "bitmap" => csv[save.name][save.num] # Absent
       /\ save.step = "finish" => csv[save.name][save.num] >= Older
       /\ bmp[save.name][save.num] = IF save.step = "finish" THEN Cut ELSE Absent

StoreInv ==
  /\ StoreTypeOK
  /\ save \in [step : {"idle", "open", "write", "bitmap", "finish"}, name : AllNames,
               num : Numbers \cup {0, -1}]
  /\ save.step = "open" => saves >= 1
  /\ save.step = "open" /\ dirExists(save.name) => save.num \in 0 .. Limit
  /\ Gapless
  /\ PicturesHavePoints
  /\ SaveInv
  /\ BitmapShowsItsPoints

-----------------------------------------------------------------------------
(* Counting.                                                               *)

\* In a directory without gaps, the count is the number after the last.
LEMMA CountIsNext ==
  ASSUME StoreAssumption, NEW n, NEW c \in 0 .. MaxStored + MaxSaves, FilledTo(n, c)
  PROVE  Count(n) = c
<1>1. {j \in Numbers : csv[n][j] # Absent} = 0 .. (c - 1)
  BY DEF FilledTo, Numbers, StoreAssumption
<1>2. Cardinality(0 .. (c - 1)) = c
  <2>1. 0 \in Int /\ c - 1 \in Int
    OBVIOUS
  <2>2. Cardinality(0 .. (c - 1)) = IF 0 > c - 1 THEN 0 ELSE (c - 1) - 0 + 1
    BY <2>1, FS_Interval
  <2> QED
    BY <2>2
<1> QED
  BY <1>1, <1>2 DEF Count

\* The limit is never beyond the numbers.
LEMMA LimitInRange ==
  ASSUME StoreAssumption, StoreInv
  PROVE  Limit \in Nat /\ Limit <= MaxStored + MaxSaves
BY DEF StoreInv, StoreTypeOK, StoreAssumption, Limit

\* The invariant gives the two properties of a sound store.
LEMMA InvGivesSound == ASSUME StoreAssumption, StoreInv PROVE StoreIsSound
<1>1. NumbersHaveNoGaps
  <2> SUFFICES ASSUME NEW n \in AllNames, NEW j \in Numbers
               PROVE  csv[n][j] # Absent <=> j < Count(n)
    BY DEF NumbersHaveNoGaps, AllNames, Count
  <2>1. PICK c \in 0 .. Limit : FilledTo(n, c)
    BY DEF StoreInv, Gapless
  <2>2. c \in 0 .. MaxStored + MaxSaves
    BY LimitInRange DEF StoreAssumption
  <2>3. Count(n) = c
    BY <2>1, <2>2, CountIsNext
  <2> QED
    BY <2>1, <2>3 DEF FilledTo
<1> QED
  BY <1>1 DEF StoreInv, StoreIsSound

\* The directories that are there at first satisfy the invariant.
LEMMA InitStoreInv == ASSUME StoreAssumption, StoreInit PROVE StoreInv
<1>1. PICK stored \in [dirs -> 0 .. MaxStored] :
        csv = [n \in AllNames |-> [j \in Numbers |->
                 IF n \in dirs /\ j < stored[n] THEN Older ELSE Absent]]
  BY DEF StoreInit, AllNames
<1>2. /\ root \in BOOLEAN /\ dirs \subseteq Names /\ bmp = csv /\ saves = 0
      /\ save = Idle
  BY DEF StoreInit
<1>3. \A n \in AllNames, j \in Numbers : csv[n][j] \in {Older, Absent}
  BY <1>1
<1>4. StoreTypeOK
  <2>1. csv \in [AllNames -> [Numbers -> Content]]
    BY <1>1 DEF Content, Older, Absent, StoreAssumption
  <2>2. saves \in 0 .. MaxSaves
    BY <1>2 DEF StoreAssumption
  <2> QED
    BY <1>2, <2>1, <2>2 DEF StoreTypeOK, Idle, AllNames
<1>5. Limit = MaxStored
  BY <1>2 DEF Limit, Idle, StoreAssumption
<1>6. Gapless
  <2> SUFFICES ASSUME NEW n \in AllNames PROVE \E c \in 0 .. MaxStored : FilledTo(n, c)
    BY <1>5 DEF Gapless
  <2>1. CASE n \in dirs
    <3>1. stored[n] \in 0 .. MaxStored
      BY <1>1, <2>1
    <3>2. FilledTo(n, stored[n])
      BY <1>1, <2>1 DEF FilledTo, Older, Absent
    <3> QED
      BY <3>1, <3>2
  <2>2. CASE n \notin dirs
    <3>1. FilledTo(n, 0)
      BY <1>1, <2>2 DEF FilledTo, Absent, Numbers
    <3> QED
      BY <3>1 DEF StoreAssumption
  <2> QED
    BY <2>1, <2>2
<1>7. save \in [step : {"idle", "open", "write", "bitmap", "finish"}, name : AllNames,
                num : Numbers \cup {0, -1}]
  BY <1>2 DEF Idle, AllNames
<1> QED
  BY <1>2, <1>4, <1>6, <1>7
    DEF StoreInv, PicturesHavePoints, SaveInv, BitmapShowsItsPoints, Idle

-----------------------------------------------------------------------------
(* The steps of a save.                                                    *)

\* The properties do not depend on why the process stopped.
LEMMA OtherStoreInv ==
  ASSUME StoreInv, UNCHANGED <<files, saves, save>> PROVE StoreInv'
BY DEF StoreInv, StoreTypeOK, Gapless, Limit, FilledTo, PicturesHavePoints, SaveInv, dirExists,
  BitmapShowsItsPoints, files

\* A process that starts anew has no save under way.
LEMMA StartStoreInv == ASSUME StoreAssumption, StoreInv, Start PROVE StoreInv'
<1>1. save' = Idle /\ UNCHANGED <<root, dirs, csv, bmp, saves>>
  BY DEF Start, files
<1>2. Limit \in Nat /\ Limit' \in Nat /\ Limit <= Limit'
  <2>1. Limit' = MaxStored + saves
    BY <1>1 DEF Limit, Idle, StoreInv, StoreTypeOK, StoreAssumption
  <2> QED
    BY <2>1, LimitInRange DEF Limit, StoreInv, StoreTypeOK, StoreAssumption
<1>3. Gapless'
  <2> SUFFICES ASSUME NEW n \in AllNames PROVE \E c \in 0 .. Limit' : FilledTo(n, c)
    BY <1>1 DEF Gapless, FilledTo
  <2>1. PICK c \in 0 .. Limit : FilledTo(n, c)
    BY DEF StoreInv, Gapless
  <2> QED
    BY <1>2, <2>1
<1> QED
  BY <1>1, <1>3 DEF StoreInv, StoreTypeOK, PicturesHavePoints, SaveInv, BitmapShowsItsPoints,
    Idle, AllNames

\* save names its file after the number of files, which is the first number without one.
LEMMA BeginSaveInv ==
  ASSUME StoreAssumption, StoreInv, NEW n \in Typed, BeginSave(n) PROVE StoreInv'
<1>1. PICK fail \in Fails :
        LET made == ~dirExists(n) /\ root /\ ~fail IN
          /\ dirs' = IF made THEN dirs \cup {n} ELSE dirs
          /\ save' = [step |-> "open", name |-> n,
                      num |-> IF made \/ dirExists(n) THEN Count(n) ELSE -1]
  BY DEF BeginSave
<1>2. /\ save.step = "idle" /\ saves' = saves + 1 /\ saves < MaxSaves
      /\ UNCHANGED <<root, csv, bmp>>
      /\ n \in AllNames /\ StoreTypeOK
  BY DEF BeginSave, StoreAssumption, AllNames, StoreInv
<1>3. save'.step = "open" /\ save'.name = n
  BY <1>1
<1>4. dirExists(n)' => save'.num = Count(n)
  BY <1>1, <1>2 DEF dirExists
<1>5. ~dirExists(n)' => save'.num = -1
  BY <1>1, <1>2 DEF dirExists
<1>6. saves \in Nat /\ Limit = MaxStored + saves /\ Limit' = Limit /\ saves' \in 0 .. MaxSaves
  BY <1>2, <1>3 DEF StoreTypeOK, Limit, StoreAssumption
<1>7. PICK c \in 0 .. Limit : FilledTo(n, c)
  BY <1>2 DEF StoreInv, Gapless
<1>8. Count(n) = c /\ c \in Numbers
  <2>1. c \in 0 .. MaxStored + MaxSaves
    BY <1>2, <1>6 DEF StoreAssumption
  <2>2. c \in Numbers
    BY <1>2, <1>6 DEF Numbers, StoreAssumption
  <2> QED
    BY <1>7, <2>1, <2>2, CountIsNext
<1>9. /\ save' \in [step : {"idle", "open", "write", "bitmap", "finish"}, name : AllNames,
                    num : Numbers \cup {0, -1}]
      /\ dirExists(n)' => save'.num = c
  BY <1>1, <1>2, <1>4, <1>5, <1>8
<1>10. dirs' \subseteq Names
  BY <1>1, <1>2 DEF dirExists, StoreTypeOK, AllNames
<1>11. StoreTypeOK'
  BY <1>2, <1>6, <1>9, <1>10 DEF StoreTypeOK, AllNames
<1>12. Gapless'
  BY <1>2, <1>6 DEF StoreInv, Gapless, FilledTo
<1>13. SaveInv'
  <2>1. dirExists(n)' => FilledTo(n, save.num)'
    BY <1>2, <1>7, <1>9 DEF FilledTo
  <2> QED
    BY <1>3, <2>1 DEF SaveInv, dirExists
<1>14. saves' >= 1
  BY <1>2, <1>6
<1> QED
  BY <1>2, <1>3, <1>6, <1>7, <1>9, <1>11, <1>12, <1>13, <1>14
    DEF StoreInv, PicturesHavePoints, BitmapShowsItsPoints, dirExists

\* The file that is opened is new, and leaves no gap.
LEMMA OpenCsvInv == ASSUME StoreAssumption, StoreInv, OpenCsv PROVE StoreInv'
<1> SUFFICES ASSUME NEW n, n = save.name, NEW c, c = save.num PROVE StoreInv'
  OBVIOUS
<1>1. /\ save.step = "open" /\ UNCHANGED <<root, dirs, bmp, saves>>
      /\ n \in AllNames /\ StoreTypeOK /\ save'.name = n /\ save'.num = c
      /\ (dirExists(n) <=> dirExists(n)')
  BY DEF OpenCsv, StoreInv, dirExists
<1>2. saves \in Nat /\ saves >= 1 /\ Limit = MaxStored + saves - 1 /\ saves <= MaxSaves
  BY <1>1 DEF StoreInv, StoreTypeOK, Limit, StoreAssumption
<1>3. CASE dirExists(n)
  <2>1. /\ csv' = [csv EXCEPT ![n][c] = Cut]
        /\ save' = [save EXCEPT !.step = "write"]
    BY <1>3 DEF OpenCsv
  <2>2. /\ save'.step = "write"
        /\ save' \in [step : {"idle", "open", "write", "bitmap", "finish"}, name : AllNames,
                      num : Numbers \cup {0, -1}]
    BY <2>1 DEF StoreInv
  <2>3. Limit' = Limit + 1
    BY <1>1, <1>2, <2>2 DEF Limit, StoreAssumption
  <2>4. c \in 0 .. Limit /\ FilledTo(n, c) /\ c \in Numbers
    BY <1>1, <1>2, <1>3 DEF StoreInv, SaveInv, Numbers, StoreAssumption
  <2>5. /\ csv[n][c] = Absent /\ bmp[n][c] = Absent
    <3>1. csv[n][c] = Absent
      BY <2>4 DEF FilledTo, Numbers, StoreAssumption
    <3> QED
      BY <1>1, <2>4, <3>1 DEF StoreInv, PicturesHavePoints
  <2>6. \A m \in AllNames, j \in Numbers :
          csv'[m][j] = IF m = n /\ j = c THEN Cut ELSE csv[m][j]
    BY <1>1, <2>1, <2>4 DEF StoreTypeOK, AllNames
  <2>7. csv' \in [AllNames -> [Numbers -> Content]]
    BY <1>1, <2>1, <2>4 DEF StoreTypeOK, AllNames, Content, Cut, Absent, StoreAssumption
  <2>8. StoreTypeOK'
    BY <1>1, <2>2, <2>7 DEF StoreTypeOK, AllNames
  <2>9. Gapless'
    <3> SUFFICES ASSUME NEW m \in AllNames PROVE \E d \in 0 .. Limit + 1 : FilledTo(m, d)'
      BY <2>3 DEF Gapless
    <3>1. CASE m = n
      <4>1. FilledTo(n, c + 1)'
        <5> SUFFICES ASSUME NEW j \in Numbers PROVE csv'[n][j] # Absent <=> j < c + 1
          BY DEF FilledTo
        <5>1. csv[n][j] # Absent <=> j < c
          BY <2>4 DEF FilledTo
        <5> QED
          BY <1>1, <2>4, <2>6, <5>1 DEF Cut, Absent, Numbers, StoreAssumption
      <4> QED
        BY <1>2, <2>4, <3>1, <4>1 DEF StoreAssumption
    <3>2. CASE m # n
      <4>1. PICK d \in 0 .. Limit : FilledTo(m, d)
        BY DEF StoreInv, Gapless
      <4>2. FilledTo(m, d)'
        BY <2>6, <3>2, <4>1 DEF FilledTo
      <4> QED
        BY <1>2, <4>1, <4>2 DEF StoreAssumption
    <3> QED
      BY <3>1, <3>2
  <2>10. PicturesHavePoints'
    BY <1>1, <2>6 DEF StoreInv, PicturesHavePoints, Cut, Absent
  <2>11. BitmapShowsItsPoints'
    BY <1>1, <2>5, <2>6 DEF StoreInv, BitmapShowsItsPoints, Older, Absent, AllNames
  <2>12. SaveInv'
    BY <1>1, <1>3, <2>2, <2>4, <2>5, <2>6 DEF SaveInv
  <2> QED
    BY <2>2, <2>8, <2>9, <2>10, <2>11, <2>12 DEF StoreInv
<1>4. CASE ~dirExists(n)
  <2>1. csv' = csv /\ save' = [save EXCEPT !.step = "bitmap"]
    BY <1>4 DEF OpenCsv
  <2>2. /\ save'.step = "bitmap"
        /\ save' \in [step : {"idle", "open", "write", "bitmap", "finish"}, name : AllNames,
                      num : Numbers \cup {0, -1}]
    BY <2>1 DEF StoreInv
  <2>3. Limit' = Limit + 1
    BY <1>1, <1>2, <2>2 DEF Limit, StoreAssumption
  <2>4. Gapless'
    <3> SUFFICES ASSUME NEW m \in AllNames PROVE \E d \in 0 .. Limit + 1 : FilledTo(m, d)
      BY <2>1, <2>3 DEF Gapless, FilledTo
    <3>1. PICK d \in 0 .. Limit : FilledTo(m, d)
      BY DEF StoreInv, Gapless
    <3> QED
      BY <1>2, <3>1 DEF StoreAssumption
  <2>5. StoreTypeOK'
    BY <1>1, <2>1, <2>2 DEF StoreTypeOK, AllNames
  <2>6. SaveInv'
    BY <1>1, <1>4, <2>2 DEF SaveInv
  <2> QED
    BY <1>1, <2>1, <2>2, <2>4, <2>5, <2>6
      DEF StoreInv, PicturesHavePoints, BitmapShowsItsPoints
<1> QED
  BY <1>3, <1>4

\* Writing the points changes the file that was opened, and no other.
LEMMA WriteCsvInv == ASSUME StoreAssumption, StoreInv, WriteCsv PROVE StoreInv'
<1> SUFFICES ASSUME NEW n, n = save.name, NEW c, c = save.num PROVE StoreInv'
  OBVIOUS
<1>1. /\ save.step = "write" /\ UNCHANGED <<root, dirs, bmp, saves>>
      /\ n \in AllNames /\ StoreTypeOK /\ dirExists(n) /\ dirExists(n)'
      /\ save' = [save EXCEPT !.step = "bitmap"]
  BY DEF WriteCsv, StoreInv, SaveInv, dirExists
<1>2. /\ save'.step = "bitmap" /\ save'.name = n /\ save'.num = c
      /\ save' \in [step : {"idle", "open", "write", "bitmap", "finish"}, name : AllNames,
                    num : Numbers \cup {0, -1}]
  BY <1>1 DEF StoreInv
<1>3. c \in Numbers /\ csv[n][c] = Cut /\ bmp[n][c] = Absent
  BY <1>1 DEF StoreInv, SaveInv
<1>4. PICK v \in {Cut, saves} : csv' = [csv EXCEPT ![n][c] = v]
  <2>1. PICK fail \in Fails : csv' = IF fail THEN csv ELSE [csv EXCEPT ![n][c] = saves]
    BY DEF WriteCsv
  <2>2. CASE fail
    <3>1. csv = [csv EXCEPT ![n][c] = Cut]
      BY <1>1, <1>3 DEF StoreTypeOK, AllNames
    <3> QED
      BY <2>1, <2>2, <3>1
  <2>3. CASE ~fail
    BY <2>1, <2>3
  <2> QED
    BY <2>2, <2>3
<1>5. v \in Content /\ v # Absent
  BY <1>1 DEF StoreTypeOK, Content, Cut, Absent, StoreAssumption
<1>6. \A m \in AllNames, j \in Numbers :
        csv'[m][j] = IF m = n /\ j = c THEN v ELSE csv[m][j]
  BY <1>1, <1>3, <1>4 DEF StoreTypeOK, AllNames
<1>7. \A m \in AllNames, j \in Numbers : csv'[m][j] # Absent <=> csv[m][j] # Absent
  BY <1>3, <1>5, <1>6 DEF Cut, Absent
<1>8. StoreTypeOK'
  <2>1. csv' \in [AllNames -> [Numbers -> Content]]
    BY <1>1, <1>3, <1>4, <1>5 DEF StoreTypeOK, AllNames
  <2> QED
    BY <1>1, <1>2, <2>1 DEF StoreTypeOK, AllNames
<1>9. Gapless' /\ Limit' = Limit
  <2>1. Limit' = Limit
    BY <1>1, <1>2 DEF Limit
  <2>2. \A m \in AllNames : \A d : FilledTo(m, d)' <=> FilledTo(m, d)
    BY <1>7 DEF FilledTo
  <2> QED
    BY <2>1, <2>2 DEF StoreInv, Gapless
<1>10. PicturesHavePoints'
  BY <1>1, <1>7 DEF StoreInv, PicturesHavePoints
<1>11. BitmapShowsItsPoints'
  BY <1>1, <1>3, <1>6 DEF StoreInv, BitmapShowsItsPoints, AllNames, Older, Absent
<1>12. SaveInv'
  BY <1>1, <1>2, <1>3, <1>5, <1>6 DEF SaveInv
<1> QED
  BY <1>1, <1>2, <1>8, <1>9, <1>10, <1>11, <1>12 DEF StoreInv

\* A picture is opened only beside points that were read back.
LEMMA GenerateBitmapInv == ASSUME StoreAssumption, StoreInv, GenerateBitmap PROVE StoreInv'
<1>1. CASE Drawn = Cut
  BY <1>1, OtherStoreInv DEF GenerateBitmap, files
<1>2. CASE Drawn # Cut
  <2> SUFFICES ASSUME NEW n, n = save.name, NEW c, c = save.num PROVE StoreInv'
    OBVIOUS
  <2>1. /\ save.step = "bitmap" /\ UNCHANGED <<root, dirs, csv, saves>>
        /\ n \in AllNames /\ StoreTypeOK /\ dirExists(n) /\ dirExists(n)'
        /\ save' = [save EXCEPT !.step = "finish"]
        /\ bmp' = [bmp EXCEPT ![n][c] = Cut]
        /\ csv[n][c] # Cut
    BY <1>2 DEF GenerateBitmap, StoreInv, Drawn, dirExists
  <2>2. /\ save'.step = "finish" /\ save'.name = n /\ save'.num = c
        /\ save' \in [step : {"idle", "open", "write", "bitmap", "finish"}, name : AllNames,
                      num : Numbers \cup {0, -1}]
    BY <2>1 DEF StoreInv
  <2>3. c \in Numbers /\ csv[n][c] >= Older /\ csv[n][c] # Absent
    <3>1. c \in Numbers /\ csv[n][c] # Absent
      BY <2>1 DEF StoreInv, SaveInv
    <3>2. csv[n][c] \in Content
      BY <2>1, <3>1 DEF StoreTypeOK, AllNames
    <3> QED
      BY <2>1, <3>1, <3>2 DEF Content, Cut, Absent, Older, StoreAssumption
  <2>4. \A m \in AllNames, j \in Numbers :
          bmp'[m][j] = IF m = n /\ j = c THEN Cut ELSE bmp[m][j]
    BY <2>1, <2>3 DEF StoreTypeOK, AllNames
  <2>5. StoreTypeOK'
    <3>1. Cut \in Content
      BY DEF Cut, Content, Absent, StoreAssumption
    <3>2. bmp' \in [AllNames -> [Numbers -> Content]]
      BY <2>1, <2>3, <3>1 DEF StoreTypeOK, AllNames
    <3> QED
      BY <2>1, <2>2, <3>2 DEF StoreTypeOK, AllNames
  <2>6. Gapless'
    BY <2>1, <2>2 DEF StoreInv, Gapless, FilledTo, Limit
  <2>7. PicturesHavePoints'
    BY <2>1, <2>3, <2>4 DEF StoreInv, PicturesHavePoints
  <2>8. BitmapShowsItsPoints'
    BY <2>1, <2>4 DEF StoreInv, BitmapShowsItsPoints, AllNames, Cut, Older
  <2>9. SaveInv'
    BY <2>1, <2>2, <2>3, <2>4 DEF SaveInv
  <2> QED
    BY <2>1, <2>2, <2>5, <2>6, <2>7, <2>8, <2>9 DEF StoreInv
<1> QED
  BY <1>1, <1>2

\* A finished picture shows the points beside it.
LEMMA FinishBitmapInv == ASSUME StoreAssumption, StoreInv, FinishBitmap PROVE StoreInv'
<1> SUFFICES ASSUME NEW n, n = save.name, NEW c, c = save.num PROVE StoreInv'
  OBVIOUS
<1>1. /\ save.step = "finish" /\ UNCHANGED <<root, dirs, csv, saves>> /\ save' = Idle
      /\ n \in AllNames /\ StoreTypeOK /\ dirExists(n)
  BY DEF FinishBitmap, StoreInv, SaveInv
<1>2. c \in Numbers /\ csv[n][c] >= Older /\ bmp[n][c] = Cut
  BY <1>1 DEF StoreInv, SaveInv
<1>3. PICK v \in {Cut, csv[n][c]} : bmp' = [bmp EXCEPT ![n][c] = v]
  <2>1. PICK fail \in Fails : bmp' = IF fail THEN bmp ELSE [bmp EXCEPT ![n][c] = csv[n][c]]
    BY <1>1 DEF FinishBitmap, Drawn
  <2>2. CASE fail
    <3>1. bmp = [bmp EXCEPT ![n][c] = Cut]
      BY <1>1, <1>2 DEF StoreTypeOK, AllNames
    <3> QED
      BY <2>1, <2>2, <3>1
  <2>3. CASE ~fail
    BY <2>1, <2>3
  <2> QED
    BY <2>2, <2>3
<1>4. v \in Content
  <2>1. Cut \in Content
    BY DEF Cut, Content, Absent, StoreAssumption
  <2> QED
    BY <1>1, <1>2, <2>1 DEF StoreTypeOK, AllNames
<1>5. \A m \in AllNames, j \in Numbers :
        bmp'[m][j] = IF m = n /\ j = c THEN v ELSE bmp[m][j]
  BY <1>1, <1>2, <1>3 DEF StoreTypeOK, AllNames
<1>6. StoreTypeOK'
  <2>1. bmp' \in [AllNames -> [Numbers -> Content]]
    BY <1>1, <1>2, <1>3, <1>4 DEF StoreTypeOK, AllNames
  <2> QED
    BY <1>1, <2>1 DEF StoreTypeOK, AllNames, Idle
<1>7. Gapless' /\ Limit' = Limit
  <2>1. Limit' = Limit
    BY <1>1 DEF Limit, Idle
  <2> QED
    BY <1>1, <2>1 DEF StoreInv, Gapless, FilledTo
<1>8. PicturesHavePoints'
  <2>1. csv[n][c] # Absent
    BY <1>2 DEF Older, Absent
  <2> QED
    BY <1>1, <1>5, <2>1 DEF StoreInv, PicturesHavePoints
<1>9. BitmapShowsItsPoints'
  BY <1>1, <1>5 DEF StoreInv, BitmapShowsItsPoints, AllNames, Cut, Older
<1> QED
  BY <1>1, <1>6, <1>7, <1>8, <1>9 DEF StoreInv, SaveInv, Idle, AllNames

-----------------------------------------------------------------------------
(* The steps of the application.                                           *)

\* What a step does to the store: nothing, a start of the process, or a step of a save.
LEMMA StepsOnStore ==
  ASSUME [Next]_vars
  PROVE  \/ UNCHANGED <<files, saves, save>>
         \/ Start
         \/ \E n \in Typed : BeginSave(n)
         \/ SaveStep
<1>1. Background => UNCHANGED <<files, saves, save>>
  BY DEF Background, SkipTask, NoStorage, BeginLoad, NextDir, LoadPicture, EndLoad, storeVars
<1>2. Message => UNCHANGED <<files, saves, save>>
  BY DEF Message, onProgressUpdate, onPostExecute, storeVars
<1>3. User => UNCHANGED <<files, saves, save>> \/ \E n \in Typed : BeginSave(n)
  BY DEF User, RecreateList, addGesture, Touch, onGestureEnded, onGestureCancelled,
    RecreateCreate, extractGestureInfo, cancelGesture, storeVars
<1>4. UNCHANGED vars => UNCHANGED <<files, saves, save>>
  BY DEF vars, storeVars
<1> QED
  BY <1>1, <1>2, <1>3, <1>4 DEF Next, SaveOn

\* Every behaviour satisfies the invariant.
THEOREM Storing == Spec => []StoreInv
<1>1. AppInit => StoreInv
  BY StoreAssumption, InitStoreInv DEF AppInit
<1>2. StoreInv /\ [Next]_vars => StoreInv'
  <2> SUFFICES ASSUME StoreInv, [Next]_vars PROVE StoreInv'
    OBVIOUS
  <2>1. CASE UNCHANGED <<files, saves, save>>
    BY <2>1, OtherStoreInv
  <2>2. CASE Start
    BY <2>2, StoreAssumption, StartStoreInv
  <2>3. CASE \E n \in Typed : BeginSave(n)
    BY <2>3, StoreAssumption, BeginSaveInv
  <2>4. CASE SaveStep
    BY <2>4, StoreAssumption, OpenCsvInv, WriteCsvInv, GenerateBitmapInv, FinishBitmapInv
      DEF SaveStep
  <2> QED
    BY <2>1, <2>2, <2>3, <2>4, StepsOnStore
<1> QED
  BY <1>1, <1>2, PTL DEF Spec

-----------------------------------------------------------------------------
(* The theorems.                                                           *)

\* The files of every directory are numbered without gaps and every finished picture shows
\* the points beside it, however often writes fail and the process dies in the middle of a
\* save.
THEOREM StoreSoundness == Spec => []StoreIsSound
<1>1. StoreInv => StoreIsSound
  BY StoreAssumption, InvGivesSound
<1> QED
  BY <1>1, Storing, PTL

\* No step writes over the points or the picture of a gesture that was stored.
THEOREM NothingOverwritten == Spec => NothingIsOverwritten
<1>1. StoreInv /\ [Next]_vars => [StoredIsKept]_storeVars
  <2> SUFFICES ASSUME StoreInv, [Next]_vars,
                      NEW m \in AllNames, NEW j \in Numbers
               PROVE  /\ csv[m][j] >= Older => csv'[m][j] = csv[m][j]
                      /\ bmp[m][j] >= Older => bmp'[m][j] = bmp[m][j]
    BY DEF AllNames, StoredIsKept
  <2> SUFFICES ASSUME NEW n, n = save.name, NEW c, c = save.num
               PROVE  /\ csv[m][j] >= Older => csv'[m][j] = csv[m][j]
                      /\ bmp[m][j] >= Older => bmp'[m][j] = bmp[m][j]
    OBVIOUS
  <2>1. StoreTypeOK /\ n \in AllNames
    BY DEF StoreInv
  <2>2. CASE UNCHANGED <<files, saves, save>> \/ Start \/ \E x \in Typed : BeginSave(x)
    BY <2>2 DEF files, Start, BeginSave
  <2>3. CASE OpenCsv
    <3>1. CASE dirExists(n)
      <4>1. csv' = [csv EXCEPT ![n][c] = Cut] /\ bmp' = bmp
        BY <2>3, <3>1 DEF OpenCsv
      <4>2. c \in Numbers /\ FilledTo(n, c)
        BY <2>3, <3>1, StoreAssumption
          DEF OpenCsv, StoreInv, StoreTypeOK, SaveInv, Limit, Numbers, StoreAssumption
      <4>3. csv[n][c] = Absent
        BY <4>2, StoreAssumption DEF FilledTo, Numbers, StoreAssumption
      <4> QED
        BY <2>1, <4>1, <4>2, <4>3 DEF StoreTypeOK, AllNames, Older, Absent
    <3>2. CASE ~dirExists(n)
      BY <2>3, <3>2 DEF OpenCsv
    <3> QED
      BY <3>1, <3>2
  <2>4. CASE WriteCsv
    <3>1. /\ csv' = csv \/ csv' = [csv EXCEPT ![n][c] = saves]
          /\ bmp' = bmp /\ c \in Numbers /\ csv[n][c] = Cut
      BY <2>4 DEF WriteCsv, StoreInv, SaveInv
    <3> QED
      BY <2>1, <3>1 DEF StoreTypeOK, AllNames, Older, Cut
  <2>5. CASE GenerateBitmap
    <3>1. CASE Drawn = Cut
      BY <2>5, <3>1 DEF GenerateBitmap
    <3>2. CASE Drawn # Cut
      <4>1. bmp' = [bmp EXCEPT ![n][c] = Cut] /\ csv' = csv
        BY <2>5, <3>2 DEF GenerateBitmap
      <4>2. c \in Numbers /\ bmp[n][c] = Absent
        BY <2>5, <3>2 DEF GenerateBitmap, Drawn, StoreInv, SaveInv
      <4> QED
        BY <2>1, <4>1, <4>2 DEF StoreTypeOK, AllNames, Older, Absent
    <3> QED
      BY <3>1, <3>2
  <2>6. CASE FinishBitmap
    <3>1. /\ bmp' = bmp \/ bmp' = [bmp EXCEPT ![n][c] = Drawn]
          /\ csv' = csv /\ c \in Numbers /\ bmp[n][c] = Cut
      BY <2>6 DEF FinishBitmap, StoreInv, SaveInv
    <3> QED
      BY <2>1, <3>1 DEF StoreTypeOK, AllNames, Older, Cut
  <2> QED
    BY <2>2, <2>3, <2>4, <2>5, <2>6, StepsOnStore DEF SaveStep
<1> QED
  BY <1>1, Storing, PTL DEF Spec, NothingIsOverwritten

\* Done is enabled only while there is a gesture, so taking it apart never fails.
THEOREM DoneGesture == Spec => []DoneHasAGesture
<1> DEFINE DoneInv == DoneHasAGesture /\ (mDoneButton => mGesture = TRUE)
<1>1. AppInit => DoneInv
  BY DEF AppInit, DoneHasAGesture
<1>2. DoneInv /\ [Next]_vars => DoneInv'
  <2> SUFFICES ASSUME DoneInv, [Next]_vars PROVE DoneInv'
    OBVIOUS
  <2> USE DEF DoneHasAGesture, storeVars, createVars
  <2>1. CASE Start
    BY <2>1 DEF Start
  <2>2. CASE Background
    <3>1. CASE SkipTask
      BY <3>1 DEF SkipTask
    <3>2. CASE NoStorage
      BY <3>2 DEF NoStorage
    <3>3. CASE BeginLoad
      BY <3>3 DEF BeginLoad
    <3>4. CASE NextDir
      BY <3>4 DEF NextDir
    <3>5. CASE LoadPicture
      BY <3>5 DEF LoadPicture
    <3>6. CASE EndLoad
      BY <3>6 DEF EndLoad
    <3> QED
      BY <2>2, <3>1, <3>2, <3>3, <3>4, <3>5, <3>6 DEF Background
  <2>3. CASE Message
    <3>1. CASE onProgressUpdate
      BY <3>1 DEF onProgressUpdate
    <3>2. CASE onPostExecute
      BY <3>2 DEF onPostExecute
    <3> QED
      BY <2>3, <3>1, <3>2 DEF Message
  <2>4. CASE SaveOn
    BY <2>4 DEF SaveOn, SaveStep, OpenCsv, WriteCsv, GenerateBitmap, FinishBitmap
  <2>5. CASE User
    <3>1. CASE RecreateList
      BY <3>1 DEF RecreateList
    <3>2. CASE addGesture
      BY <3>2 DEF addGesture
    <3>3. CASE Touch
      BY <3>3 DEF Touch, onGestureStarted
    <3>4. CASE onGestureEnded
      BY <3>4 DEF onGestureEnded
    <3>5. CASE onGestureCancelled
      BY <3>5 DEF onGestureCancelled
    <3>6. CASE RecreateCreate
      BY <3>6 DEF RecreateCreate
    <3>7. CASE extractGestureInfo
      BY <3>7 DEF extractGestureInfo, BeginSave
    <3>8. CASE cancelGesture
      BY <3>8 DEF cancelGesture
    <3> QED
      BY <2>5, <3>1, <3>2, <3>3, <3>4, <3>5, <3>6, <3>7, <3>8 DEF User
  <2>6. CASE UNCHANGED vars
    BY <2>6 DEF vars
  <2> QED
    BY <2>1, <2>2, <2>3, <2>4, <2>5, <2>6 DEF Next
<1>3. DoneInv => DoneHasAGesture
  OBVIOUS
<1> QED
  BY <1>1, <1>2, <1>3, PTL DEF Spec
-----------------------------------------------------------------------------
(* The list between two steps: its tasks, the messages of the newest, and  *)
(* the lines that are listed or on their way.                              *)

Files == Names \X Numbers

PostedType ==
  [what : {"progress"}, task : Nat, id : Ids, file : Files, seen : SUBSET Files]
    \cup [what : {"STATUS_NO_STORAGE", "STATUS_SUCCESS"}, task : Nat, id : {0},
          file : {NoFile}, seen : SUBSET Files]

ListType ==
  /\ items \in Seq([id : Ids, file : Files])
  /\ mThumbnails \in [Ids -> Files \cup {NoFile}]
  /\ messages \in Seq(PostedType)
  /\ executor \in Seq(Nat)
  /\ load \in [on : BOOLEAN, left : SUBSET Names, dir : AllNames, list1 : SUBSET Numbers,
               id : Nat, seen : SUBSET Files]

ScreenInv ==
  /\ stopped \in {"no", "not started", "no root", "no storage", "no points",
                  "no bitmap", "no gesture", "empty list"}
  /\ screen \in {"list", "create"} /\ addButton \in BOOLEAN
  /\ mGesture \in BOOLEAN /\ mDoneButton \in BOOLEAN /\ touching \in BOOLEAN

\* The newest task is the one that was not cancelled; all others in the executor were. It is the
\* activity's task until its result was handled.
TaskInv ==
  /\ tasks \in 0 .. MaxRecreations + 1 /\ mTask \in {0, tasks}
  /\ first = IF tasks = 0 THEN 1 ELSE tasks
  /\ isCancelled \subseteq 1 .. tasks /\ tasks \notin isCancelled
  /\ \A i \in DOMAIN executor : executor[i] = tasks \/ executor[i] \in isCancelled
  /\ \A i, j \in DOMAIN executor : i < j => executor[i] < executor[j]
  /\ \A i \in DOMAIN executor : executor[i] = tasks => mTask = tasks /\ tasks # 0
  /\ executor = <<>> => ~load.on
  /\ ~load.on => load = NoLoad

\* The newest task is at work, or waits.
Loading == load.on /\ Head(executor) = tasks
Waiting == ~Loading /\ \E i \in DOMAIN executor : executor[i] = tasks

\* The messages that are lines, the gestures that lines show, and those of lines to come.
Lines  == {j \in DOMAIN messages : messages[j].what = "progress"}
Shown  == {items[i].file : i \in DOMAIN items}
Coming == {messages[j].file : j \in Lines}

\* Every gesture has one line at most, with a number whose picture it is.
LineInv ==
  /\ Waiting => items = <<>> /\ Lines = {}
  /\ \A i, j \in DOMAIN items : items[i].file = items[j].file => i = j
  /\ \A i, j \in Lines : messages[i].file = messages[j].file => i = j
  /\ Shown \cap Coming = {}
  /\ \A i \in DOMAIN items : mThumbnails[items[i].id] = items[i].file
  /\ \A j \in Lines : mThumbnails[messages[j].id] = messages[j].file

\* What the task has still to list has no line, and its next number none either.
LoadInv ==
  /\ load.on => load.dir \notin load.left
  /\ load.list1 # {} => load.dir \in Names
  /\ Loading =>
       /\ \A i \in DOMAIN items : items[i].id < load.id
       /\ \A j \in Lines : messages[j].id < load.id
       /\ \A f \in Shown \cup Coming :
            f[1] \notin load.left /\ (f[1] = load.dir => f[2] \notin load.list1)

\* Every gesture that was stored when the task began is still to be listed, or has its line
\* before the message that says that the task is done.
SeenInv ==
  /\ \A f \in load.seen : bmp[f[1]][f[2]] # Absent
  /\ Loading =>
       \A f \in load.seen :
         \/ f[1] \in load.left
         \/ f[1] = load.dir /\ f[2] \in load.list1
         \/ f \in Shown \cup Coming
  /\ \A j \in DOMAIN messages \ Lines :
       messages[j].task \notin isCancelled =>
         /\ \A i \in DOMAIN executor : executor[i] # tasks
         /\ \A k \in Lines : k < j
         /\ messages[j].what = "STATUS_SUCCESS" => messages[j].seen \subseteq Shown \cup Coming

\* There are numbers enough for what is still to be listed.
RoomInv ==
  load.id + Cardinality(load.list1) + Cardinality(load.left) * (MaxStored + MaxSaves)
    <= Cardinality(Names) * (MaxStored + MaxSaves)

ListInv == ListType /\ TaskInv /\ LineInv /\ LoadInv /\ SeenInv /\ RoomInv

-----------------------------------------------------------------------------
(* The tasks.                                                              *)

\* How many pictures there can be.
LEMMA RoomType ==
  ASSUME StoreAssumption
  PROVE  /\ MaxStored + MaxSaves \in Nat /\ Cardinality(Names) \in Nat
         /\ Cardinality(Names) * (MaxStored + MaxSaves) \in Nat
         /\ IsFiniteSet(Numbers) /\ Cardinality(Numbers) = MaxStored + MaxSaves
<1>1. MaxStored + MaxSaves \in Nat /\ Cardinality(Names) \in Nat
  BY FS_CardinalityType DEF StoreAssumption
<1>2. Cardinality(Names) * (MaxStored + MaxSaves) \in Nat
  BY <1>1
<1>3. /\ IsFiniteSet(0 .. (MaxStored + MaxSaves - 1))
      /\ Cardinality(0 .. (MaxStored + MaxSaves - 1)) =
           IF 0 > MaxStored + MaxSaves - 1 THEN 0 ELSE (MaxStored + MaxSaves - 1) - 0 + 1
  <2>1. 0 \in Int /\ MaxStored + MaxSaves - 1 \in Int
    BY <1>1
  <2> QED
    BY <2>1, FS_Interval
<1> QED
  BY <1>1, <1>2, <1>3 DEF Numbers

\* Nothing is listed and nothing is loaded.
Empty ==
  /\ items = <<>> /\ messages = <<>> /\ load = NoLoad
  /\ mThumbnails = [i \in Ids |-> NoFile] /\ executor \in Seq(Nat)

LEMMA EmptyList == Empty => ListType /\ LineInv /\ LoadInv /\ SeenInv /\ RoomInv
<1> SUFFICES ASSUME Empty PROVE ListType /\ LineInv /\ LoadInv /\ SeenInv /\ RoomInv
  OBVIOUS
<1> USE DEF Empty
<1>1. Lines = {} /\ Shown = {} /\ Coming = {}
  BY DEF Lines, Shown, Coming
<1>2. ListType
  BY DEF ListType, NoLoad, AllNames
<1>3. LineInv
  BY <1>1 DEF LineInv
<1>4. LoadInv /\ SeenInv
  BY <1>1 DEF LoadInv, SeenInv, Loading, NoLoad
<1>5. RoomInv
  <2>1. Cardinality({}) = 0
    BY FS_EmptySet
  <2> QED
    BY <2>1, RoomType, StoreAssumption DEF RoomInv, NoLoad
<1> QED
  BY <1>2, <1>3, <1>4, <1>5

LEMMA InitListInv ==
  ASSUME StoreAssumption, AppAssumption, AppInit
  PROVE  ListInv
<1>1. /\ items = <<>> /\ messages = <<>> /\ load = NoLoad /\ executor = <<>>
      /\ mThumbnails = [i \in Ids |-> NoFile]
      /\ tasks = 0 /\ mTask = 0 /\ first = 1 /\ isCancelled = {}
  BY DEF AppInit
<1>2. ListType /\ LineInv /\ LoadInv /\ SeenInv /\ RoomInv
  BY <1>1, EmptyList DEF Empty
<1>3. tasks \in 0 .. MaxRecreations + 1
  BY <1>1 DEF AppAssumption
<1>4. ~load.on
  BY <1>1 DEF NoLoad
<1>5. TaskInv
  BY <1>1, <1>3, <1>4 DEF TaskInv
<1> QED
  BY <1>2, <1>5 DEF ListInv

\* A process that starts anew has an empty list and one task, that waits.
LEMMA StartListInv ==
  ASSUME StoreAssumption, AppAssumption, ListInv, Start
  PROVE  ListInv'
<1>1. /\ items' = <<>> /\ messages' = <<>> /\ load' = NoLoad /\ executor' = <<1>>
      /\ mThumbnails' = [i \in Ids |-> NoFile]
      /\ tasks' = 1 /\ mTask' = 1 /\ first' = 1 /\ isCancelled' = {}
  BY DEF Start
<1>2. ListType' /\ LineInv' /\ LoadInv' /\ SeenInv' /\ RoomInv'
  <2>1. executor' \in Seq(Nat)
    BY <1>1
  <2>2. Empty'
    BY <1>1, <2>1 DEF Empty
  <2>3. (Empty => ListType /\ LineInv /\ LoadInv /\ SeenInv /\ RoomInv)'
    BY EmptyList, PTL
  <2> QED
    BY <2>2, <2>3
<1>3. tasks' \in 0 .. MaxRecreations + 1
  BY <1>1 DEF AppAssumption
<1>4. ~load'.on
  BY <1>1 DEF NoLoad
<1>5. DOMAIN executor' = {1} /\ executor'[1] = 1
  BY <1>1
<1>6. TaskInv'
  BY <1>1, <1>3, <1>4, <1>5 DEF TaskInv
<1> QED
  BY <1>2, <1>6 DEF ListInv

\* What taking the first of a sequence leaves.
LEMMA TailFacts ==
  ASSUME NEW S, NEW s \in Seq(S), s # <<>>
  PROVE  /\ Tail(s) \in Seq(S) /\ Head(s) = s[1] /\ 1 \in DOMAIN s /\ Head(s) \in S
         /\ \A i \in DOMAIN Tail(s) : i \in Nat /\ i + 1 \in DOMAIN s /\ Tail(s)[i] = s[i + 1]
         /\ \A i \in DOMAIN s : i = 1 \/ (i - 1 \in DOMAIN Tail(s) /\ Tail(s)[i - 1] = s[i])
OBVIOUS

\* The elements of a sequence.
LEMMA SeqElements == ASSUME NEW S, NEW s \in Seq(S) PROVE \A i \in DOMAIN s : s[i] \in S
OBVIOUS

\* What appending to a sequence leaves.
LEMMA AppendFacts ==
  ASSUME NEW S, NEW s \in Seq(S), NEW x \in S
  PROVE  /\ Append(s, x) \in Seq(S) /\ Len(s) \in Nat
         /\ DOMAIN Append(s, x) = DOMAIN s \cup {Len(s) + 1} /\ Len(s) + 1 \notin DOMAIN s
         /\ \A i \in DOMAIN s : i \in Int /\ i < Len(s) + 1 /\ Append(s, x)[i] = s[i]
         /\ Append(s, x)[Len(s) + 1] = x
OBVIOUS

\* A message that is no line leaves the lines as they are.
LEMMA PostResult ==
  ASSUME ListType, NEW m \in PostedType, m.what # "progress", Post(m)
  PROVE  /\ messages' \in Seq(PostedType) /\ Lines' = Lines /\ Coming' = Coming
         /\ \A j \in DOMAIN messages : messages'[j] = messages[j]
         /\ DOMAIN messages' = DOMAIN messages \cup {Len(messages) + 1}
         /\ messages'[Len(messages) + 1] = m /\ Len(messages) + 1 \notin DOMAIN messages
         /\ \A j \in DOMAIN messages : j \in Int /\ j < Len(messages) + 1
<1>1. messages \in Seq(PostedType) /\ messages' = Append(messages, m)
  BY DEF ListType, Post
<1> HIDE DEF PostedType
<1>2. /\ messages' \in Seq(PostedType)
      /\ \A j \in DOMAIN messages : messages'[j] = messages[j]
      /\ DOMAIN messages' = DOMAIN messages \cup {Len(messages) + 1}
      /\ messages'[Len(messages) + 1] = m /\ Len(messages) + 1 \notin DOMAIN messages
      /\ \A j \in DOMAIN messages : j \in Int /\ j < Len(messages) + 1
  BY <1>1, AppendFacts
<1>3. Lines' = Lines
  BY <1>2 DEF Lines
<1>4. Coming' = Coming
  BY <1>2, <1>3 DEF Coming, Lines
<1> QED
  BY <1>2, <1>3, <1>4

\* A line more.
LEMMA PostLine ==
  ASSUME ListType, NEW m \in PostedType, m.what = "progress", Post(m)
  PROVE  /\ messages' \in Seq(PostedType) /\ Coming' = Coming \cup {m.file}
         /\ Lines' = Lines \cup {Len(messages) + 1}
         /\ \A j \in DOMAIN messages : messages'[j] = messages[j]
         /\ DOMAIN messages' = DOMAIN messages \cup {Len(messages) + 1}
         /\ messages'[Len(messages) + 1] = m /\ Len(messages) + 1 \notin DOMAIN messages
         /\ \A j \in DOMAIN messages : j \in Int /\ j < Len(messages) + 1
<1>1. messages \in Seq(PostedType) /\ messages' = Append(messages, m)
  BY DEF ListType, Post
<1> HIDE DEF PostedType
<1>2. /\ messages' \in Seq(PostedType)
      /\ \A j \in DOMAIN messages : messages'[j] = messages[j]
      /\ DOMAIN messages' = DOMAIN messages \cup {Len(messages) + 1}
      /\ messages'[Len(messages) + 1] = m /\ Len(messages) + 1 \notin DOMAIN messages
      /\ \A j \in DOMAIN messages : j \in Int /\ j < Len(messages) + 1
  BY <1>1, AppendFacts
<1>3. Lines' = Lines \cup {Len(messages) + 1}
  BY <1>2 DEF Lines
<1>4. Coming' = Coming \cup {m.file}
  BY <1>2, <1>3 DEF Coming, Lines
<1> QED
  BY <1>2, <1>3, <1>4

\* The device is turned: the new list is empty, and every task but the new one cancelled.
LEMMA RecreateInv ==
  ASSUME StoreAssumption, AppAssumption, ListInv, recreate, UNCHANGED <<files, load>>
  PROVE  ListInv'
<1>1. /\ items' = <<>> /\ messages' = <<>> /\ executor' = Append(executor, tasks + 1)
      /\ mThumbnails' = [i \in Ids |-> NoFile]
      /\ tasks' = tasks + 1 /\ mTask' = tasks + 1 /\ first' = tasks + 1
      /\ isCancelled' = IF mTask # 0 THEN isCancelled \cup {mTask} ELSE isCancelled
      /\ tasks <= MaxRecreations /\ bmp' = bmp /\ load' = load
  BY DEF recreate, displayGestures, files
<1>2. ListType /\ TaskInv /\ LineInv /\ LoadInv /\ SeenInv /\ RoomInv
  BY DEF ListInv
<1>3. /\ executor \in Seq(Nat) /\ tasks \in Nat /\ mTask \in {0, tasks}
      /\ isCancelled \subseteq 1 .. tasks
  BY <1>2 DEF ListType, TaskInv, AppAssumption
<1>4. Lines' = {} /\ Shown' = {} /\ Coming' = {}
  BY <1>1 DEF Lines, Shown, Coming
<1>5. /\ executor' \in Seq(Nat) /\ Len(executor) \in Nat
      /\ DOMAIN executor' = DOMAIN executor \cup {Len(executor) + 1}
      /\ \A i \in DOMAIN executor : i \in Int /\ i < Len(executor) + 1
                                      /\ executor'[i] = executor[i]
      /\ executor'[Len(executor) + 1] = tasks + 1
  BY <1>1, <1>3, AppendFacts
<1>6. ListType'
  BY <1>1, <1>2, <1>5 DEF ListType
<1>7. \A i \in DOMAIN executor : executor[i] \in isCancelled' /\ executor[i] <= tasks
  BY <1>1, <1>2, <1>3 DEF TaskInv
<1>8. TaskInv'
  <2>1. tasks' \in 0 .. MaxRecreations + 1 /\ tasks' # 0
    BY <1>1, <1>3 DEF AppAssumption
  <2>2. isCancelled' \subseteq 1 .. tasks' /\ tasks' \notin isCancelled'
    BY <1>1, <1>3
  <2>3. \A i \in DOMAIN executor' : executor'[i] = tasks' \/ executor'[i] \in isCancelled'
    BY <1>1, <1>5, <1>7
  <2>4. \A i, j \in DOMAIN executor' : i < j => executor'[i] < executor'[j]
    <3>1. \A i, j \in DOMAIN executor : i < j => executor[i] < executor[j]
      BY <1>2 DEF TaskInv
    <3>2. \A i \in DOMAIN executor : executor[i] < tasks + 1
      BY <1>3, <1>7
    <3> QED
      BY <1>5, <3>1, <3>2
  <2>5. executor' # <<>>
    BY <1>1, <1>3
  <2> QED
    BY <1>1, <1>2, <2>1, <2>2, <2>3, <2>4, <2>5 DEF TaskInv
<1>9. ~Loading'
  <2>1. CASE executor = <<>>
    BY <1>1, <1>2, <2>1 DEF TaskInv, Loading
  <2>2. CASE executor # <<>>
    BY <1>1, <1>3, <1>5, <1>7, <2>2 DEF Loading
  <2> QED
    BY <2>1, <2>2
<1>10. LineInv'
  BY <1>1, <1>4 DEF LineInv
<1>11. LoadInv' /\ SeenInv' /\ RoomInv'
  BY <1>1, <1>2, <1>9 DEF LoadInv, SeenInv, RoomInv, Lines
<1> QED
  BY <1>6, <1>8, <1>10, <1>11 DEF ListInv

-----------------------------------------------------------------------------
(* The steps of a task.                                                    *)

\* Facts about the first task of the executor.
LEMMA HeadTask ==
  ASSUME AppAssumption, ListType, TaskInv, executor # <<>>
  PROVE  /\ Head(executor) \in Nat /\ Head(executor) = executor[1] /\ 1 \in DOMAIN executor
         /\ Head(executor) \in isCancelled => Head(executor) # tasks /\ Head(executor) < first
         /\ Head(executor) \notin isCancelled =>
              Head(executor) = tasks /\ first = tasks /\ mTask = tasks /\ tasks # 0
         /\ tasks \in Nat
<1>1. executor \in Seq(Nat) /\ tasks \in Nat
  BY DEF ListType, TaskInv, AppAssumption
<1>2. Head(executor) \in Nat /\ Head(executor) = executor[1] /\ 1 \in DOMAIN executor
  BY <1>1, TailFacts
<1> QED
  BY <1>1, <1>2 DEF TaskInv

\* The first task is through: whether the newest is in the executor still.
LEMMA NextTask ==
  ASSUME AppAssumption, ListType, TaskInv, executor # <<>>, executor' = Tail(executor),
         load' = NoLoad, UNCHANGED <<tasks, mTask, first, isCancelled>>
  PROVE  /\ TaskInv' /\ executor' \in Seq(Nat)
         /\ ~Loading'
         /\ Head(executor) = tasks => \A i \in DOMAIN executor' : executor'[i] # tasks
         /\ Head(executor) # tasks =>
              ((\E i \in DOMAIN executor' : executor'[i] = tasks)
                 <=> \E i \in DOMAIN executor : executor[i] = tasks)
<1>1. /\ executor \in Seq(Nat) /\ executor' \in Seq(Nat) /\ Head(executor) = executor[1]
      /\ 1 \in DOMAIN executor
      /\ \A i \in DOMAIN executor' :
           i \in Nat /\ i + 1 \in DOMAIN executor /\ executor'[i] = executor[i + 1]
      /\ \A i \in DOMAIN executor :
           i = 1 \/ (i - 1 \in DOMAIN executor' /\ executor'[i - 1] = executor[i])
  BY TailFacts DEF ListType
<1>2. \A i \in DOMAIN executor' : i \in Nat \ {0}
  BY <1>1
<1>3. \A i, j \in DOMAIN executor' : i < j => executor'[i] < executor'[j]
  BY <1>1 DEF TaskInv
<1>4. ~load'.on
  BY DEF NoLoad
<1>5. TaskInv'
  BY <1>1, <1>3, <1>4 DEF TaskInv
<1>6. Head(executor) = tasks => \A i \in DOMAIN executor' : executor'[i] # tasks
  <2>1. \A i \in DOMAIN executor' : executor[1] < executor'[i]
    BY <1>1, <1>2 DEF TaskInv
  <2>2. \A i \in DOMAIN executor' : executor'[i] \in Nat /\ executor[1] \in Nat
    BY <1>1
  <2> QED
    BY <1>1, <2>1, <2>2
<1>7. Head(executor) # tasks =>
        ((\E i \in DOMAIN executor' : executor'[i] = tasks)
           <=> \E i \in DOMAIN executor : executor[i] = tasks)
  BY <1>1
<1> QED
  BY <1>1, <1>4, <1>5, <1>6, <1>7 DEF Loading

\* A cancelled task is skipped.
LEMMA SkipTaskInv ==
  ASSUME StoreAssumption, AppAssumption, ListInv, SkipTask
  PROVE  ListInv'
<1>1. ListType /\ TaskInv /\ LineInv /\ LoadInv /\ SeenInv /\ RoomInv
  BY DEF ListInv
<1>2. /\ executor # <<>> /\ Head(executor) \in isCancelled /\ ~load.on
      /\ executor' = Tail(executor) /\ load' = load /\ messages' = messages /\ items' = items
      /\ mThumbnails' = mThumbnails /\ bmp' = bmp
      /\ UNCHANGED <<tasks, mTask, first, isCancelled>>
  BY DEF SkipTask, listVars, storeVars, files
<1>3. load' = NoLoad
  BY <1>1, <1>2 DEF TaskInv
<1>4. Head(executor) # tasks
  BY <1>1, <1>2, HeadTask
<1>5. /\ TaskInv' /\ executor' \in Seq(Nat) /\ ~Loading' /\ ~Loading
      /\ (\E i \in DOMAIN executor' : executor'[i] = tasks)
           <=> \E i \in DOMAIN executor : executor[i] = tasks
  BY <1>1, <1>2, <1>3, <1>4, NextTask DEF Loading
<1>6. ListType'
  BY <1>1, <1>2, <1>5 DEF ListType
<1>7. Waiting' => Waiting
  BY <1>2, <1>5 DEF Waiting
<1>8. Lines' = Lines /\ Shown' = Shown /\ Coming' = Coming
  BY <1>2 DEF Lines, Shown, Coming
<1>9. LineInv'
  BY <1>1, <1>2, <1>7, <1>8 DEF LineInv
<1>10. LoadInv' /\ RoomInv'
  BY <1>1, <1>2, <1>5 DEF LoadInv, RoomInv
<1>11. SeenInv'
  BY <1>1, <1>2, <1>5, <1>8 DEF SeenInv
<1> QED
  BY <1>5, <1>6, <1>9, <1>10, <1>11 DEF ListInv

\* The task finds no storage.
LEMMA NoStorageInv ==
  ASSUME StoreAssumption, AppAssumption, ListInv, NoStorage
  PROVE  ListInv'
<1> DEFINE m == [what |-> "STATUS_NO_STORAGE", task |-> Head(executor), id |-> 0,
                 file |-> NoFile, seen |-> {}]
<1>1. ListType /\ TaskInv /\ LineInv /\ LoadInv /\ SeenInv /\ RoomInv
  BY DEF ListInv
<1>2. /\ executor # <<>> /\ Head(executor) \notin isCancelled /\ ~load.on
      /\ executor' = Tail(executor) /\ load' = load /\ Post(m) /\ items' = items
      /\ mThumbnails' = mThumbnails /\ bmp' = bmp
      /\ UNCHANGED <<tasks, mTask, first, isCancelled>>
  BY DEF NoStorage, listVars, storeVars, files
<1>3. load' = NoLoad
  BY <1>1, <1>2 DEF TaskInv
<1>4. Head(executor) = tasks /\ Head(executor) \in Nat
  BY <1>1, <1>2, HeadTask
<1>5. m \in PostedType /\ m.what # "progress" /\ m.what # "STATUS_SUCCESS"
  BY <1>4 DEF PostedType
<1> HIDE DEF m
<1>6. /\ TaskInv' /\ executor' \in Seq(Nat) /\ ~Loading' /\ ~Waiting'
      /\ \A i \in DOMAIN executor' : executor'[i] # tasks
  BY <1>1, <1>2, <1>3, <1>4, NextTask DEF Waiting
<1>7. /\ messages' \in Seq(PostedType) /\ Lines' = Lines /\ Coming' = Coming /\ Shown' = Shown
      /\ \A j \in DOMAIN messages : messages'[j] = messages[j]
      /\ DOMAIN messages' = DOMAIN messages \cup {Len(messages) + 1}
      /\ messages'[Len(messages) + 1] = m
      /\ \A j \in DOMAIN messages : j \in Int /\ j < Len(messages) + 1
      /\ Lines \subseteq DOMAIN messages
  <2>1. Shown' = Shown /\ Lines \subseteq DOMAIN messages
    BY <1>2 DEF Shown, Lines
  <2>2. ListType /\ m \in PostedType /\ m.what # "progress" /\ Post(m)
    BY <1>1, <1>2, <1>5
  <2> QED
    BY <2>1, <2>2, PostResult
<1>8. ListType'
  BY <1>1, <1>2, <1>6, <1>7 DEF ListType
<1>9. LineInv'
  BY <1>1, <1>2, <1>6, <1>7 DEF LineInv
<1>10. LoadInv' /\ RoomInv'
  BY <1>1, <1>2, <1>6 DEF LoadInv, RoomInv
<1>11. SeenInv'
  BY <1>1, <1>2, <1>5, <1>6, <1>7 DEF SeenInv
<1> QED
  BY <1>6, <1>8, <1>9, <1>10, <1>11 DEF ListInv

\* The task is through. If it is the newest, the gestures it saw at the beginning all have their
\* lines.
LEMMA EndLoadInv ==
  ASSUME StoreAssumption, AppAssumption, ListInv, EndLoad
  PROVE  ListInv'
<1> DEFINE m == [what |-> "STATUS_SUCCESS", task |-> Head(executor), id |-> 0,
                 file |-> NoFile, seen |-> load.seen]
<1>1. ListType /\ TaskInv /\ LineInv /\ LoadInv /\ SeenInv /\ RoomInv
  BY DEF ListInv
<1>2. /\ load.on /\ load.left = {} /\ load.list1 = {}
      /\ executor' = Tail(executor) /\ load' = NoLoad /\ Post(m) /\ items' = items
      /\ mThumbnails' = mThumbnails /\ bmp' = bmp
      /\ UNCHANGED <<tasks, mTask, first, isCancelled>>
  BY DEF EndLoad, LeftNothing, listVars, storeVars, files
<1>3. executor # <<>>
  BY <1>1, <1>2 DEF TaskInv
<1>4. /\ Head(executor) \in Nat
      /\ Head(executor) # tasks => Head(executor) \in isCancelled
  BY <1>1, <1>3, HeadTask
<1>5. m \in PostedType /\ m.what # "progress" /\ m.task = Head(executor) /\ m.seen = load.seen
  BY <1>1, <1>4 DEF PostedType, ListType
<1> HIDE DEF m
<1>6. /\ TaskInv' /\ executor' \in Seq(Nat) /\ ~Loading'
      /\ Head(executor) = tasks => \A i \in DOMAIN executor' : executor'[i] # tasks
      /\ Head(executor) # tasks =>
           ((\E i \in DOMAIN executor' : executor'[i] = tasks)
              <=> \E i \in DOMAIN executor : executor[i] = tasks)
  BY <1>1, <1>2, <1>3, NextTask
<1>7. /\ messages' \in Seq(PostedType) /\ Lines' = Lines /\ Coming' = Coming /\ Shown' = Shown
      /\ \A j \in DOMAIN messages : messages'[j] = messages[j]
      /\ DOMAIN messages' = DOMAIN messages \cup {Len(messages) + 1}
      /\ messages'[Len(messages) + 1] = m
      /\ \A j \in DOMAIN messages : j \in Int /\ j < Len(messages) + 1
      /\ Lines \subseteq DOMAIN messages
  <2>1. Shown' = Shown /\ Lines \subseteq DOMAIN messages
    BY <1>2 DEF Shown, Lines
  <2>2. ListType /\ m \in PostedType /\ m.what # "progress" /\ Post(m)
    BY <1>1, <1>2, <1>5
  <2> QED
    BY <2>1, <2>2, PostResult
<1>8. Waiting' => Waiting
  BY <1>2, <1>6 DEF Waiting, Loading
<1>9. ListType'
  <2>1. load' \in [on : BOOLEAN, left : SUBSET Names, dir : AllNames, list1 : SUBSET Numbers,
                   id : Nat, seen : SUBSET Files]
    BY <1>2 DEF NoLoad, AllNames
  <2> QED
    BY <1>1, <1>2, <1>6, <1>7, <2>1 DEF ListType
<1>10. LineInv'
  BY <1>1, <1>2, <1>7, <1>8 DEF LineInv
<1>11. LoadInv' /\ RoomInv'
  <2>1. LoadInv'
    BY <1>2, <1>6 DEF LoadInv, NoLoad
  <2>2. Cardinality({}) = 0
    BY FS_EmptySet
  <2> QED
    BY <1>2, <2>1, <2>2, RoomType DEF RoomInv, NoLoad
<1>12. SeenInv'
  <2>1. Head(executor) = tasks => m.seen \subseteq Shown \cup Coming
    BY <1>1, <1>2, <1>5 DEF SeenInv, Loading
  <2>2. \A f \in load'.seen : bmp'[f[1]][f[2]] # Absent
    BY <1>2 DEF NoLoad
  <2>3. ASSUME NEW j \in DOMAIN messages' \ Lines', messages'[j].task \notin isCancelled
        PROVE  /\ \A i \in DOMAIN executor' : executor'[i] # tasks
               /\ \A k \in Lines : k < j
               /\ messages'[j].what = "STATUS_SUCCESS" =>
                    messages'[j].seen \subseteq Shown \cup Coming
    <3>1. CASE j \in DOMAIN messages
      <4>1. /\ \A i \in DOMAIN executor : executor[i] # tasks
            /\ \A k \in Lines : k < j
            /\ messages[j].what = "STATUS_SUCCESS" => messages[j].seen \subseteq Shown \cup Coming
        BY <1>1, <1>2, <1>7, <2>3, <3>1 DEF SeenInv
      <4> QED
        BY <1>6, <1>7, <3>1, <4>1
    <3>2. CASE j = Len(messages) + 1
      <4>1. messages'[j] = m /\ Head(executor) = tasks
        BY <1>4, <1>5, <1>7, <2>3, <3>2
      <4> QED
        BY <1>5, <1>6, <1>7, <2>1, <3>2, <4>1
    <3> QED
      BY <1>7, <3>1, <3>2
  <2> QED
    BY <1>2, <1>6, <1>7, <2>2, <2>3 DEF SeenInv
<1> QED
  BY <1>6, <1>9, <1>10, <1>11, <1>12 DEF ListInv

\* The task begins: nothing has a line yet, and all it saw is still to be listed.
LEMMA BeginLoadInv ==
  ASSUME StoreAssumption, AppAssumption, StoreTypeOK, ListInv, BeginLoad
  PROVE  ListInv'
<1>1. ListType /\ TaskInv /\ LineInv /\ LoadInv /\ SeenInv /\ RoomInv
  BY DEF ListInv
<1>2. /\ executor # <<>> /\ Head(executor) \notin isCancelled /\ ~load.on
      /\ executor' = executor /\ messages' = messages /\ items' = items
      /\ mThumbnails' = mThumbnails /\ bmp' = bmp
      /\ UNCHANGED <<tasks, mTask, first, isCancelled>>
      /\ \/ load' = load
         \/ load' = [NoLoad EXCEPT !.on = TRUE, !.left = dirs,
                       !.seen = {f \in dirs \X Numbers : bmp[f[1]][f[2]] >= Older}]
  BY DEF BeginLoad, listVars, files
<1>3. Head(executor) = tasks /\ tasks \in Nat /\ 1 \in DOMAIN executor /\ executor[1] = tasks
  BY <1>1, <1>2, HeadTask
<1>4. Waiting /\ ~Loading
  BY <1>2, <1>3 DEF Waiting, Loading
<1>5. items = <<>> /\ Lines = {} /\ Shown = {} /\ Coming = {}
  BY <1>1, <1>4 DEF LineInv, Shown, Coming
<1>6. items' = <<>> /\ Lines' = {} /\ Shown' = {} /\ Coming' = {}
  BY <1>2, <1>5 DEF Lines, Shown, Coming
<1>7. CASE load' = load
  BY <1>1, <1>2, <1>4, <1>5, <1>6, <1>7
    DEF ListInv, ListType, TaskInv, LineInv, LoadInv, SeenInv, RoomInv, Loading, Waiting
<1>8. CASE load' = [NoLoad EXCEPT !.on = TRUE, !.left = dirs,
                      !.seen = {f \in dirs \X Numbers : bmp[f[1]][f[2]] >= Older}]
  <2>1. /\ load'.on = TRUE /\ load'.left = dirs /\ load'.list1 = {} /\ load'.dir = NoName
        /\ load'.id = 0
        /\ load'.seen = {f \in dirs \X Numbers : bmp[f[1]][f[2]] >= Older}
        /\ load' = [on |-> TRUE, left |-> dirs, dir |-> NoName, list1 |-> {}, id |-> 0,
                    seen |-> {f \in dirs \X Numbers : bmp[f[1]][f[2]] >= Older}]
    BY <1>8 DEF NoLoad
  <2>2. dirs \subseteq Names /\ NoName \notin dirs
    BY DEF StoreTypeOK, StoreAssumption
  <2>3. load' \in [on : BOOLEAN, left : SUBSET Names, dir : AllNames, list1 : SUBSET Numbers,
                   id : Nat, seen : SUBSET Files]
    <3>1. {f \in dirs \X Numbers : bmp[f[1]][f[2]] >= Older} \subseteq Files
      BY <2>2 DEF Files
    <3> QED
      BY <2>1, <2>2, <3>1 DEF AllNames
  <2>4. ListType'
    BY <1>1, <1>2, <2>3 DEF ListType
  <2>5. TaskInv'
    BY <1>1, <1>2, <2>1 DEF TaskInv
  <2>6. Loading' /\ ~Waiting'
    BY <1>2, <1>3, <2>1 DEF Loading, Waiting
  <2>7. LineInv'
    BY <1>6, <2>6 DEF LineInv
  <2>8. LoadInv'
    BY <1>6, <2>1, <2>2 DEF LoadInv
  <2>9. SeenInv'
    <3>1. \A f \in load'.seen : f[1] \in load'.left /\ bmp[f[1]][f[2]] # Absent
      BY <2>1 DEF Older, Absent
    <3> QED
      BY <1>1, <1>2, <1>3, <1>5, <1>6, <2>6, <3>1 DEF SeenInv
  <2>10. RoomInv'
    <3>1. Cardinality({}) = 0
      BY FS_EmptySet
    <3>2. Cardinality(dirs) \in Nat /\ Cardinality(dirs) <= Cardinality(Names)
      BY <2>2, FS_Subset, FS_CardinalityType DEF StoreAssumption
    <3>3. Cardinality(dirs) * (MaxStored + MaxSaves)
            <= Cardinality(Names) * (MaxStored + MaxSaves)
      BY <3>2, RoomType
    <3>4. Cardinality(dirs) * (MaxStored + MaxSaves) \in Nat
      BY <3>2, RoomType
    <3> QED
      BY <2>1, <3>1, <3>3, <3>4 DEF RoomInv
  <2> QED
    BY <2>4, <2>5, <2>7, <2>8, <2>9, <2>10 DEF ListInv
<1> QED
  BY <1>2, <1>7, <1>8

\* The task comes to the next directory.
LEMMA NextDirInv ==
  ASSUME StoreAssumption, AppAssumption, ListInv, NextDir
  PROVE  ListInv'
<1>1. ListType /\ TaskInv /\ LineInv /\ LoadInv /\ SeenInv /\ RoomInv
  BY DEF ListInv
<1>2. PICK d \in load.left :
        load' = [load EXCEPT !.left = @ \ {d}, !.dir = d,
                             !.list1 = {k \in Numbers : bmp[d][k] # Absent}]
  BY DEF NextDir
<1>3. /\ load.on /\ load.list1 = {}
      /\ executor' = executor /\ messages' = messages /\ items' = items
      /\ mThumbnails' = mThumbnails /\ bmp' = bmp
      /\ UNCHANGED <<tasks, mTask, first, isCancelled>>
  BY DEF NextDir, listVars, storeVars, files
<1> DEFINE pictures == {k \in Numbers : bmp[d][k] # Absent}
<1>4. /\ load'.on = load.on /\ load'.left = load.left \ {d} /\ load'.dir = d
      /\ load'.list1 = pictures /\ load'.id = load.id /\ load'.seen = load.seen
      /\ load' \in [on : BOOLEAN, left : SUBSET Names, dir : AllNames, list1 : SUBSET Numbers,
                    id : Nat, seen : SUBSET Files]
      /\ d \in Names /\ pictures \subseteq Numbers
  BY <1>1, <1>2 DEF ListType, AllNames
<1>5. /\ Lines' = Lines /\ Shown' = Shown /\ Coming' = Coming
      /\ Loading' = Loading /\ Waiting' = Waiting
  BY <1>3, <1>4 DEF Lines, Shown, Coming, Loading, Waiting
<1>6. ListType'
  BY <1>1, <1>3, <1>4 DEF ListType
<1>7. TaskInv'
  BY <1>1, <1>3, <1>4 DEF TaskInv
<1>8. LineInv'
  BY <1>1, <1>3, <1>5 DEF LineInv
<1>9. LoadInv'
  BY <1>1, <1>3, <1>4, <1>5 DEF LoadInv
<1>10. SeenInv'
  <2>1. ASSUME NEW f \in load.seen, Loading
        PROVE  \/ f[1] \in load.left \ {d}
               \/ f[1] = d /\ f[2] \in pictures
               \/ f \in Shown \cup Coming
    <3>1. f[2] \in Numbers
      BY <1>1 DEF ListType, Files
    <3>2. \/ f[1] \in load.left
          \/ f \in Shown \cup Coming
      BY <1>1, <1>3, <2>1 DEF SeenInv
    <3> QED
      BY <1>1, <3>1, <3>2 DEF SeenInv
  <2> QED
    BY <1>1, <1>3, <1>4, <1>5, <2>1 DEF SeenInv
<1>11. RoomInv'
  <2>1. IsFiniteSet(load.left) /\ Cardinality(load.left) \in Nat
    BY <1>1, FS_Subset, FS_CardinalityType DEF StoreAssumption, ListType
  <2>2. Cardinality(load.left \ {d}) = Cardinality(load.left) - 1
    BY <2>1, FS_RemoveElement
  <2>3. Cardinality(pictures) <= MaxStored + MaxSaves /\ Cardinality(pictures) \in Nat
    BY <1>4, RoomType, FS_Subset, FS_CardinalityType
  <2>4. Cardinality({}) = 0
    BY FS_EmptySet
  <2>5. (Cardinality(load.left) - 1) * (MaxStored + MaxSaves)
          = Cardinality(load.left) * (MaxStored + MaxSaves) - (MaxStored + MaxSaves)
    BY <2>1, RoomType
  <2>6. load.id \in Nat
    BY <1>1 DEF ListType
  <2>7. Cardinality(load.left) * (MaxStored + MaxSaves) \in Nat
    BY <2>1, RoomType
  <2> HIDE DEF pictures
  <2> QED
    BY <1>1, <1>3, <1>4, <2>2, <2>3, <2>4, <2>5, <2>6, <2>7, RoomType DEF RoomInv
<1> QED
  BY <1>6, <1>7, <1>8, <1>9, <1>10, <1>11 DEF ListInv

\* What one picture does to the task that lists it.
LEMMA NextPicture ==
  ASSUME StoreAssumption, ListType, RoomInv, NEW k \in load.list1,
         load' = [load EXCEPT !.list1 = @ \ {k}, !.id = NextId(@)]
  PROVE  /\ load'.on = load.on /\ load'.left = load.left /\ load'.dir = load.dir
         /\ load'.list1 = load.list1 \ {k} /\ load'.id = load.id + 1 /\ load'.seen = load.seen
         /\ load' \in [on : BOOLEAN, left : SUBSET Names, dir : AllNames, list1 : SUBSET Numbers,
                       id : Nat, seen : SUBSET Files]
         /\ load.id \in Ids /\ load.id \in Nat /\ k \in Numbers
         /\ RoomInv'
<1>1. /\ load \in [on : BOOLEAN, left : SUBSET Names, dir : AllNames, list1 : SUBSET Numbers,
                   id : Nat, seen : SUBSET Files]
      /\ load.id \in Nat /\ load.list1 \subseteq Numbers /\ k \in Numbers
  BY DEF ListType
<1>2. /\ load'.on = load.on /\ load'.left = load.left /\ load'.dir = load.dir
      /\ load'.list1 = load.list1 \ {k} /\ load'.id = load.id + 1 /\ load'.seen = load.seen
      /\ load' \in [on : BOOLEAN, left : SUBSET Names, dir : AllNames, list1 : SUBSET Numbers,
                    id : Nat, seen : SUBSET Files]
  <2>1. /\ load'.on = load.on /\ load'.left = load.left /\ load'.dir = load.dir
        /\ load'.list1 = load.list1 \ {k} /\ load'.id = load.id + 1 /\ load'.seen = load.seen
        /\ DOMAIN load' = DOMAIN load
    BY <1>1 DEF NextId
  <2>2. load' = [on |-> load'.on, left |-> load'.left, dir |-> load'.dir,
                 list1 |-> load'.list1, id |-> load'.id, seen |-> load'.seen]
    BY <1>1
  <2> QED
    BY <1>1, <2>1, <2>2
<1>3. /\ IsFiniteSet(load.list1) /\ Cardinality(load.list1) \in Nat
      /\ Cardinality(load.list1 \ {k}) = Cardinality(load.list1) - 1
      /\ Cardinality(load.list1 \ {k}) \in Nat
  <2>1. IsFiniteSet(load.list1)
    BY <1>1, RoomType, FS_Subset
  <2> QED
    BY <2>1, FS_RemoveElement, FS_CardinalityType
<1>4. Cardinality(load.left) * (MaxStored + MaxSaves) \in Nat
  <2>1. Cardinality(load.left) \in Nat
    BY FS_Subset, FS_CardinalityType DEF ListType, StoreAssumption
  <2> QED
    BY <2>1, RoomType
<1>5. load.id \in Ids
  BY <1>1, <1>3, <1>4, RoomType DEF RoomInv, Ids
<1>6. RoomInv'
  BY <1>1, <1>2, <1>3, <1>4, RoomType DEF RoomInv
<1> QED
  BY <1>1, <1>2, <1>5, <1>6

\* One picture: a thumbnail and a line with the same number, which no line has yet.
LEMMA LoadPictureInv ==
  ASSUME StoreAssumption, AppAssumption, ListInv, LoadPicture
  PROVE  ListInv'
<1>1. ListType /\ TaskInv /\ LineInv /\ LoadInv /\ SeenInv /\ RoomInv
  BY DEF ListInv
<1>2. PICK k \in load.list1 :
        LET file == <<load.dir, k>> IN
          /\ load' = [load EXCEPT !.list1 = @ \ {k}, !.id = NextId(@)]
          /\ mThumbnails' = IF Head(executor) >= first
                              THEN [mThumbnails EXCEPT ![load.id] = file]
                              ELSE mThumbnails
          /\ IF Head(executor) \in isCancelled
               THEN UNCHANGED messages
               ELSE Post([what |-> "progress", task |-> Head(executor), id |-> load.id,
                          file |-> file, seen |-> {}])
  BY DEF LoadPicture
<1> DEFINE file == <<load.dir, k>>
           m == [what |-> "progress", task |-> Head(executor), id |-> load.id,
                 file |-> file, seen |-> {}]
<1>3. /\ load.on /\ items' = items /\ bmp' = bmp /\ executor' = executor
      /\ UNCHANGED <<tasks, mTask, first, isCancelled>>
  BY DEF LoadPicture, listVars, files
<1>4. executor # <<>>
  BY <1>1, <1>3 DEF TaskInv
<1>5. /\ load'.on = load.on /\ load'.left = load.left /\ load'.dir = load.dir
      /\ load'.list1 = load.list1 \ {k} /\ load'.id = load.id + 1 /\ load'.seen = load.seen
      /\ load' \in [on : BOOLEAN, left : SUBSET Names, dir : AllNames, list1 : SUBSET Numbers,
                    id : Nat, seen : SUBSET Files]
      /\ load.id \in Ids /\ load.id \in Nat /\ k \in Numbers
      /\ RoomInv'
  <2>1. load' = [load EXCEPT !.list1 = @ \ {k}, !.id = NextId(@)]
    BY <1>2
  <2> HIDE DEF file, m
  <2> QED
    BY <1>1, <2>1, NextPicture
<1>6. load.dir \in Names /\ file \in Files /\ load.dir \notin load.left
  BY <1>1, <1>3, <1>5 DEF LoadInv, Files
<1>7. TaskInv'
  BY <1>1, <1>3, <1>5 DEF TaskInv
<1>8. Loading' = Loading /\ Waiting' = Waiting /\ Shown' = Shown
  BY <1>3, <1>5 DEF Loading, Waiting, Shown
<1>9. CASE Head(executor) \in isCancelled
  <2>1. Head(executor) \in Nat /\ Head(executor) # tasks /\ Head(executor) < first
    BY <1>1, <1>4, <1>9, HeadTask
  <2>2. messages' = messages /\ mThumbnails' = mThumbnails /\ ~Loading
    <3>1. first \in Nat
      BY <1>1 DEF TaskInv, AppAssumption
    <3>2. ~(Head(executor) >= first)
      BY <2>1, <3>1
    <3> QED
      BY <1>2, <1>9, <2>1, <3>2 DEF Loading
  <2>3. Lines' = Lines /\ Coming' = Coming
    BY <2>2 DEF Lines, Coming
  <2>4. ListType'
    BY <1>1, <1>3, <1>5, <2>2 DEF ListType
  <2>5. LineInv'
    BY <1>1, <1>3, <1>8, <2>2, <2>3 DEF LineInv
  <2>6. LoadInv'
    BY <1>5, <1>6, <1>8, <2>2 DEF LoadInv
  <2>7. SeenInv'
    BY <1>1, <1>3, <1>5, <1>8, <2>2, <2>3 DEF SeenInv
  <2> QED
    BY <1>5, <1>7, <2>4, <2>5, <2>6, <2>7 DEF ListInv
<1>10. CASE Head(executor) \notin isCancelled
  <2>1. /\ Head(executor) \in Nat /\ Head(executor) = tasks /\ first = tasks
        /\ executor[1] = tasks /\ 1 \in DOMAIN executor
    BY <1>1, <1>4, <1>10, HeadTask
  <2>2. Loading /\ ~Waiting
    BY <1>3, <2>1 DEF Loading, Waiting
  <2>3. mThumbnails' = [mThumbnails EXCEPT ![load.id] = file] /\ Post(m)
    BY <1>2, <1>10, <2>1
  <2>4. m \in PostedType /\ m.what = "progress" /\ m.file = file /\ m.id = load.id
    BY <1>5, <1>6, <2>1 DEF PostedType
  <2>5. file[1] = load.dir /\ file[2] = k
    OBVIOUS
  <2> HIDE DEF m, file
  <2>6. /\ messages' \in Seq(PostedType) /\ Coming' = Coming \cup {file}
        /\ Lines' = Lines \cup {Len(messages) + 1}
        /\ \A j \in DOMAIN messages : messages'[j] = messages[j]
        /\ DOMAIN messages' = DOMAIN messages \cup {Len(messages) + 1}
        /\ messages'[Len(messages) + 1] = m /\ Len(messages) + 1 \notin DOMAIN messages
        /\ \A j \in DOMAIN messages : j \in Int /\ j < Len(messages) + 1
    BY <1>1, <2>3, <2>4, PostLine
  <2>7. Lines \subseteq DOMAIN messages
    BY DEF Lines
  <2>8. file \notin Shown \cup Coming
    BY <1>1, <2>2, <2>5 DEF LoadInv
  <2>9. /\ \A i \in DOMAIN items : items[i].id \in Ids /\ items[i].id < load.id
        /\ \A j \in Lines : messages[j].id \in Ids /\ messages[j].id < load.id
    <3>1. \A i \in DOMAIN items : items[i].id \in Ids
      <4>1. items \in Seq([id : Ids, file : Files])
        BY <1>1 DEF ListType
      <4>2. \A i \in DOMAIN items : items[i] \in [id : Ids, file : Files]
        BY <4>1, SeqElements
      <4> QED
        BY <4>2
    <3>2. \A j \in Lines : messages[j].id \in Ids
      BY <1>1, <2>7 DEF ListType, PostedType, Lines
    <3> QED
      BY <1>1, <2>2, <3>1, <3>2 DEF LoadInv
  <2>10. /\ mThumbnails'[load.id] = file
         /\ \A i \in Ids : i < load.id => mThumbnails'[i] = mThumbnails[i]
         /\ mThumbnails' \in [Ids -> Files \cup {NoFile}]
    <3>1. mThumbnails \in [Ids -> Files \cup {NoFile}]
      BY <1>1 DEF ListType
    <3> QED
      BY <1>5, <1>6, <2>3, <3>1
  <2>11. ListType'
    BY <1>1, <1>3, <1>5, <2>6, <2>10 DEF ListType
  <2>12. LineInv'
    <3>1. \A i, j \in Lines' : messages'[i].file = messages'[j].file => i = j
      <4>1. \A j \in Lines : messages'[j].file = messages[j].file /\ messages[j].file # file
        BY <2>6, <2>7, <2>8 DEF Coming
      <4>2. messages'[Len(messages) + 1].file = file
        BY <2>4, <2>6
      <4>3. \A i, j \in Lines : messages[i].file = messages[j].file => i = j
        BY <1>1 DEF LineInv
      <4> QED
        BY <2>6, <4>1, <4>2, <4>3
    <3>2. Shown' \cap Coming' = {}
      BY <1>1, <1>8, <2>6, <2>8 DEF LineInv
    <3>3. \A i \in DOMAIN items' : mThumbnails'[items'[i].id] = items'[i].file
      BY <1>1, <1>3, <2>9, <2>10 DEF LineInv
    <3>4. \A j \in Lines' : mThumbnails'[messages'[j].id] = messages'[j].file
      BY <1>1, <2>4, <2>6, <2>7, <2>9, <2>10 DEF LineInv
    <3> QED
      BY <1>1, <1>3, <1>8, <2>2, <3>1, <3>2, <3>3, <3>4 DEF LineInv
  <2>13. LoadInv'
    <3>1. \A i \in DOMAIN items' : items'[i].id < load'.id
      BY <1>3, <1>5, <2>9 DEF Ids
    <3>2. \A j \in Lines' : messages'[j].id < load'.id
      BY <1>5, <2>4, <2>6, <2>7, <2>9 DEF Ids
    <3>3. \A f \in Shown' \cup Coming' :
            f[1] \notin load'.left /\ (f[1] = load'.dir => f[2] \notin load'.list1)
      BY <1>1, <1>5, <1>6, <1>8, <2>2, <2>5, <2>6 DEF LoadInv
    <3> QED
      BY <1>5, <1>6, <3>1, <3>2, <3>3 DEF LoadInv
  <2>14. SeenInv'
    <3>1. \A f \in load.seen :
            \/ f[1] \in load'.left
            \/ f[1] = load'.dir /\ f[2] \in load'.list1
            \/ f \in Shown' \cup Coming'
      <4> SUFFICES ASSUME NEW f \in load.seen, f[1] = load.dir, f[2] = k PROVE f = file
        BY <1>1, <1>5, <1>8, <2>2, <2>6 DEF SeenInv
      <4>1. f \in Names \X Numbers
        BY <1>1 DEF ListType, Files
      <4> QED
        BY <4>1 DEF file
    <3>2. \A j \in DOMAIN messages \ Lines : messages[j].task \in isCancelled
      BY <1>1, <2>1 DEF SeenInv
    <3>3. \A j \in DOMAIN messages' \ Lines' : messages'[j].task \in isCancelled
      BY <2>6, <3>2
    <3> QED
      BY <1>1, <1>3, <1>5, <3>1, <3>3 DEF SeenInv
  <2> QED
    BY <1>5, <1>7, <2>11, <2>12, <2>13, <2>14 DEF ListInv
<1> QED
  BY <1>9, <1>10

-----------------------------------------------------------------------------
(* The steps of the user interface thread.                                 *)

\* A message is taken: the lines still to come.
LEMMA TakeMessage ==
  ASSUME ListType, messages # <<>>, messages' = Tail(messages)
  PROVE  /\ messages' \in Seq(PostedType) /\ 1 \in DOMAIN messages
         /\ Head(messages) = messages[1] /\ Head(messages) \in PostedType
         /\ \A j \in DOMAIN messages' : j \in Nat /\ j + 1 \in DOMAIN messages
                                          /\ messages'[j] = messages[j + 1]
         /\ \A j \in Lines' : j \in DOMAIN messages' /\ j \in Nat \ {0} /\ j + 1 \in Lines
         /\ Coming' = {messages[j].file : j \in Lines \ {1}}
<1>1. messages \in Seq(PostedType)
  BY DEF ListType
<1> HIDE DEF PostedType
<1>2. /\ messages' \in Seq(PostedType) /\ 1 \in DOMAIN messages
      /\ Head(messages) = messages[1] /\ Head(messages) \in PostedType
      /\ \A j \in DOMAIN messages' : j \in Nat /\ j + 1 \in DOMAIN messages
                                       /\ messages'[j] = messages[j + 1]
      /\ \A j \in DOMAIN messages :
           j = 1 \/ (j - 1 \in DOMAIN messages' /\ messages'[j - 1] = messages[j])
  BY <1>1, TailFacts
<1>3. \A j \in DOMAIN messages' : j \in Nat \ {0}
  BY <1>2
<1>4. \A j \in Lines' : j \in DOMAIN messages' /\ j \in Nat \ {0} /\ j + 1 \in Lines
  BY <1>2, <1>3 DEF Lines
<1>5. \A j \in Lines \ {1} : j - 1 \in Lines' /\ messages'[j - 1] = messages[j]
  BY <1>2 DEF Lines
<1>6. Coming' = {messages[j].file : j \in Lines \ {1}}
  <2>1. \A j \in Lines' : j + 1 \in Lines \ {1} /\ messages'[j].file = messages[j + 1].file
    BY <1>2, <1>4
  <2>2. \A j \in Lines \ {1} : j - 1 \in Lines' /\ messages'[j - 1].file = messages[j].file
    BY <1>5
  <2>3. Coming' = {messages'[j].file : j \in Lines'}
    BY DEF Coming
  <2>4. \A f \in Coming' : \E j \in Lines \ {1} : f = messages[j].file
    BY <2>1, <2>3
  <2>5. \A j \in Lines \ {1} : messages[j].file \in Coming'
    BY <2>2, <2>3
  <2> QED
    BY <2>4, <2>5
<1> QED
  BY <1>2, <1>4, <1>6

\* A line that was to come is shown.
LEMMA ProgressInv ==
  ASSUME StoreAssumption, AppAssumption, ListInv, onProgressUpdate
  PROVE  ListInv'
<1> DEFINE x == [id |-> Head(messages).id, file |-> Head(messages).file]
<1>1. ListType /\ TaskInv /\ LineInv /\ LoadInv /\ SeenInv /\ RoomInv
  BY DEF ListInv
<1>2. /\ messages # <<>> /\ Head(messages).what = "progress"
      /\ items' = Append(items, x) /\ messages' = Tail(messages)
      /\ executor' = executor /\ load' = load /\ mThumbnails' = mThumbnails /\ bmp' = bmp
      /\ UNCHANGED <<tasks, mTask, first, isCancelled>>
  BY DEF onProgressUpdate, taskVars, storeVars, files
<1>3. /\ messages' \in Seq(PostedType) /\ 1 \in DOMAIN messages
      /\ Head(messages) = messages[1] /\ Head(messages) \in PostedType
      /\ \A j \in DOMAIN messages' : j \in Nat /\ j + 1 \in DOMAIN messages
                                       /\ messages'[j] = messages[j + 1]
      /\ \A j \in Lines' : j \in DOMAIN messages' /\ j \in Nat \ {0} /\ j + 1 \in Lines
      /\ Coming' = {messages[j].file : j \in Lines \ {1}}
  BY <1>1, <1>2, TakeMessage
<1>4. /\ x \in [id : Ids, file : Files] /\ x.id = messages[1].id /\ x.file = messages[1].file
      /\ 1 \in Lines
  BY <1>2, <1>3 DEF PostedType, Lines
<1> HIDE DEF x
<1>5. items \in Seq([id : Ids, file : Files])
  BY <1>1 DEF ListType
<1>6. /\ items' \in Seq([id : Ids, file : Files]) /\ Len(items) \in Nat
      /\ DOMAIN items' = DOMAIN items \cup {Len(items) + 1} /\ Len(items) + 1 \notin DOMAIN items
      /\ \A i \in DOMAIN items : items'[i] = items[i]
      /\ items'[Len(items) + 1] = x
  BY <1>2, <1>4, <1>5, AppendFacts
<1>7. Shown' = Shown \cup {x.file}
  BY <1>6 DEF Shown
<1>8. /\ x.file \in Coming /\ x.file \notin Shown
      /\ \A j \in Lines \ {1} : messages[j].file # x.file /\ messages[j].file \in Coming
  BY <1>1, <1>4 DEF LineInv, Coming
<1>9. Coming' = Coming \ {x.file}
  <2>1. \A f \in Coming : f # x.file => f \in Coming'
    BY <1>3, <1>4 DEF Coming
  <2>2. \A f \in Coming' : f \in Coming /\ f # x.file
    BY <1>3, <1>8
  <2> QED
    BY <2>1, <2>2
<1>10. Shown' \cup Coming' = Shown \cup Coming
  BY <1>7, <1>8, <1>9
<1>11. Loading' = Loading /\ ~Waiting'
  BY <1>1, <1>2, <1>4 DEF Loading, Waiting, LineInv
<1>12. ListType'
  BY <1>1, <1>2, <1>3, <1>6 DEF ListType
<1>13. TaskInv'
  BY <1>1, <1>2 DEF TaskInv
<1>14. \A j \in Lines' : messages'[j] = messages[j + 1] /\ j + 1 \in Lines
  BY <1>3
<1>15. LineInv'
  <2>1. \A i, j \in DOMAIN items' : items'[i].file = items'[j].file => i = j
    <3>1. \A i \in DOMAIN items : items[i].file # x.file
      BY <1>8 DEF Shown
    <3> QED
      BY <1>1, <1>6, <3>1 DEF LineInv
  <2>2. \A i, j \in Lines' : messages'[i].file = messages'[j].file => i = j
    <3>1. \A i, j \in Lines' : messages'[i].file = messages'[j].file => i + 1 = j + 1
      BY <1>1, <1>14 DEF LineInv
    <3>2. \A i \in Lines' : i \in Nat
      BY <1>3
    <3> QED
      BY <3>1, <3>2
  <2>3. Shown' \cap Coming' = {}
    BY <1>1, <1>7, <1>9 DEF LineInv
  <2>4. \A i \in DOMAIN items' : mThumbnails'[items'[i].id] = items'[i].file
    BY <1>1, <1>2, <1>4, <1>6 DEF LineInv
  <2>5. \A j \in Lines' : mThumbnails'[messages'[j].id] = messages'[j].file
    BY <1>1, <1>2, <1>14 DEF LineInv
  <2> QED
    BY <1>11, <2>1, <2>2, <2>3, <2>4, <2>5 DEF LineInv
<1>16. LoadInv'
  <2>1. Loading => \A i \in DOMAIN items' : items'[i].id < load.id
    BY <1>1, <1>4, <1>6 DEF LoadInv
  <2>2. Loading => \A j \in Lines' : messages'[j].id < load.id
    BY <1>1, <1>14 DEF LoadInv
  <2> QED
    BY <1>1, <1>2, <1>10, <1>11, <2>1, <2>2 DEF LoadInv
<1>17. SeenInv'
  <2>1. ASSUME NEW j \in DOMAIN messages' \ Lines', messages'[j].task \notin isCancelled
        PROVE  /\ \A i \in DOMAIN executor' : executor'[i] # tasks
               /\ \A k \in Lines' : k < j
               /\ messages'[j].what = "STATUS_SUCCESS" =>
                    messages'[j].seen \subseteq Shown' \cup Coming'
    <3>1. j + 1 \in DOMAIN messages \ Lines /\ messages[j + 1] = messages'[j] /\ j \in Nat
      BY <1>3 DEF Lines
    <3>2. \A k \in Lines' : k + 1 < j + 1 /\ k \in Nat
      BY <1>1, <1>3, <2>1, <3>1 DEF SeenInv
    <3>3. \A k \in Lines' : k < j
      BY <3>1, <3>2
    <3> QED
      BY <1>1, <1>2, <1>10, <2>1, <3>1, <3>3 DEF SeenInv
  <2> QED
    BY <1>1, <1>2, <1>10, <1>11, <2>1 DEF SeenInv
<1>18. RoomInv'
  BY <1>1, <1>2 DEF RoomInv
<1> QED
  BY <1>12, <1>13, <1>15, <1>16, <1>17, <1>18 DEF ListInv

\* A result is handled; when it is the newest task's, nothing of it is in the executor.
LEMMA PostExecuteInv ==
  ASSUME StoreAssumption, AppAssumption, ListInv, onPostExecute
  PROVE  ListInv'
<1>1. ListType /\ TaskInv /\ LineInv /\ LoadInv /\ SeenInv /\ RoomInv
  BY DEF ListInv
<1>2. /\ messages # <<>> /\ Head(messages).what # "progress"
      /\ items' = items /\ messages' = Tail(messages)
      /\ executor' = executor /\ load' = load /\ mThumbnails' = mThumbnails /\ bmp' = bmp
      /\ UNCHANGED <<tasks, first, isCancelled>>
      /\ mTask' = mTask \/ (mTask' = 0 /\ Head(messages).task \notin isCancelled)
  BY DEF onPostExecute, taskVars, files
<1>3. /\ messages' \in Seq(PostedType) /\ 1 \in DOMAIN messages
      /\ Head(messages) = messages[1]
      /\ \A j \in DOMAIN messages' : j \in Nat /\ j + 1 \in DOMAIN messages
                                       /\ messages'[j] = messages[j + 1]
      /\ \A j \in Lines' : j \in DOMAIN messages' /\ j \in Nat \ {0} /\ j + 1 \in Lines
      /\ Coming' = {messages[j].file : j \in Lines \ {1}}
  BY <1>1, <1>2, TakeMessage
<1>4. 1 \notin Lines
  BY <1>2, <1>3 DEF Lines
<1>5. Coming' = Coming /\ Shown' = Shown
  BY <1>2, <1>3, <1>4 DEF Coming, Shown
<1>6. Loading' = Loading /\ Waiting' = Waiting
  BY <1>2 DEF Loading, Waiting
<1>7. mTask' # mTask => \A i \in DOMAIN executor : executor[i] # tasks
  BY <1>1, <1>2, <1>3, <1>4 DEF SeenInv
<1>8. ListType'
  BY <1>1, <1>2, <1>3 DEF ListType
<1>9. TaskInv'
  BY <1>1, <1>2, <1>7 DEF TaskInv
<1>10. \A j \in Lines' : messages'[j] = messages[j + 1] /\ j + 1 \in Lines /\ j \in Nat
  BY <1>3
<1>11. LineInv'
  <2>1. \A i, j \in Lines' : messages'[i].file = messages'[j].file => i = j
    <3>1. \A i, j \in Lines' : messages'[i].file = messages'[j].file => i + 1 = j + 1
      BY <1>1, <1>10 DEF LineInv
    <3> QED
      BY <1>10, <3>1
  <2>2. \A j \in Lines' : mThumbnails'[messages'[j].id] = messages'[j].file
    BY <1>1, <1>2, <1>10 DEF LineInv
  <2>3. Waiting' => Lines' = {} /\ items' = <<>>
    BY <1>1, <1>2, <1>6, <1>10 DEF LineInv
  <2> QED
    BY <1>1, <1>2, <1>5, <2>1, <2>2, <2>3 DEF LineInv
<1>12. LoadInv'
  <2>1. Loading => \A j \in Lines' : messages'[j].id < load.id
    BY <1>1, <1>10 DEF LoadInv
  <2> QED
    BY <1>1, <1>2, <1>5, <1>6, <2>1 DEF LoadInv
<1>13. SeenInv'
  <2>1. ASSUME NEW j \in DOMAIN messages' \ Lines', messages'[j].task \notin isCancelled
        PROVE  /\ \A i \in DOMAIN executor' : executor'[i] # tasks
               /\ \A k \in Lines' : k < j
               /\ messages'[j].what = "STATUS_SUCCESS" =>
                    messages'[j].seen \subseteq Shown' \cup Coming'
    <3>1. j + 1 \in DOMAIN messages \ Lines /\ messages[j + 1] = messages'[j] /\ j \in Nat
      BY <1>3 DEF Lines
    <3>2. \A k \in Lines' : k + 1 < j + 1 /\ k \in Nat
      BY <1>1, <1>3, <2>1, <3>1 DEF SeenInv
    <3>3. \A k \in Lines' : k < j
      BY <3>1, <3>2
    <3> QED
      BY <1>1, <1>2, <1>5, <2>1, <3>1, <3>3 DEF SeenInv
  <2> QED
    BY <1>1, <1>2, <1>5, <1>6, <2>1 DEF SeenInv
<1>14. RoomInv'
  BY <1>1, <1>2 DEF RoomInv
<1> QED
  BY <1>8, <1>9, <1>11, <1>12, <1>13, <1>14 DEF ListInv

-----------------------------------------------------------------------------
(* All steps.                                                              *)

\* The list does not depend on what is drawn or saved, as long as no picture goes away.
LEMMA OtherListInv ==
  ASSUME ListInv, UNCHANGED <<items, mThumbnails, mTask, tasks, first, isCancelled>>,
         UNCHANGED <<executor, load, messages>>,
         \A f \in Files : bmp[f[1]][f[2]] # Absent => bmp'[f[1]][f[2]] # Absent
  PROVE  ListInv'
<1>1. ListType /\ TaskInv /\ LineInv /\ LoadInv /\ SeenInv /\ RoomInv
  BY DEF ListInv
<1>2. Lines' = Lines /\ Shown' = Shown /\ Coming' = Coming /\ Loading' = Loading
        /\ Waiting' = Waiting
  BY DEF Lines, Shown, Coming, Loading, Waiting
<1>3. ListType'
  BY <1>1 DEF ListType
<1>4. TaskInv'
  BY <1>1 DEF TaskInv
<1>5. LineInv'
  BY <1>1, <1>2 DEF LineInv
<1>6. LoadInv' /\ RoomInv'
  BY <1>1, <1>2 DEF LoadInv, RoomInv
<1>7. SeenInv'
  <2>1. load.seen \subseteq Files
    BY <1>1 DEF ListType
  <2> QED
    BY <1>1, <1>2, <2>1 DEF SeenInv
<1> QED
  BY <1>3, <1>4, <1>5, <1>6, <1>7 DEF ListInv

\* A save adds a picture or finishes one.
LEMMA SavePictures ==
  ASSUME StoreAssumption, StoreInv, SaveStep, NEW f \in Files, bmp[f[1]][f[2]] # Absent
  PROVE  bmp'[f[1]][f[2]] # Absent
<1>1. f[1] \in AllNames /\ f[2] \in Numbers /\ StoreTypeOK
  BY DEF Files, AllNames, StoreInv
<1>2. CASE OpenCsv \/ WriteCsv
  BY <1>2 DEF OpenCsv, WriteCsv
<1>3. CASE GenerateBitmap
  <2>1. bmp' = bmp \/ bmp' = [bmp EXCEPT ![save.name][save.num] = Cut]
    BY <1>3 DEF GenerateBitmap
  <2> QED
    BY <1>1, <2>1 DEF StoreTypeOK, AllNames, Cut, Absent
<1>4. CASE FinishBitmap
  <2>1. bmp' = bmp \/ bmp' = [bmp EXCEPT ![save.name][save.num] = Drawn]
    BY <1>4 DEF FinishBitmap
  <2>2. Drawn >= Older
    BY <1>4 DEF FinishBitmap, StoreInv, SaveInv, Drawn
  <2> QED
    BY <1>1, <2>1, <2>2 DEF StoreTypeOK, AllNames, Older, Absent
<1> QED
  BY <1>2, <1>3, <1>4 DEF SaveStep

LEMMA ListInvStep ==
  ASSUME StoreAssumption, AppAssumption, StoreInv, ListInv, [Next]_vars
  PROVE  ListInv'
<1>1. CASE Start
  BY <1>1, StartListInv
<1>2. CASE Background
  <2>1. StoreTypeOK
    BY DEF StoreInv
  <2> QED
    BY <1>2, <2>1, SkipTaskInv, NoStorageInv, BeginLoadInv, NextDirInv, LoadPictureInv, EndLoadInv
      DEF Background
<1>3. CASE Message
  BY <1>3, ProgressInv, PostExecuteInv DEF Message
<1>4. CASE SaveOn
  <2>1. /\ UNCHANGED <<items, mThumbnails, mTask, tasks, first, isCancelled>>
        /\ UNCHANGED <<executor, load, messages>>
    BY <1>4 DEF SaveOn, listVars, taskVars
  <2>2. \A f \in Files : bmp[f[1]][f[2]] # Absent => bmp'[f[1]][f[2]] # Absent
    BY <1>4, SavePictures DEF SaveOn
  <2> QED
    BY <2>1, <2>2, OtherListInv
<1>5. CASE RecreateList \/ (cancelGesture /\ recreate)
  <2>1. recreate /\ UNCHANGED <<files, load>>
    BY <1>5 DEF RecreateList, cancelGesture, storeVars
  <2> QED
    BY <2>1, RecreateInv
<1>6. CASE \/ addGesture \/ Touch \/ onGestureEnded \/ onGestureCancelled
           \/ RecreateCreate \/ extractGestureInfo \/ (cancelGesture /\ ~recreate)
           \/ UNCHANGED vars
  <2>1. /\ UNCHANGED <<items, mThumbnails, mTask, tasks, first, isCancelled>>
        /\ UNCHANGED <<executor, load, messages>> /\ bmp' = bmp
    <3> USE DEF listVars, taskVars, storeVars, files
    <3>1. CASE addGesture \/ Touch \/ onGestureEnded \/ onGestureCancelled \/ RecreateCreate
      BY <3>1 DEF addGesture, Touch, onGestureEnded, onGestureCancelled, RecreateCreate
    <3>2. CASE extractGestureInfo
      BY <3>2 DEF extractGestureInfo, BeginSave
    <3>3. CASE cancelGesture /\ ~recreate
      BY <3>3 DEF cancelGesture, onActivityResult
    <3>4. CASE UNCHANGED vars
      BY <3>4 DEF vars
    <3> QED
      BY <1>6, <3>1, <3>2, <3>3, <3>4
  <2> QED
    BY <2>1, OtherListInv
<1> QED
  BY <1>1, <1>2, <1>3, <1>4, <1>5, <1>6 DEF Next, User

\* What the screens show is of its type.
LEMMA ScreenInvStep ==
  ASSUME ScreenInv, [Next]_vars
  PROVE  ScreenInv'
<1> USE DEF ScreenInv, storeVars, createVars, listVars
<1>1. CASE Start
  BY <1>1 DEF Start
<1>2. CASE Background
  BY <1>2 DEF Background, SkipTask, NoStorage, BeginLoad, NextDir, LoadPicture, EndLoad
<1>3. CASE Message
  BY <1>3 DEF Message, onProgressUpdate, onPostExecute
<1>4. CASE SaveOn
  BY <1>4 DEF SaveOn, SaveStep, OpenCsv, WriteCsv, GenerateBitmap, FinishBitmap
<1>5. CASE User
  <2>1. CASE RecreateList \/ cancelGesture
    BY <2>1 DEF RecreateList, cancelGesture, recreate, displayGestures, onActivityResult
  <2>2. CASE extractGestureInfo
    BY <2>2 DEF extractGestureInfo, BeginSave
  <2>3. CASE addGesture \/ Touch \/ onGestureEnded \/ onGestureCancelled \/ RecreateCreate
    BY <2>3 DEF addGesture, Touch, onGestureStarted, onGestureEnded, onGestureCancelled,
      RecreateCreate
  <2> QED
    BY <1>5, <2>1, <2>2, <2>3 DEF User
<1>6. CASE UNCHANGED vars
  BY <1>6 DEF vars
<1> QED
  BY <1>1, <1>2, <1>3, <1>4, <1>5, <1>6 DEF Next

\* Every behaviour satisfies the invariant of the list.
THEOREM Listing == Spec => [](ListInv /\ ScreenInv)
<1>1. AppInit => ListInv /\ ScreenInv
  <2> SUFFICES ASSUME AppInit PROVE ListInv /\ ScreenInv
    OBVIOUS
  <2>1. ListInv
    BY StoreAssumption, AppAssumption, InitListInv
  <2>2. ScreenInv
    BY DEF AppInit, ScreenInv
  <2> QED
    BY <2>1, <2>2
<1>2. StoreInv /\ ListInv /\ ScreenInv /\ [Next]_vars => (ListInv /\ ScreenInv)'
  BY StoreAssumption, AppAssumption, ListInvStep, ScreenInvStep
<1> QED
  BY <1>1, <1>2, Storing, PTL DEF Spec

\* The invariant gives what the list promises.
LEMMA InvGivesList ==
  ASSUME StoreAssumption, AppAssumption, StoreInv, ListInv, ScreenInv
  PROVE  ListShowsTheStore
<1>1. ListType /\ TaskInv /\ LineInv /\ LoadInv /\ SeenInv /\ RoomInv
  BY DEF ListInv
<1>2. TypeOK
  <2>1. items \in Seq([id : Ids, file : Files])
    BY <1>1 DEF ListType
  <2>2. /\ DOMAIN items = 1 .. Len(items)
        /\ \A i \in DOMAIN items : items[i] \in [id : Ids, file : Files]
    <3>1. DOMAIN items = 1 .. Len(items)
      BY <2>1
    <3>2. \A i \in DOMAIN items : items[i] \in [id : Ids, file : Files]
      BY <2>1, SeqElements
    <3> QED
      BY <3>1, <3>2
  <2>3. \A j \in 1 .. Len(items) : items[j].id \in Ids /\ items[j].file \in Names \X Numbers
    BY <2>2 DEF Files
  <2>4. first \in 1 .. tasks + 1
    BY <1>1 DEF TaskInv, AppAssumption
  <2>5. mThumbnails \in [Ids -> (Names \X Numbers) \cup {NoFile}]
    BY <1>1 DEF ListType, Files
  <2> QED
    BY <1>1, <2>3, <2>4, <2>5 DEF TypeOK, TaskInv, StoreInv, ScreenInv
<1>3. ListedOnce /\ PictureBelongsToLine
  <2>1. DOMAIN items = 1 .. Len(items)
    BY <1>1 DEF ListType
  <2> QED
    BY <1>1, <2>1 DEF LineInv, ListedOnce, PictureBelongsToLine
<1>4. LoadedListIsComplete
  <2> SUFFICES ASSUME messages # <<>>, Head(messages).what = "STATUS_SUCCESS",
                      Head(messages).task \notin isCancelled
               PROVE  Head(messages).seen \subseteq {items[i].file : i \in 1 .. Len(items)}
    BY DEF LoadedListIsComplete
  <2>1. messages \in Seq(PostedType)
    BY <1>1 DEF ListType
  <2>2. Head(messages) = messages[1] /\ 1 \in DOMAIN messages
          /\ DOMAIN messages = 1 .. Len(messages) /\ Len(messages) \in Nat
    BY <2>1, TailFacts
  <2>3. 1 \in DOMAIN messages \ Lines
    BY <2>2 DEF Lines
  <2>4. \A k \in Lines : k < 1
    BY <1>1, <2>2, <2>3 DEF SeenInv
  <2>5. Lines = {} /\ Coming = {}
    BY <2>2, <2>4 DEF Lines, Coming
  <2>6. messages[1].seen \subseteq Shown
    BY <1>1, <2>2, <2>3, <2>5 DEF SeenInv
  <2>7. DOMAIN items = 1 .. Len(items)
    BY <1>1 DEF ListType
  <2> QED
    BY <2>2, <2>6, <2>7 DEF Shown
<1> QED
  BY <1>2, <1>3, <1>4 DEF ListShowsTheStore

\* However tasks, messages, saves and turns of the device interleave, no gesture is listed twice,
\* every line shows its own picture, and a list that was loaded shows every gesture that was
\* stored when its task began.
THEOREM ListShows == Spec => []ListShowsTheStore
<1>1. StoreInv /\ ListInv /\ ScreenInv => ListShowsTheStore
  BY StoreAssumption, AppAssumption, InvGivesList
<1> QED
  BY <1>1, Storing, Listing, PTL

=============================================================================
