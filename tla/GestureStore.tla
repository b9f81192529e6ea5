---------------------------- MODULE GestureStore ----------------------------
(***************************************************************************)
(* The template directory of the gesture application, and                  *)
(* UniStrokeGestureRecognizer::save, which adds a gesture to it. A         *)
(* directory of the root holds the templates of one name: the points of    *)
(* the k-th in k.csv and a picture of them in k.bmp.                       *)
(*                                                                         *)
(* save takes several steps on the file system. The process may die        *)
(* between any two of them (by itself, of an error of another thread, or   *)
(* killed), writes may fail, and a loader may look at the directory in     *)
(* between; GestureApp adds these. Nothing in the repository deletes a     *)
(* template, and only this process writes.                                 *)
(*                                                                         *)
(* What a gesture looks like is abstracted to a serial number: the n-th    *)
(* gesture saved has points n, and a picture of points n is n.             *)
(***************************************************************************)
EXTENDS Integers, FiniteSets

CONSTANTS
  Names,          \* the names of directories
  NoName,         \* the empty name: its templates go to the root itself
  Typed,          \* the names a user may give a new gesture
  MaxStored,      \* bound on the templates a directory holds at first
  MaxSaves,       \* bound on the gestures saved
  StorageFails    \* whether mkdir and writes may fail, and the card be absent

ASSUME StoreAssumption ==
  /\ IsFiniteSet(Names) /\ NoName \notin Names /\ Typed \subseteq Names \cup {NoName}
  /\ MaxStored \in Nat /\ MaxSaves \in Nat
  /\ StorageFails \in BOOLEAN

VARIABLES
  root,           \* whether the root directory exists: nobody creates it
  dirs,           \* its directories
  csv, bmp,       \* name -> k -> what the file holds
  saves,          \* how many gestures were saved, counting the one being saved
  save,           \* where save stands: its next step, and the file it works on
  stopped         \* why the process is not running, or "no"

files     == <<root, dirs, csv, bmp>>
storeVars == <<files, saves, save, stopped>>

Numbers == 0 .. MaxStored + MaxSaves - 1
Absent  == -2
Cut     == -1     \* a file that was opened and not written to its end
Content == Absent .. MaxSaves
Older   == 0      \* the content of the templates that are there at first

Running == stopped = "no"
Fails   == IF StorageFails THEN BOOLEAN ELSE {FALSE}
Idle    == [step |-> "idle", name |-> NoName, num |-> 0]

\* Directories whose files are numbered without gaps, each with its picture.
StoreInit ==
  /\ root \in BOOLEAN
  /\ dirs \in IF root THEN SUBSET Names ELSE {{}}
  /\ \E stored \in [dirs -> 0 .. MaxStored] :
       /\ csv = [n \in Names \cup {NoName} |-> [k \in Numbers |->
                   IF n \in dirs /\ k < stored[n] THEN Older ELSE Absent]]
       /\ bmp = csv
  /\ saves = 0 /\ save = Idle

-----------------------------------------------------------------------------
dirExists(n) == IF n = NoName THEN root ELSE n \in dirs

\* Mutant: the pictures are counted.
CountBitmaps(n) == Cardinality({k \in Numbers : bmp[n][k] # Absent})
\* Mutant: the number after the count.
CountSkipping(n) ==
  LET c == Cardinality({k \in Numbers : csv[n][k] # Absent})
  IN IF c # 0 THEN c + 1 ELSE c
\* getFileCount of the .csv files of a directory that exists.
Count(n) == Cardinality({k \in Numbers : csv[n][k] # Absent})

\* save makes the directory, unless it exists or cannot be made. Without one, the count
\* is -1 and so is the number of the file.
BeginSave(n) ==
  /\ Running /\ save.step = "idle" /\ saves < MaxSaves
  /\ saves' = saves + 1
  /\ \E fail \in Fails :
       LET made == ~dirExists(n) /\ root /\ ~fail IN
       /\ dirs' = IF made THEN dirs \cup {n} ELSE dirs
       /\ save' = [step |-> "open", name |-> n,
                   num |-> IF made \/ dirExists(n) THEN Count(n) ELSE -1]
  /\ UNCHANGED <<root, csv, bmp, stopped>>

\* The .csv file is opened for writing, which empties it.
OpenCsv ==
  /\ Running /\ save.step = "open"
  /\ IF dirExists(save.name)
       THEN /\ csv' = [csv EXCEPT ![save.name][save.num] = Cut]
            /\ save' = [save EXCEPT !.step = "write"]
       ELSE UNCHANGED csv /\ save' = [save EXCEPT !.step = "bitmap"]
  /\ UNCHANGED <<root, dirs, bmp, saves, stopped>>

\* The points are written. A failure goes unnoticed.
WriteCsv ==
  /\ Running /\ save.step = "write"
  /\ \E fail \in Fails :
       csv' = IF fail THEN csv ELSE [csv EXCEPT ![save.name][save.num] = saves]
  /\ save' = [save EXCEPT !.step = "bitmap"]
  /\ UNCHANGED <<root, dirs, bmp, saves, stopped>>

\* The points that generateBitmap draws: it reads them back from the file.
Drawn == IF dirExists(save.name) THEN csv[save.name][save.num] ELSE Cut

\* generateBitmap reads the points back and takes the first without asking whether there
\* is one; then it opens the .bmp file.
GenerateBitmap ==
  /\ Running /\ save.step = "bitmap"
  /\ IF Drawn = Cut
       THEN stopped' = "no points" /\ UNCHANGED <<bmp, save>>
       ELSE /\ bmp' = [bmp EXCEPT ![save.name][save.num] = Cut]
            /\ save' = [save EXCEPT !.step = "finish"]
            /\ UNCHANGED stopped
  /\ UNCHANGED <<root, dirs, csv, saves>>

\* imwrite is through, and save returns.
FinishBitmap ==
  /\ Running /\ save.step = "finish"
  /\ \E fail \in Fails :
       bmp' = IF fail THEN bmp ELSE [bmp EXCEPT ![save.name][save.num] = Drawn]
  /\ save' = Idle
  /\ UNCHANGED <<root, dirs, csv, saves, stopped>>

SaveStep == OpenCsv \/ WriteCsv \/ GenerateBitmap \/ FinishBitmap

-----------------------------------------------------------------------------
(* Properties.                                                             *)

StoreTypeOK ==
  /\ root \in BOOLEAN /\ dirs \subseteq Names
  /\ csv \in [Names \cup {NoName} -> [Numbers -> Content]]
  /\ bmp \in [Names \cup {NoName} -> [Numbers -> Content]]
  /\ saves \in 0 .. MaxSaves
  /\ save.step \in {"idle", "open", "write", "bitmap", "finish"}
  /\ save.name \in Names \cup {NoName} /\ save.num \in Numbers \cup {0, -1}

\* The number of files in a directory is a number no file has: the files are numbered
\* without gaps, whatever crashes and failed writes left behind. save relies on it when it
\* names a file after their count.
NumbersHaveNoGaps ==
  \A n \in Names \cup {NoName}, k \in Numbers :
    csv[n][k] # Absent <=> k < Cardinality({j \in Numbers : csv[n][j] # Absent})

\* The files that were written to their end are as they were.
StoredIsKept ==
  \A n \in Names \cup {NoName}, k \in Numbers :
    /\ csv[n][k] >= Older => csv'[n][k] = csv[n][k]
    /\ bmp[n][k] >= Older => bmp'[n][k] = bmp[n][k]

\* A template that was stored is never changed: no later save, of the same process or of
\* one started after a crash, opens its files again.
NothingIsOverwritten == [][StoredIsKept]_storeVars

\* A picture in the directory shows the points stored beside it, also when writing the
\* points failed.
BitmapShowsItsPoints ==
  \A n \in Names \cup {NoName}, k \in Numbers :
    bmp[n][k] >= Older => bmp[n][k] = csv[n][k]

\* Both: the directory is as save relies on finding it, whatever happened before.
StoreIsSound == NumbersHaveNoGaps /\ BitmapShowsItsPoints
=============================================================================
