----------------------------- MODULE GestureApp -----------------------------
(***************************************************************************)
(* The gesture application: the list of stored gestures                    *)
(* (OpenVisionGestureA), the screen that stores one                        *)
(* (CreateGestureActivity), the user, and the background task that fills   *)
(* the list from the directory (GesturesLoadTask).                         *)
(*                                                                         *)
(* The user interface thread runs the handlers of both screens, the save   *)
(* (a native call) and the messages that tasks post to it. The tasks run   *)
(* one after the other on one thread of their own (AsyncTask's serial      *)
(* executor). The user may turn the device, which destroys the activity    *)
(* on screen and creates it anew, and the process may be killed and        *)
(* started again.                                                          *)
(***************************************************************************)
EXTENDS GestureStore, Sequences

CONSTANTS
  MaxRecreations, \* bound on the recreations of the list in one process
  MaxStarts       \* bound on the starts of the process

ASSUME AppAssumption ==
  MaxRecreations \in Nat /\ MaxStarts \in Nat

VARIABLES
  starts,
  screen,                 \* "list" or "create"
  addButton,              \* whether addButton is enabled
  items,                  \* the gestures the adapter lists: id and file
  mThumbnails,            \* id -> file
  mTask,                  \* the task of the list: 0 if none or FINISHED
  tasks,                  \* how many tasks were executed; the last is the newest
  first,                  \* the first task of the activity that exists now
  isCancelled,            \* the tasks that were cancelled
  executor,               \* the tasks that wait or run, the running one first
  load,                   \* the locals of the running one
  messages,               \* what the tasks posted to the user interface thread
  mGesture, mDoneButton,  \* whether there is a gesture, and Done is enabled
  touching                \* whether a stroke is under way

listVars   == <<addButton, items, mThumbnails, mTask, tasks, first, isCancelled>>
createVars == <<mGesture, mDoneButton, touching>>
taskVars   == <<executor, load>>
vars == <<storeVars, starts, screen, listVars, taskVars, messages, createVars>>

NoLoad == [on |-> FALSE, left |-> {}, dir |-> NoName, list1 |-> {}, id |-> 0, seen |-> {}]
Ids    == 0 .. Cardinality(Names) * (MaxStored + MaxSaves)
NoFile == <<NoName, -1>>

\* Mutant: it is the new task that is cancelled.
displayGesturesThenCancel(enabled) ==
  /\ isCancelled' = IF mTask # 0 THEN isCancelled \cup {tasks + 1} ELSE isCancelled
  /\ tasks' = tasks + 1 /\ mTask' = tasks + 1
  /\ executor' = Append(executor, tasks + 1)
  /\ items' = <<>>
  /\ addButton' = enabled

\* displayGestures: cancel the task that is there, if any, clear the list, start another.
\* onCreate enables the button that onPreExecute disabled.
displayGestures(enabled) ==
  /\ isCancelled' = IF mTask # 0 THEN isCancelled \cup {mTask} ELSE isCancelled
  /\ tasks' = tasks + 1 /\ mTask' = tasks + 1
  /\ executor' = Append(executor, tasks + 1)
  /\ items' = <<>>
  /\ addButton' = enabled

\* onDestroy of the list and onCreate of another. What was posted for the old one has no
\* effect on the new.
recreate ==
  /\ tasks <= MaxRecreations
  /\ displayGestures(TRUE)
  /\ first' = tasks + 1
  /\ messages' = <<>>
  /\ mThumbnails' = [i \in Ids |-> NoFile]

AppInit ==
  /\ StoreInit
  /\ stopped = "not started"
  /\ starts = 0 /\ screen = "list" /\ addButton = FALSE
  /\ items = <<>> /\ mThumbnails = [i \in Ids |-> NoFile]
  /\ mTask = 0 /\ tasks = 0 /\ first = 1 /\ isCancelled = {}
  /\ executor = <<>> /\ load = NoLoad /\ messages = <<>>
  /\ mGesture = FALSE /\ mDoneButton = FALSE /\ touching = FALSE

-----------------------------------------------------------------------------
(* The process.                                                            *)

\* The process is started, after it was killed if it still runs. What it had in memory is
\* lost, between whichever two steps it stood.
Start ==
  /\ starts < MaxStarts
  /\ stopped' = "no" /\ starts' = starts + 1
  /\ save' = Idle
  /\ screen' = "list" /\ addButton' = TRUE
  /\ items' = <<>> /\ mThumbnails' = [i \in Ids |-> NoFile]
  /\ mTask' = 1 /\ tasks' = 1 /\ first' = 1 /\ isCancelled' = {}
  /\ executor' = <<1>> /\ load' = NoLoad /\ messages' = <<>>
  /\ mGesture' = FALSE /\ mDoneButton' = FALSE /\ touching' = FALSE
  /\ UNCHANGED <<files, saves>>

-----------------------------------------------------------------------------
(* The background thread: GesturesLoadTask.doInBackground.                 *)

Post(m) == messages' = Append(messages, m)

\* A task that was cancelled while it waited does not run.
SkipTask ==
  /\ Running /\ executor # <<>> /\ Head(executor) \in isCancelled /\ ~load.on
  /\ executor' = Tail(executor)
  /\ UNCHANGED <<storeVars, starts, screen, listVars, load, messages, createVars>>

NoStorage ==
  /\ Running /\ executor # <<>> /\ Head(executor) \notin isCancelled /\ ~load.on
  /\ StorageFails
  /\ Post([what |-> "STATUS_NO_STORAGE", task |-> Head(executor), id |-> 0,
           file |-> NoFile, seen |-> {}])
  /\ executor' = Tail(executor)
  /\ UNCHANGED <<storeVars, starts, screen, listVars, load, createVars>>

\* listFiles returns null for a root that does not exist.
BeginLoad ==
  /\ Running /\ executor # <<>> /\ Head(executor) \notin isCancelled /\ ~load.on
  /\ IF root
       THEN /\ load' = [NoLoad EXCEPT !.on = TRUE, !.left = dirs,
                         !.seen = {f \in dirs \X Numbers : bmp[f[1]][f[2]] >= Older}]
            /\ UNCHANGED stopped
       ELSE stopped' = "no root" /\ UNCHANGED load
  /\ UNCHANGED <<files, saves, save, starts, screen, listVars, executor,
                 messages, createVars>>

\* The pictures in the next directory, finished or not.
NextDir ==
  /\ Running /\ load.on /\ load.list1 = {}
  /\ \E d \in load.left :
       load' = [load EXCEPT !.left = @ \ {d}, !.dir = d,
                            !.list1 = {k \in Numbers : bmp[d][k] # Absent}]
  /\ UNCHANGED <<storeVars, starts, screen, listVars, executor, messages,
                 createVars>>

NextId(id) == id + 1

\* One picture: its thumbnail goes to the adapter at once, the line that names it by way
\* of the user interface thread, unless the task was cancelled. The picture may be one
\* that cannot be decoded, if it is not finished: then there is no bitmap to recycle.
LoadPicture ==
  /\ Running /\ load.on
  /\ \E k \in load.list1 :
       LET file == <<load.dir, k>> IN
       /\ load' = [load EXCEPT !.list1 = @ \ {k}, !.id = NextId(@)]
       /\ mThumbnails' = IF Head(executor) >= first
                           THEN [mThumbnails EXCEPT ![load.id] = file]
                           ELSE mThumbnails
       /\ IF Head(executor) \in isCancelled
            THEN UNCHANGED messages
            ELSE Post([what |-> "progress", task |-> Head(executor), id |-> load.id,
                       file |-> file, seen |-> {}])
       /\ \E decoded \in BOOLEAN :
            /\ bmp[load.dir][k] # Cut => decoded
            /\ stopped' = IF decoded THEN "no" ELSE "no bitmap"
  /\ UNCHANGED <<files, saves, save, starts, screen, addButton, items, mTask,
                 tasks, first, isCancelled, executor, createVars>>

LeftNothing == load.left = {} /\ load.list1 = {}

\* The result is posted when nothing is left to do.
EndLoad ==
  /\ Running /\ load.on /\ LeftNothing
  /\ Post([what |-> "STATUS_SUCCESS", task |-> Head(executor), id |-> 0,
           file |-> NoFile, seen |-> load.seen])
  /\ executor' = Tail(executor) /\ load' = NoLoad
  /\ UNCHANGED <<storeVars, starts, screen, listVars, createVars>>

Background == SkipTask \/ NoStorage \/ BeginLoad \/ NextDir \/ LoadPicture \/ EndLoad

-----------------------------------------------------------------------------
(* The user interface thread, when no save keeps it busy.                  *)

UIFree == Running /\ save.step = "idle"

onProgressUpdate ==
  /\ UIFree /\ messages # <<>> /\ Head(messages).what = "progress"
  /\ items' = Append(items, [id |-> Head(messages).id, file |-> Head(messages).file])
  /\ messages' = Tail(messages)
  /\ UNCHANGED <<storeVars, starts, screen, addButton, mThumbnails, mTask, tasks,
                 first, isCancelled, taskVars, createVars>>

\* The result of a cancelled task goes to onCancelled, which does nothing. mEmpty, the
\* view that would say that there is nothing, is null.
onPostExecute ==
  /\ UIFree /\ messages # <<>> /\ Head(messages).what # "progress"
  /\ messages' = Tail(messages)
  /\ IF Head(messages).task \in isCancelled
       THEN UNCHANGED <<stopped, addButton, mTask>>
       ELSE /\ mTask' = 0
            /\ IF Head(messages).what = "STATUS_NO_STORAGE"
                 THEN stopped' = "no storage" /\ UNCHANGED addButton
                 ELSE /\ addButton' = TRUE
                      /\ stopped' = IF items = <<>> THEN "empty list" ELSE "no"
  /\ UNCHANGED <<files, saves, save, starts, screen, items, mThumbnails, tasks,
                 first, isCancelled, taskVars, createVars>>

\* The device is turned while the list is on screen.
RecreateList ==
  /\ UIFree /\ screen = "list"
  /\ recreate
  /\ UNCHANGED <<storeVars, starts, screen, load, createVars>>

addGesture ==
  /\ UIFree /\ screen = "list" /\ addButton
  /\ screen' = "create"
  /\ mGesture' = FALSE /\ mDoneButton' = FALSE /\ touching' = FALSE
  /\ UNCHANGED <<storeVars, starts, listVars, taskVars, messages>>

\* Mutant: Done stays enabled.
onGestureStartedDone ==
  /\ touching' = TRUE /\ mGesture' = FALSE /\ UNCHANGED mDoneButton
\* What a new stroke does to the gesture before it.
onGestureStarted ==
  /\ touching' = TRUE /\ mGesture' = FALSE /\ mDoneButton' = FALSE

Touch ==
  /\ UIFree /\ screen = "create" /\ ~touching
  /\ onGestureStarted
  /\ UNCHANGED <<storeVars, starts, screen, listVars, taskVars, messages>>

onGestureEnded ==
  /\ UIFree /\ screen = "create" /\ touching
  /\ touching' = FALSE /\ mGesture' = TRUE /\ mDoneButton' = TRUE
  /\ UNCHANGED <<storeVars, starts, screen, listVars, taskVars, messages>>

onGestureCancelled ==
  /\ UIFree /\ screen = "create" /\ touching
  /\ touching' = FALSE
  /\ UNCHANGED <<storeVars, starts, screen, listVars, taskVars, messages,
                 mGesture, mDoneButton>>

\* The device is turned while the other screen is shown: the gesture, if there is one, is
\* saved with the state of the old activity and restored in the new.
RecreateCreate ==
  /\ UIFree /\ screen = "create"
  /\ touching' = FALSE /\ mDoneButton' = mGesture
  /\ UNCHANGED <<storeVars, starts, screen, listVars, taskVars, messages,
                 mGesture>>

\* Done: the gesture is taken apart, which fails if there is none, and saved.
extractGestureInfo ==
  /\ UIFree /\ screen = "create" /\ mDoneButton
  /\ IF mGesture
       THEN \E n \in Typed : BeginSave(n)
       ELSE stopped' = "no gesture" /\ UNCHANGED <<files, saves, save>>
  /\ UNCHANGED <<starts, screen, listVars, taskVars, messages, createVars>>

\* Mutant: the list is loaded anew whatever the result.
onActivityResultAlways(resultCode) ==
  /\ displayGestures(FALSE)
  /\ UNCHANGED <<first, messages, mThumbnails>>
\* What the list does with the result of the other screen.
onActivityResult(resultCode) ==
  IF resultCode = "RESULT_OK"
    THEN /\ displayGestures(FALSE)
         /\ UNCHANGED <<first, messages, mThumbnails>>
    ELSE UNCHANGED <<listVars, executor, messages>>

\* Back to the list, by Discard or by the back key: both return RESULT_CANCELED. If the
\* device was turned meanwhile, or memory was short, the list is recreated.
cancelGesture ==
  /\ UIFree /\ screen = "create"
  /\ screen' = "list"
  /\ recreate \/ onActivityResult("RESULT_CANCELED")
  /\ UNCHANGED <<storeVars, starts, load, createVars>>

SaveOn == SaveStep /\ UNCHANGED <<starts, screen, listVars, taskVars, messages,
                                  createVars>>

Message == onProgressUpdate \/ onPostExecute
User ==
  \/ RecreateList \/ addGesture \/ Touch \/ onGestureEnded \/ onGestureCancelled
  \/ RecreateCreate \/ extractGestureInfo \/ cancelGesture

Next == Start \/ Background \/ Message \/ SaveOn \/ User

Spec == AppInit /\ [][Next]_vars

\* Both threads run as long as they have work; users and the system may do nothing.
FairSpec == Spec /\ WF_vars(Background) /\ WF_vars(Message) /\ WF_vars(SaveOn)

-----------------------------------------------------------------------------
(* Properties.                                                             *)

TypeOK ==
  /\ StoreTypeOK
  /\ stopped \in {"no", "not started", "no root", "no storage", "no points",
                  "no bitmap", "no gesture", "empty list"}
  /\ screen \in {"list", "create"} /\ addButton \in BOOLEAN
  /\ \A j \in 1 .. Len(items) : items[j].id \in Ids /\ items[j].file \in Names \X Numbers
  /\ mThumbnails \in [Ids -> (Names \X Numbers) \cup {NoFile}]
  /\ tasks \in 0 .. MaxRecreations + 1 /\ mTask \in {0, tasks} /\ first \in 1 .. tasks + 1
  /\ isCancelled \subseteq 1 .. tasks
  /\ mGesture \in BOOLEAN /\ mDoneButton \in BOOLEAN /\ touching \in BOOLEAN
  /\ executor = <<>> => ~load.on

\* No gesture is listed twice, although the task that lists them can be replaced by
\* another while it runs or while what it posted is still to be handled.
ListedOnce ==
  \A i, j \in 1 .. Len(items) : items[i].file = items[j].file => i = j

\* Every line of the list shows the picture of the gesture that it names: lines come by
\* way of messages and pictures do not, and the number that joins them starts again from
\* 0 in every task.
PictureBelongsToLine ==
  \A i \in 1 .. Len(items) : mThumbnails[items[i].id] = items[i].file

\* When the list is told that its task is done, it shows every gesture that was stored
\* when the task began, whatever was being saved, cancelled and created meanwhile.
LoadedListIsComplete ==
  LET m == Head(messages) IN
  messages # <<>> /\ m.what = "STATUS_SUCCESS" /\ m.task \notin isCancelled =>
    m.seen \subseteq {items[i].file : i \in 1 .. Len(items)}

\* The list is in agreement with itself and, once loaded, with the store.
ListShowsTheStore == TypeOK /\ ListedOnce /\ PictureBelongsToLine /\ LoadedListIsComplete

\* Done can be pressed only when there is a gesture: not while the next is being drawn,
\* after one was abandoned, nor after the screen was turned.
DoneHasAGesture == stopped # "no gesture"

\* Whatever the user does, the task that fills the list comes to an end, or the process
\* does.
LoadEnds == mTask # 0 ~> mTask = 0 \/ ~Running
=============================================================================
