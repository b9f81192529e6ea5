----------------------------- MODULE ThreadPool -----------------------------
(***************************************************************************)
(* The bounded worker pool of ImgUtils/threadpool.cpp: worker threads      *)
(* (tpool_thread) that take work items from a queue, client threads that   *)
(* call tpool_add_work and tpool_full_check, and the thread that owns the  *)
(* pool and calls tpool_cleanup or sets the public flags shutdown and      *)
(* queue_closed.                                                           *)
(*                                                                         *)
(* Everything between a lock and the unlock or wait that follows it is one *)
(* step, because every field but the two flags is only touched under       *)
(* queue_lock. A thread's pc says where it is:                             *)
(*   testcancel   at the pthread_testcancel of a worker's loop             *)
(*   idle         a client outside the pool                                *)
(*   lock         asking for queue_lock                                    *)
(*   test         holding it, about to read the queue's size               *)
(*   wait, woken  in pthread_cond_wait, before and after a wakeup          *)
(*   run, done    a worker in the handler, and after it                    *)
(*   dead         exited                                                   *)
(*                                                                         *)
(* A definition with a telling suffix just before another (AddWakesNobody  *)
(* before AddWakes) is a faulty variant of it, which no action uses: the   *)
(* properties are checked to fail when it takes the other's place.         *)
(***************************************************************************)
EXTENDS Integers, Sequences, FiniteSets

CONSTANTS
  NumThreads,       \* num_threads: how many workers init created
  Clients,          \* the threads that submit work
  Owner,            \* the thread that cleans the pool up
  Work,             \* the work items (a routine and its argument)
  QueueSizes,       \* the values max_queue_size may have
  OwnerCalls,       \* which of "cleanup", "shutdown" and "close" the owner makes
  AllocMayFail,     \* whether the allocations of tpool_add_work may fail
  HandlerOutcomes,  \* whether cleanup_handler's call unlocks: it is undefined, see Leave
  NoThread, NoWork

Workers == 0 .. NumThreads - 1
Threads == Workers \cup Clients

\* What the code relies on: threads are told apart, and there are no other flags.
ASSUME PoolAssumption ==
  /\ NumThreads \in Nat
  /\ Workers \cap Clients = {}
  /\ Owner \notin Threads
  /\ NoThread \notin Threads \cup {Owner}
  /\ NoWork \notin Work
  /\ IsFiniteSet(Work)
  /\ QueueSizes \subseteq Nat
  /\ AllocMayFail \in BOOLEAN
  /\ HandlerOutcomes \subseteq BOOLEAN

VARIABLES
  max_queue_size, do_not_block_when_full,       \* set by init, then constant
  queue_closed, shutdown,                       \* public flags
  queue,                \* the list from queue_head to queue_tail
  cur_queue_size, num_threads_working,
  queue_lock,           \* the thread that owns the mutex, or NoThread
  pc, my_work,          \* of each thread: its position and the item it handles
  node,                 \* of each item: what became of its ThreadPoolWork
  cancelled,            \* the workers with a pending pthread_cancel
  cleanup, idx, sent,   \* tpool_cleanup: its stage, its i and its k
  vouched               \* the clients whose last tpool_full_check returned 1
                        \* and since which nobody else added work

fixed   == <<max_queue_size, do_not_block_when_full>>
flags   == <<queue_closed, shutdown>>
fields  == <<queue, cur_queue_size, num_threads_working>>
owner   == <<cancelled, cleanup, idx, sent>>
vars    == <<fixed, flags, fields, queue_lock, pc, my_work, node, owner, vouched>>

WorkerPC == {"testcancel", "lock", "test", "wait", "woken", "run", "done", "dead"}
ClientPC == {"idle", "lock", "test", "wait", "woken", "dead"}

Init ==
  /\ max_queue_size \in QueueSizes
  /\ do_not_block_when_full \in BOOLEAN
  /\ queue_closed = FALSE /\ shutdown = FALSE
  /\ queue = <<>> /\ cur_queue_size = 0 /\ num_threads_working = 0
  /\ queue_lock = NoThread
  /\ pc = [t \in Threads |-> IF t \in Workers THEN "testcancel" ELSE "idle"]
  /\ my_work = [t \in Threads |-> NoWork]
  /\ node = [x \in Work |-> "new"]
  /\ cancelled = {}
  /\ cleanup = "idle" /\ idx = 0 /\ sent = 0
  /\ vouched = {}

-----------------------------------------------------------------------------
(* The mutex and the condition variables.                                  *)

FullTooLate == cur_queue_size > max_queue_size
Full == cur_queue_size = max_queue_size
Closed == shutdown \/ queue_closed
Holds(t, at) == queue_lock = t /\ pc[t] = at

Goto(t, at) == pc' = [pc EXCEPT ![t] = at]

\* Thread t moves on, and a broadcast wakes those of S that sleep.
GotoWaking(t, at, S) ==
  pc' = [u \in Threads |->
           IF u = t THEN at
           ELSE IF u \in S /\ pc[u] = "wait" THEN "woken" ELSE pc[u]]

\* pthread_mutex_lock, at the start of an operation and inside pthread_cond_wait.
Lock(t) ==
  /\ pc[t] \in {"lock", "woken"}
  /\ queue_lock = NoThread
  /\ queue_lock' = t
  /\ Goto(t, "test")
  /\ UNCHANGED <<fixed, flags, fields, my_work, node, owner, vouched>>

\* pthread_cond_wait may return without a broadcast.
SpuriousWakeup(t) ==
  /\ pc[t] = "wait"
  /\ Goto(t, "woken")
  /\ UNCHANGED <<fixed, flags, fields, queue_lock, my_work, node, owner, vouched>>

-----------------------------------------------------------------------------
(* tpool_thread                                                            *)

\* A worker exits and its cleanup handler runs. The handler is a member function
\* called through a pointer to a function of one argument, so the pool it should
\* unlock is an indeterminate value: a mutex the worker owns may stay locked. A
\* mutex it does not own is not affected (PTHREAD_MUTEX_ERRORCHECK).
Leave(w, holding) ==
  /\ Goto(w, "dead")
  /\ my_work' = [my_work EXCEPT ![w] = NoWork]
  /\ IF holding
       THEN \E unlocks \in HandlerOutcomes :
              queue_lock' = IF unlocks THEN NoThread ELSE w
       ELSE UNCHANGED queue_lock

TestCancel(w) ==
  /\ pc[w] = "testcancel"
  /\ IF w \in cancelled THEN Leave(w, FALSE)
                        ELSE Goto(w, "lock") /\ UNCHANGED <<my_work, queue_lock>>
  /\ UNCHANGED <<fixed, flags, fields, node, owner, vouched>>

WaitForWork(w) ==
  /\ Holds(w, "test")
  /\ cur_queue_size = 0 /\ ~shutdown
  /\ queue_lock' = NoThread
  /\ Goto(w, "wait")
  /\ UNCHANGED <<fixed, flags, fields, my_work, node, owner, vouched>>

\* A cancelled wait takes the lock back before the cleanup handler runs.
CancelWait(w) ==
  /\ pc[w] \in {"wait", "woken"} /\ w \in cancelled
  /\ queue_lock = NoThread
  /\ Leave(w, TRUE)
  /\ UNCHANGED <<fixed, flags, fields, node, owner, vouched>>

LeaveOnShutdown(w) ==
  /\ Holds(w, "test")
  /\ shutdown
  /\ Goto(w, "dead")
  /\ queue_lock' = NoThread
  /\ UNCHANGED <<fixed, flags, fields, my_work, node, owner, vouched>>

\* Who is woken when an item is taken: the clients, if the queue was full.
TakeWakesLate ==
  IF ~do_not_block_when_full /\ cur_queue_size = max_queue_size - 1 THEN Clients ELSE {}
TakeWakes ==
  IF ~do_not_block_when_full /\ cur_queue_size - 1 = max_queue_size - 1
    THEN Clients ELSE {}

\* The list without its head.
DequeuedKeepingHead == IF cur_queue_size - 1 = 0 THEN <<>> ELSE queue
Dequeued == IF cur_queue_size - 1 = 0 THEN <<>> ELSE Tail(queue)

TakeWork(w) ==
  /\ Holds(w, "test")
  /\ cur_queue_size # 0 /\ ~shutdown
  /\ my_work' = [my_work EXCEPT ![w] = Head(queue)]
  /\ node' = [node EXCEPT ![Head(queue)] = "taken"]
  /\ cur_queue_size' = cur_queue_size - 1
  /\ queue' = Dequeued
  /\ num_threads_working' = num_threads_working + 1
  /\ GotoWaking(w, "run", TakeWakes)
  /\ queue_lock' = NoThread
  /\ UNCHANGED <<fixed, flags, owner, vouched>>

\* The handler returns and the node (but not its argument) is freed.
HandlerReturnsLeaking(w) ==
  /\ pc[w] = "run"
  /\ Goto(w, "done")
  /\ my_work' = [my_work EXCEPT ![w] = NoWork]
  /\ UNCHANGED <<fixed, flags, fields, queue_lock, node, owner, vouched>>

HandlerReturns(w) ==
  /\ pc[w] = "run"
  /\ Goto(w, "done")
  /\ node' = [node EXCEPT ![my_work[w]] = "freed"]
  /\ my_work' = [my_work EXCEPT ![w] = NoWork]
  /\ UNCHANGED <<fixed, flags, fields, queue_lock, owner, vouched>>

\* The handler reaches a cancellation point of its own: the item and the count stay.
CancelHandler(w) ==
  /\ pc[w] = "run" /\ w \in cancelled
  /\ Leave(w, FALSE)
  /\ UNCHANGED <<fixed, flags, fields, node, owner, vouched>>

FinishWorkUncounted(w) ==
  /\ pc[w] = "done"
  /\ queue_lock = NoThread
  /\ Goto(w, "testcancel")
  /\ UNCHANGED <<fixed, flags, fields, queue_lock, my_work, node, owner, vouched>>

FinishWork(w) ==
  /\ pc[w] = "done"
  /\ queue_lock = NoThread
  /\ num_threads_working' = num_threads_working - 1
  /\ Goto(w, "testcancel")
  /\ UNCHANGED <<fixed, flags, queue, cur_queue_size, queue_lock, my_work, node,
                 owner, vouched>>

Worker(w) ==
  \/ Lock(w) \/ TestCancel(w) \/ WaitForWork(w) \/ CancelWait(w)
  \/ LeaveOnShutdown(w) \/ TakeWork(w) \/ HandlerReturns(w) \/ CancelHandler(w)
  \/ FinishWork(w)

-----------------------------------------------------------------------------
(* tpool_add_work and tpool_full_check                                     *)

\* A client calls tpool_add_work; an item that was refused may be tried again.
CallAddWork(c, x) ==
  /\ pc[c] = "idle"
  /\ node[x] = "new"
  /\ Goto(c, "lock")
  /\ my_work' = [my_work EXCEPT ![c] = x]
  /\ node' = [node EXCEPT ![x] = "offered"]
  /\ UNCHANGED <<fixed, flags, fields, queue_lock, owner, vouched>>

\* The lock is refused to the thread that already holds it: EXIT_THREAD.
Relock(c) ==
  /\ pc[c] = "lock" /\ queue_lock = c
  /\ Goto(c, "dead")
  /\ my_work' = [my_work EXCEPT ![c] = NoWork]
  /\ UNCHANGED <<fixed, flags, fields, queue_lock, node, owner, vouched>>

\* tpool_add_work returns -1 and the item is not queued.
GiveBack(c) ==
  /\ Goto(c, "idle")
  /\ my_work' = [my_work EXCEPT ![c] = NoWork]
  /\ node' = [node EXCEPT ![my_work[c]] = "new"]
  /\ vouched' = vouched \ {c}
  /\ UNCHANGED <<fixed, flags, fields, owner>>

RefuseFull(c) ==
  /\ Holds(c, "test")
  /\ Full /\ do_not_block_when_full
  /\ queue_lock' = NoThread
  /\ GiveBack(c)

\* After a wakeup the loop tests the size again; the test of do_not_block_when_full
\* before it, which never changes, need not be told apart.
WaitForRoom(c) ==
  /\ Holds(c, "test")
  /\ Full /\ ~do_not_block_when_full /\ ~Closed
  /\ queue_lock' = NoThread
  /\ Goto(c, "wait")
  /\ UNCHANGED <<fixed, flags, fields, my_work, node, owner, vouched>>

RefuseClosed(c) ==
  /\ Holds(c, "test")
  /\ Closed /\ ~(Full /\ do_not_block_when_full)
  /\ queue_lock' = NoThread
  /\ GiveBack(c)

\* A failed allocation returns -1 without an unlock.
AllocFails(c) ==
  /\ AllocMayFail
  /\ Holds(c, "test")
  /\ ~Full /\ ~Closed
  /\ UNCHANGED queue_lock
  /\ GiveBack(c)

\* Who is woken when an item is added: the workers, if the queue was empty.
AddWakesNobody == {}
AddWakes == IF cur_queue_size = 0 THEN Workers ELSE {}

\* The list with an item at its tail.
EnqueuedInFront(x) == IF cur_queue_size = 0 THEN <<x>> ELSE <<x>> \o queue
Enqueued(x) == IF cur_queue_size = 0 THEN <<x>> ELSE Append(queue, x)

Enqueue(c) ==
  /\ Holds(c, "test")
  /\ ~Full /\ ~Closed
  /\ queue' = Enqueued(my_work[c])
  /\ cur_queue_size' = cur_queue_size + 1
  /\ node' = [node EXCEPT ![my_work[c]] = "queued"]
  /\ my_work' = [my_work EXCEPT ![c] = NoWork]
  /\ GotoWaking(c, "idle", AddWakes)
  /\ queue_lock' = NoThread
  /\ vouched' = {}
  /\ UNCHANGED <<fixed, flags, num_threads_working, owner>>

\* What tpool_full_check returns.
FullCheckAlwaysOne == TRUE
FullCheckResult == ~(Full /\ do_not_block_when_full)

FullCheck(c) ==
  /\ pc[c] = "idle" /\ queue_lock = NoThread
  /\ vouched' = IF FullCheckResult THEN vouched \cup {c} ELSE vouched \ {c}
  /\ UNCHANGED <<fixed, flags, fields, queue_lock, pc, my_work, node, owner>>

AddWork(c) ==
  \/ Lock(c) \/ Relock(c) \/ RefuseFull(c) \/ WaitForRoom(c) \/ RefuseClosed(c)
  \/ AllocFails(c) \/ Enqueue(c)

Client(c) == AddWork(c) \/ FullCheck(c) \/ \E x \in Work : CallAddWork(c, x)

-----------------------------------------------------------------------------
(* The owner: tpool_cleanup, and the flags, which nothing in the pool sets. *)

CallCleanup ==
  /\ "cleanup" \in OwnerCalls
  /\ cleanup = "idle"
  /\ cleanup' = "loop" /\ idx' = 0 /\ sent' = 0
  /\ UNCHANGED <<fixed, flags, fields, queue_lock, pc, my_work, node, cancelled, vouched>>

\* One turn of the inner loop: get_num_threads takes and releases the lock, then
\* pthread_kill tells a live thread from one that has exited.
CancelNextCountsAll ==
  /\ cleanup = "loop" /\ idx < NumThreads
  /\ queue_lock = NoThread
  /\ cancelled' = cancelled \cup {idx} /\ sent' = sent + 1
  /\ idx' = idx + 1
  /\ UNCHANGED <<fixed, flags, fields, queue_lock, pc, my_work, node, cleanup, vouched>>

CancelNext ==
  /\ cleanup = "loop" /\ idx < NumThreads
  /\ queue_lock = NoThread
  /\ IF pc[idx] # "dead" THEN cancelled' = cancelled \cup {idx} /\ sent' = sent + 1
                         ELSE UNCHANGED <<cancelled, sent>>
  /\ idx' = idx + 1
  /\ UNCHANGED <<fixed, flags, fields, queue_lock, pc, my_work, node, cleanup, vouched>>

\* The inner loop is over: another round unless every thread had exited.
EndRoundOnce ==
  /\ cleanup = "loop" /\ idx = NumThreads
  /\ queue_lock = NoThread
  /\ cleanup' = "returned" /\ idx' = 0 /\ sent' = 0
  /\ UNCHANGED <<fixed, flags, fields, queue_lock, pc, my_work, node, cancelled, vouched>>

EndRound ==
  /\ cleanup = "loop" /\ idx = NumThreads
  /\ queue_lock = NoThread
  /\ cleanup' = IF sent = 0 THEN "returned" ELSE "loop"
  /\ idx' = 0 /\ sent' = 0
  /\ UNCHANGED <<fixed, flags, fields, queue_lock, pc, my_work, node, cancelled, vouched>>

SetShutdown ==
  /\ "shutdown" \in OwnerCalls
  /\ shutdown' = TRUE
  /\ UNCHANGED <<fixed, queue_closed, fields, queue_lock, pc, my_work, node, owner, vouched>>

CloseQueue ==
  /\ "close" \in OwnerCalls
  /\ queue_closed' = TRUE
  /\ UNCHANGED <<fixed, shutdown, fields, queue_lock, pc, my_work, node, owner, vouched>>

Cleanup == CancelNext \/ EndRound

Next ==
  \/ \E w \in Workers : Worker(w)
  \/ \E c \in Clients : Client(c)
  \/ \E t \in Threads : SpuriousWakeup(t)
  \/ CallCleanup \/ Cleanup \/ SetShutdown \/ CloseQueue

\* A thread that can run again and again is run in the end: only the mutex can come
\* between a thread and its next step, and it is granted to whoever keeps asking for
\* it. Handlers return. Nobody has to call the pool or to wake for nothing.
Fairness ==
  /\ \A w \in Workers : SF_vars(Worker(w))
  /\ \A c \in Clients : SF_vars(AddWork(c))
  /\ SF_vars(Cleanup)

Spec == Init /\ [][Next]_vars
FairSpec == Spec /\ Fairness

-----------------------------------------------------------------------------
(* Properties.                                                             *)

\* Every variable has a value of its kind.
TypeOK ==
  /\ max_queue_size \in QueueSizes /\ do_not_block_when_full \in BOOLEAN
  /\ queue_closed \in BOOLEAN /\ shutdown \in BOOLEAN
  /\ queue \in Seq(Work)
  /\ cur_queue_size \in Int /\ num_threads_working \in Int
  /\ queue_lock \in Threads \cup {NoThread}
  /\ pc \in [Threads -> WorkerPC \cup ClientPC]
  /\ \A w \in Workers : pc[w] \in WorkerPC
  /\ \A c \in Clients : pc[c] \in ClientPC
  /\ my_work \in [Threads -> Work \cup {NoWork}]
  /\ node \in [Work -> {"new", "offered", "queued", "taken", "freed"}]
  /\ cancelled \subseteq Workers
  /\ cleanup \in {"idle", "loop", "returned"}
  /\ idx \in 0 .. NumThreads /\ sent \in 0 .. NumThreads
  /\ vouched \subseteq Clients

\* The counter the code decides on is the length of the list it links, the list never
\* outgrows max_queue_size, and it holds each queued item once and nothing else.
QueueMatchesSize ==
  /\ cur_queue_size = Len(queue)
  /\ Len(queue) <= max_queue_size
  /\ \A x \in Work : node[x] = "queued" <=> \E p \in 1 .. Len(queue) : queue[p] = x
  /\ \A p, q \in 1 .. Len(queue) : queue[p] = queue[q] => p = q

\* No item is in the hands of two threads: a worker handles an item that was taken from
\* the queue, a client one that it still offers, and nobody else handles it.
HandledByOne ==
  \A t \in Threads : my_work[t] # NoWork =>
    /\ node[my_work[t]] = IF t \in Workers THEN "taken" ELSE "offered"
    /\ \A u \in Threads : my_work[u] = my_work[t] => u = t

\* A worker that nobody has woken sleeps on an empty queue and a client that nobody has
\* woken on a full one, although tpool_add_work only broadcasts queue_not_empty when the
\* size leaves 0 and tpool_thread queue_not_full when it leaves max_queue_size in a pool
\* that blocks.
NoLostWakeup ==
  /\ \A w \in Workers : pc[w] = "wait" => cur_queue_size = 0
  /\ \A c \in Clients : pc[c] = "wait" => Full /\ ~do_not_block_when_full

\* num_threads_working counts the items that were taken and not given back as freed and
\* the workers about to report the end of theirs: a worker cancelled inside its handler
\* stays counted for ever.
WorkingCount ==
  num_threads_working =
    Cardinality({x \in Work : node[x] = "taken"}) + Cardinality({w \in Workers : pc[w] = "done"})

\* The items whose handler was cancelled: their nodes are not freed.
Lost == {x \in Work : node[x] = "taken" /\ \A w \in Workers : my_work[w] # x}
Exited == {w \in Workers : pc[w] = "dead"}

\* What cancelled handlers leave behind is bounded and told: nothing is lost before
\* tpool_cleanup, no more than one item with each worker that exits, and once tpool_cleanup
\* has returned num_threads_working says how many were lost. All else that was taken was
\* completed.
LossIsTold ==
  /\ Lost # {} => cleanup # "idle"
  /\ Cardinality(Lost) <= Cardinality(Exited)
  /\ cleanup = "returned" => num_threads_working = Cardinality(Lost)

\* When tpool_cleanup has returned every worker has exited.
CleanedUpMeansDead == cleanup = "returned" => \A w \in Workers : pc[w] = "dead"

\* When tpool_add_work returns to a client that tpool_full_check told 1, having released
\* the lock, the item is queued: no other client has added work in between, the pool is
\* open, and workers only make room.
VouchedIsNotRefused ==
  [][\A c \in Clients :
       /\ pc[c] = "test" /\ pc'[c] = "idle" /\ queue_lock' # c
       /\ c \in vouched /\ ~Closed
       => cur_queue_size' = cur_queue_size + 1]_vars

\* The pool is a first-in first-out queue bounded by max_queue_size that starts and
\* completes each item at most once.
Queue == INSTANCE WorkQueue WITH
  bound     <- max_queue_size,
  pending   <- queue,
  started   <- {x \in Work : node[x] = "taken"},
  completed <- {x \in Work : node[x] = "freed"}
ImplementsWorkQueue == Queue!Spec

\* A client never returns from tpool_add_work, and no thread exits, with queue_lock held.
NobodyLeavesWithTheLock ==
  \A t \in Threads : pc[t] \in {"idle", "dead"} => queue_lock # t

\* Without cancellation every item that was queued is completed in the end, unless the
\* pool is shut down: no wakeup is lost and no worker keeps the lock.
QueuedIsCompleted ==
  \A x \in Work : node[x] = "queued" ~> node[x] = "freed" \/ shutdown

\* Without shutdown a call of tpool_add_work returns, also when it had to wait for room
\* and when the queue is closed while it waits.
AddWorkReturns ==
  \A c \in Clients : pc[c] = "lock" ~> pc[c] = "idle" \/ shutdown

\* A shutdown that finds work in the queue makes every worker exit, since none of them
\* sleeps then (a worker that sleeps on an empty queue is not told).
ShutdownWithBacklogEndsWorkers ==
  shutdown /\ cur_queue_size # 0 ~> \A w \in Workers : pc[w] = "dead"
=============================================================================
