-------------------------- MODULE ThreadPoolProofs --------------------------
(***************************************************************************)
(* Proofs about the thread pool, for every number of workers, set of       *)
(* clients and items, queue size and failure: the inductive invariant      *)
(* PoolInv, the invariants and the action property that follow from it,    *)
(* that the pool implements WorkQueue; and for its life from init to       *)
(* tpool_destroyEx the invariant LifeInv and what follows from that.       *)
(***************************************************************************)
EXTENDS PoolLifecycle, FiniteSetTheorems, SequenceTheorems, TLAPS

-----------------------------------------------------------------------------
(* What PoolInv adds to the properties of ThreadPool to make them inductive. *)

\* A thread has an item in its hands exactly while it offers it or runs its handler.
HandsInv ==
  \A t \in Threads :
    my_work[t] # NoWork <=>
      \/ t \in Workers /\ pc[t] = "run"
      \/ t \in Clients /\ pc[t] \in {"lock", "test", "wait", "woken"}

\* Whoever looks at the queue holds its lock.
LockInv == \A t \in Threads : pc[t] = "test" => queue_lock = t

\* A round of tpool_cleanup that has sent no request so far has met only dead workers.
SweepInv ==
  /\ sent <= idx
  /\ cleanup = "loop" /\ sent = 0 => \A w \in Workers : w < idx => pc[w] = "dead"
  /\ CleanedUpMeansDead

\* A vouched client would not be told 0 by tpool_full_check now.
VouchInv == vouched # {} => FullCheckResult

PoolInv ==
  /\ TypeOK
  /\ HandsInv
  /\ HandledByOne
  /\ LockInv
  /\ QueueMatchesSize
  /\ NoLostWakeup
  /\ SweepInv
  /\ VouchInv

\* The initial states satisfy PoolInv.
LEMMA InitPoolInv == Init => PoolInv
<1> SUFFICES ASSUME Init PROVE PoolInv
  OBVIOUS
<1> USE PoolAssumption DEF PoolAssumption, Init
<1>1. TypeOK
  <2>1. /\ pc \in [Threads -> WorkerPC \cup ClientPC]
        /\ \A w \in Workers : pc[w] \in WorkerPC
        /\ \A c \in Clients : pc[c] \in ClientPC
    BY DEF Threads, WorkerPC, ClientPC
  <2>2. idx \in 0 .. NumThreads /\ sent \in 0 .. NumThreads
    OBVIOUS
  <2>3. my_work \in [Threads -> Work \cup {NoWork}]
    OBVIOUS
  <2>4. node \in [Work -> {"new", "offered", "queued", "taken", "freed"}]
    OBVIOUS
  <2>5. queue \in Seq(Work)
    OBVIOUS
  <2>6. queue_closed \in BOOLEAN /\ shutdown \in BOOLEAN
    OBVIOUS
  <2>7. /\ cur_queue_size \in Int /\ num_threads_working \in Int
        /\ queue_lock \in Threads \cup {NoThread}
        /\ cancelled \subseteq Workers /\ vouched \subseteq Clients
        /\ cleanup \in {"idle", "loop", "returned"}
    OBVIOUS
  <2>8. max_queue_size \in QueueSizes /\ do_not_block_when_full \in BOOLEAN
    OBVIOUS
  <2> QED
    BY <2>1, <2>2, <2>3, <2>4, <2>5, <2>6, <2>7, <2>8 DEF TypeOK
<1>2. HandsInv
  BY DEF HandsInv, Threads
<1>3. HandledByOne
  BY DEF HandledByOne
<1>4. LockInv
  BY DEF LockInv
<1>5. QueueMatchesSize
  BY DEF QueueMatchesSize
<1>6. NoLostWakeup
  BY DEF NoLostWakeup, Threads
<1>7. SweepInv
  BY DEF SweepInv, CleanedUpMeansDead, Workers
<1>8. VouchInv
  BY DEF VouchInv
<1> QED
  BY <1>1, <1>2, <1>3, <1>4, <1>5, <1>6, <1>7, <1>8 DEF PoolInv

\* Taking queue_lock, at the start of an operation or after a wakeup, keeps PoolInv.
LEMMA LockPoolInv ==
  ASSUME NEW t \in Threads, PoolInv, Lock(t)
  PROVE  PoolInv'
<1> USE PoolAssumption DEF PoolAssumption, PoolInv, Lock, Goto, fixed, flags, fields, owner
<1>1. TypeOK'
  BY DEF TypeOK, WorkerPC, ClientPC, Threads, Workers
<1>2. HandsInv'
  BY DEF HandsInv, TypeOK, Threads
<1>3. HandledByOne'
  BY DEF HandledByOne, HandsInv, TypeOK, Threads
<1>4. LockInv'
  BY DEF LockInv, TypeOK, Threads
<1>5. QueueMatchesSize'
  BY DEF QueueMatchesSize, TypeOK, HandsInv, HandledByOne, Threads
<1>6. NoLostWakeup'
  BY DEF NoLostWakeup, TypeOK, Threads, Full, QueueMatchesSize, LockInv
<1>7. SweepInv'
  BY DEF SweepInv, CleanedUpMeansDead, TypeOK, Threads, Workers
<1>8. VouchInv'
  BY DEF VouchInv, FullCheckResult, Full, TypeOK, QueueMatchesSize
<1> QED
  BY <1>1, <1>2, <1>3, <1>4, <1>5, <1>6, <1>7, <1>8

\* A wakeup without a broadcast keeps PoolInv.
LEMMA SpuriousWakeupPoolInv ==
  ASSUME NEW t \in Threads, PoolInv, SpuriousWakeup(t)
  PROVE  PoolInv'
<1> USE PoolAssumption DEF PoolAssumption, PoolInv, SpuriousWakeup, Goto, fixed, flags, fields, owner
<1>1. TypeOK'
  BY DEF TypeOK, WorkerPC, ClientPC, Threads, Workers
<1>2. HandsInv'
  BY DEF HandsInv, TypeOK, Threads
<1>3. HandledByOne'
  BY DEF HandledByOne, HandsInv, TypeOK, Threads
<1>4. LockInv'
  BY DEF LockInv, TypeOK, Threads
<1>5. QueueMatchesSize'
  BY DEF QueueMatchesSize, TypeOK, HandsInv, HandledByOne, Threads
<1>6. NoLostWakeup'
  BY DEF NoLostWakeup, TypeOK, Threads, Full, QueueMatchesSize, LockInv
<1>7. SweepInv'
  BY DEF SweepInv, CleanedUpMeansDead, TypeOK, Threads, Workers
<1>8. VouchInv'
  BY DEF VouchInv, FullCheckResult, Full, TypeOK, QueueMatchesSize
<1> QED
  BY <1>1, <1>2, <1>3, <1>4, <1>5, <1>6, <1>7, <1>8

\* A worker at its cancellation point keeps PoolInv.
LEMMA TestCancelPoolInv ==
  ASSUME NEW w \in Workers, PoolInv, TestCancel(w)
  PROVE  PoolInv'
<1> USE PoolAssumption DEF PoolAssumption, PoolInv, TestCancel, Leave, Goto, fixed, flags, fields, owner
<1>1. TypeOK'
  BY DEF TypeOK, WorkerPC, ClientPC, Threads, Workers
<1>2. HandsInv'
  BY DEF HandsInv, TypeOK, Threads
<1>3. HandledByOne'
  BY DEF HandledByOne, HandsInv, TypeOK, Threads
<1>4. LockInv'
  BY DEF LockInv, TypeOK, Threads
<1>5. QueueMatchesSize'
  BY DEF QueueMatchesSize, TypeOK, HandsInv, HandledByOne, Threads
<1>6. NoLostWakeup'
  BY DEF NoLostWakeup, TypeOK, Threads, Full, QueueMatchesSize, LockInv
<1>7. SweepInv'
  BY DEF SweepInv, CleanedUpMeansDead, TypeOK, Threads, Workers
<1>8. VouchInv'
  BY DEF VouchInv, FullCheckResult, Full, TypeOK, QueueMatchesSize
<1> QED
  BY <1>1, <1>2, <1>3, <1>4, <1>5, <1>6, <1>7, <1>8

\* A worker that goes to sleep keeps PoolInv: the queue is empty.
LEMMA WaitForWorkPoolInv ==
  ASSUME NEW w \in Workers, PoolInv, WaitForWork(w)
  PROVE  PoolInv'
<1> USE PoolAssumption DEF PoolAssumption, PoolInv, WaitForWork, Holds, Goto, fixed, flags, fields, owner
<1>1. TypeOK'
  BY DEF TypeOK, WorkerPC, ClientPC, Threads, Workers
<1>2. HandsInv'
  BY DEF HandsInv, TypeOK, Threads
<1>3. HandledByOne'
  BY DEF HandledByOne, HandsInv, TypeOK, Threads
<1>4. LockInv'
  BY DEF LockInv, TypeOK, Threads
<1>5. QueueMatchesSize'
  BY DEF QueueMatchesSize
<1>6. NoLostWakeup'
  BY DEF NoLostWakeup, TypeOK, Threads, Full, QueueMatchesSize, LockInv
<1>7. SweepInv'
  BY DEF SweepInv, CleanedUpMeansDead, TypeOK, Threads, Workers
<1>8. VouchInv'
  BY DEF VouchInv, FullCheckResult, Full, TypeOK, QueueMatchesSize
<1> QED
  BY <1>1, <1>2, <1>3, <1>4, <1>5, <1>6, <1>7, <1>8

\* A worker cancelled in its sleep keeps PoolInv, whatever its handler unlocks.
LEMMA CancelWaitPoolInv ==
  ASSUME NEW w \in Workers, PoolInv, CancelWait(w)
  PROVE  PoolInv'
<1> USE PoolAssumption DEF PoolAssumption, PoolInv, CancelWait, Leave, Goto, fixed, flags, fields, owner
<1>1. TypeOK'
  BY DEF TypeOK, WorkerPC, ClientPC, Threads, Workers
<1>2. HandsInv'
  BY DEF HandsInv, TypeOK, Threads
<1>3. HandledByOne'
  BY DEF HandledByOne, HandsInv, TypeOK, Threads
<1>4. LockInv'
  BY DEF LockInv, TypeOK, Threads
<1>5. QueueMatchesSize'
  BY DEF QueueMatchesSize, TypeOK, HandsInv, HandledByOne, Threads
<1>6. NoLostWakeup'
  BY DEF NoLostWakeup, TypeOK, Threads, Full, QueueMatchesSize, LockInv
<1>7. SweepInv'
  BY DEF SweepInv, CleanedUpMeansDead, TypeOK, Threads, Workers
<1>8. VouchInv'
  BY DEF VouchInv, FullCheckResult, Full, TypeOK, QueueMatchesSize
<1> QED
  BY <1>1, <1>2, <1>3, <1>4, <1>5, <1>6, <1>7, <1>8

\* A worker that exits on shutdown keeps PoolInv.
LEMMA LeaveOnShutdownPoolInv ==
  ASSUME NEW w \in Workers, PoolInv, LeaveOnShutdown(w)
  PROVE  PoolInv'
<1> USE PoolAssumption DEF PoolAssumption, PoolInv, LeaveOnShutdown, Holds, Goto, fixed, flags, fields, owner
<1>1. TypeOK'
  BY DEF TypeOK, WorkerPC, ClientPC, Threads, Workers
<1>2. HandsInv'
  BY DEF HandsInv, TypeOK, Threads
<1>3. HandledByOne'
  BY DEF HandledByOne, HandsInv, TypeOK, Threads
<1>4. LockInv'
  BY DEF LockInv, TypeOK, Threads
<1>5. QueueMatchesSize'
  BY DEF QueueMatchesSize, TypeOK, HandsInv, HandledByOne, Threads
<1>6. NoLostWakeup'
  BY DEF NoLostWakeup, TypeOK, Threads, Full, QueueMatchesSize, LockInv
<1>7. SweepInv'
  BY DEF SweepInv, CleanedUpMeansDead, TypeOK, Threads, Workers
<1>8. VouchInv'
  BY DEF VouchInv, FullCheckResult, Full, TypeOK, QueueMatchesSize
<1> QED
  BY <1>1, <1>2, <1>3, <1>4, <1>5, <1>6, <1>7, <1>8

\* Taking the head of the queue keeps PoolInv: whoever waited for room is woken.
LEMMA TakeWorkPoolInv ==
  ASSUME NEW w \in Workers, PoolInv, TakeWork(w)
  PROVE  PoolInv'
<1> USE PoolAssumption DEF PoolAssumption, PoolInv, TakeWork, TakeWakes, Dequeued, GotoWaking, Holds, fixed, flags, fields, owner
<1>a. /\ queue # <<>> /\ Head(queue) = queue[1] /\ Head(queue) \in Work
     /\ cur_queue_size = Len(queue) /\ Len(queue) \in Nat /\ Len(queue) <= max_queue_size
     /\ node[Head(queue)] = "queued"
  BY HeadTailProperties, LenProperties, EmptySeq DEF TypeOK, QueueMatchesSize
<1>b. /\ queue' = Tail(queue) /\ queue' \in Seq(Work) /\ Len(queue') = Len(queue) - 1
     /\ \A p \in 1 .. Len(queue') : queue'[p] = queue[p + 1]
  BY <1>a, HeadTailProperties, EmptySeq DEF TypeOK
<1>c. \A t \in Threads : my_work[t] # Head(queue)
  BY <1>a DEF HandledByOne
<1>1. TypeOK'
  <2>1. my_work' \in [Threads -> Work \cup {NoWork}]
    BY <1>a DEF TypeOK, Threads
  <2>2. node' \in [Work -> {"new", "offered", "queued", "taken", "freed"}]
    BY <1>a DEF TypeOK
  <2>3. /\ pc' \in [Threads -> WorkerPC \cup ClientPC]
        /\ \A u \in Workers : pc'[u] \in WorkerPC
        /\ \A c \in Clients : pc'[c] \in ClientPC
    BY DEF TypeOK, Threads, WorkerPC, ClientPC
  <2>4. cur_queue_size' \in Int /\ num_threads_working' \in Int /\ queue' \in Seq(Work)
    BY <1>b DEF TypeOK
  <2> QED
    BY <2>1, <2>2, <2>3, <2>4 DEF TypeOK
<1>2. HandsInv'
  BY <1>a DEF HandsInv, TypeOK, Threads
<1>3. HandledByOne'
  BY <1>a, <1>c DEF HandledByOne, TypeOK, Threads
<1>4. LockInv'
  BY DEF LockInv, TypeOK, Threads
<1>5. QueueMatchesSize'
  <2>1. cur_queue_size' = Len(queue') /\ Len(queue') <= max_queue_size'
    BY <1>a, <1>b DEF TypeOK
  <2>2. ASSUME NEW p \in 1 .. Len(queue'), NEW q \in 1 .. Len(queue'), queue'[p] = queue'[q]
        PROVE  p = q
    BY <2>2, <1>a, <1>b DEF QueueMatchesSize
  <2>3. ASSUME NEW x \in Work
        PROVE  node'[x] = "queued" <=> \E p \in 1 .. Len(queue') : queue'[p] = x
    <3>1. CASE x = Head(queue)
      <4>1. node'[x] = "taken"
        BY <3>1, <1>a DEF TypeOK
      <4>2. ASSUME NEW p \in 1 .. Len(queue'), queue'[p] = x
            PROVE  FALSE
        BY <4>2, <3>1, <1>a, <1>b DEF QueueMatchesSize
      <4> QED
        BY <4>1, <4>2
    <3>2. CASE x # Head(queue)
      <4>1. node'[x] = node[x]
        BY <3>2, <1>a DEF TypeOK
      <4>2. ASSUME NEW p \in 1 .. Len(queue), queue[p] = x
            PROVE  \E q \in 1 .. Len(queue') : queue'[q] = x
        <5>1. p # 1
          BY <4>2, <3>2, <1>a
        <5>2. p - 1 \in 1 .. Len(queue') /\ queue'[p - 1] = x
          BY <4>2, <5>1, <1>a, <1>b
        <5> QED
          BY <5>2
      <4>3. ASSUME NEW p \in 1 .. Len(queue'), queue'[p] = x
            PROVE  \E q \in 1 .. Len(queue) : queue[q] = x
        <5>1. p + 1 \in 1 .. Len(queue) /\ queue[p + 1] = x
          BY <4>3, <1>a, <1>b
        <5> QED
          BY <5>1
      <4> QED
        BY <4>1, <4>2, <4>3 DEF QueueMatchesSize
    <3> QED
      BY <3>1, <3>2
  <2> QED
    BY <2>1, <2>2, <2>3 DEF QueueMatchesSize
<1>6. NoLostWakeup'
  <2>1. \A u \in Workers : pc[u] # "wait" /\ pc'[u] # "wait"
    BY <1>a DEF NoLostWakeup, TypeOK, Threads
  <2>2. ASSUME NEW c \in Clients, pc'[c] = "wait"
        PROVE  Full' /\ ~do_not_block_when_full'
    <3>1. pc[c] = "wait" /\ c \notin TakeWakes
      BY <2>2 DEF TypeOK, Threads
    <3>2. Full /\ ~do_not_block_when_full
      BY <3>1 DEF NoLostWakeup
    <3> QED
      BY <3>1, <3>2, <1>a DEF TypeOK, Full
  <2> QED
    BY <2>1, <2>2 DEF NoLostWakeup
<1>7. SweepInv'
  BY DEF SweepInv, CleanedUpMeansDead, TypeOK, Threads, Workers
<1>8. VouchInv'
  BY DEF VouchInv, FullCheckResult, Full, TypeOK, QueueMatchesSize
<1> QED
  BY <1>1, <1>2, <1>3, <1>4, <1>5, <1>6, <1>7, <1>8

\* The end of a handler keeps PoolInv.
LEMMA HandlerReturnsPoolInv ==
  ASSUME NEW w \in Workers, PoolInv, HandlerReturns(w)
  PROVE  PoolInv'
<1> USE PoolAssumption DEF PoolAssumption, PoolInv, HandlerReturns, Goto, fixed, flags, fields, owner
<1>1. TypeOK'
  BY DEF TypeOK, WorkerPC, ClientPC, Threads, Workers
<1>2. HandsInv'
  BY DEF HandsInv, TypeOK, Threads
<1>3. HandledByOne'
  BY DEF HandledByOne, HandsInv, TypeOK, Threads
<1>4. LockInv'
  BY DEF LockInv, TypeOK, Threads
<1>5. QueueMatchesSize'
  BY DEF QueueMatchesSize, TypeOK, HandsInv, HandledByOne, Threads
<1>6. NoLostWakeup'
  BY DEF NoLostWakeup, TypeOK, Threads, Full, QueueMatchesSize, LockInv
<1>7. SweepInv'
  BY DEF SweepInv, CleanedUpMeansDead, TypeOK, Threads, Workers
<1>8. VouchInv'
  BY DEF VouchInv, FullCheckResult, Full, TypeOK, QueueMatchesSize
<1> QED
  BY <1>1, <1>2, <1>3, <1>4, <1>5, <1>6, <1>7, <1>8

\* A worker cancelled in its handler keeps PoolInv.
LEMMA CancelHandlerPoolInv ==
  ASSUME NEW w \in Workers, PoolInv, CancelHandler(w)
  PROVE  PoolInv'
<1> USE PoolAssumption DEF PoolAssumption, PoolInv, CancelHandler, Leave, Goto, fixed, flags, fields, owner
<1>1. TypeOK'
  BY DEF TypeOK, WorkerPC, ClientPC, Threads, Workers
<1>2. HandsInv'
  BY DEF HandsInv, TypeOK, Threads
<1>3. HandledByOne'
  BY DEF HandledByOne, HandsInv, TypeOK, Threads
<1>4. LockInv'
  BY DEF LockInv, TypeOK, Threads
<1>5. QueueMatchesSize'
  BY DEF QueueMatchesSize, TypeOK, HandsInv, HandledByOne, Threads
<1>6. NoLostWakeup'
  BY DEF NoLostWakeup, TypeOK, Threads, Full, QueueMatchesSize, LockInv
<1>7. SweepInv'
  BY DEF SweepInv, CleanedUpMeansDead, TypeOK, Threads, Workers
<1>8. VouchInv'
  BY DEF VouchInv, FullCheckResult, Full, TypeOK, QueueMatchesSize
<1> QED
  BY <1>1, <1>2, <1>3, <1>4, <1>5, <1>6, <1>7, <1>8

\* A worker that reports the end of its work keeps PoolInv.
LEMMA FinishWorkPoolInv ==
  ASSUME NEW w \in Workers, PoolInv, FinishWork(w)
  PROVE  PoolInv'
<1> USE PoolAssumption DEF PoolAssumption, PoolInv, FinishWork, Goto, fixed, flags, fields, owner
<1>1. TypeOK'
  BY DEF TypeOK, WorkerPC, ClientPC, Threads, Workers
<1>2. HandsInv'
  BY DEF HandsInv, TypeOK, Threads
<1>3. HandledByOne'
  BY DEF HandledByOne, HandsInv, TypeOK, Threads
<1>4. LockInv'
  BY DEF LockInv, TypeOK, Threads
<1>5. QueueMatchesSize'
  BY DEF QueueMatchesSize, TypeOK, HandsInv, HandledByOne, Threads
<1>6. NoLostWakeup'
  BY DEF NoLostWakeup, TypeOK, Threads, Full, QueueMatchesSize, LockInv
<1>7. SweepInv'
  BY DEF SweepInv, CleanedUpMeansDead, TypeOK, Threads, Workers
<1>8. VouchInv'
  BY DEF VouchInv, FullCheckResult, Full, TypeOK, QueueMatchesSize
<1> QED
  BY <1>1, <1>2, <1>3, <1>4, <1>5, <1>6, <1>7, <1>8

\* A call of tpool_add_work keeps PoolInv: nobody else has the item.
LEMMA CallAddWorkPoolInv ==
  ASSUME NEW c \in Clients, NEW x \in Work, PoolInv, CallAddWork(c, x)
  PROVE  PoolInv'
<1> USE PoolAssumption DEF PoolAssumption, PoolInv, CallAddWork, Goto, fixed, flags, fields, owner
<1>1. TypeOK'
  BY DEF TypeOK, WorkerPC, ClientPC, Threads, Workers
<1>2. HandsInv'
  BY DEF HandsInv, TypeOK, Threads
<1>3. HandledByOne'
  BY DEF HandledByOne, HandsInv, TypeOK, Threads
<1>4. LockInv'
  BY DEF LockInv, TypeOK, Threads
<1>5. QueueMatchesSize'
  BY DEF QueueMatchesSize, TypeOK, HandsInv, HandledByOne, Threads
<1>6. NoLostWakeup'
  BY DEF NoLostWakeup, TypeOK, Threads, Full, QueueMatchesSize, LockInv
<1>7. SweepInv'
  BY DEF SweepInv, CleanedUpMeansDead, TypeOK, Threads, Workers
<1>8. VouchInv'
  BY DEF VouchInv, FullCheckResult, Full, TypeOK, QueueMatchesSize
<1> QED
  BY <1>1, <1>2, <1>3, <1>4, <1>5, <1>6, <1>7, <1>8

\* The exit of a client that holds the lock it asks for keeps PoolInv.
LEMMA RelockPoolInv ==
  ASSUME NEW c \in Clients, PoolInv, Relock(c)
  PROVE  PoolInv'
<1> USE PoolAssumption DEF PoolAssumption, PoolInv, Relock, Goto, fixed, flags, fields, owner
<1>1. TypeOK'
  BY DEF TypeOK, WorkerPC, ClientPC, Threads, Workers
<1>2. HandsInv'
  BY DEF HandsInv, TypeOK, Threads
<1>3. HandledByOne'
  BY DEF HandledByOne, HandsInv, TypeOK, Threads
<1>4. LockInv'
  BY DEF LockInv, TypeOK, Threads
<1>5. QueueMatchesSize'
  BY DEF QueueMatchesSize, TypeOK, HandsInv, HandledByOne, Threads
<1>6. NoLostWakeup'
  BY DEF NoLostWakeup, TypeOK, Threads, Full, QueueMatchesSize, LockInv
<1>7. SweepInv'
  BY DEF SweepInv, CleanedUpMeansDead, TypeOK, Threads, Workers
<1>8. VouchInv'
  BY DEF VouchInv, FullCheckResult, Full, TypeOK, QueueMatchesSize
<1> QED
  BY <1>1, <1>2, <1>3, <1>4, <1>5, <1>6, <1>7, <1>8

\* A refusal by a full queue keeps PoolInv.
LEMMA RefuseFullPoolInv ==
  ASSUME NEW c \in Clients, PoolInv, RefuseFull(c)
  PROVE  PoolInv'
<1> USE PoolAssumption DEF PoolAssumption, PoolInv, RefuseFull, GiveBack, Holds, Goto, fixed, flags, fields, owner
<1>1. TypeOK'
  BY DEF TypeOK, WorkerPC, ClientPC, Threads, Workers
<1>2. HandsInv'
  BY DEF HandsInv, TypeOK, Threads
<1>3. HandledByOne'
  BY DEF HandledByOne, HandsInv, TypeOK, Threads
<1>4. LockInv'
  BY DEF LockInv, TypeOK, Threads
<1>5. QueueMatchesSize'
  BY DEF QueueMatchesSize, TypeOK, HandsInv, HandledByOne, Threads
<1>6. NoLostWakeup'
  BY DEF NoLostWakeup, TypeOK, Threads, Full, QueueMatchesSize, LockInv
<1>7. SweepInv'
  BY DEF SweepInv, CleanedUpMeansDead, TypeOK, Threads, Workers
<1>8. VouchInv'
  BY DEF VouchInv, FullCheckResult, Full, TypeOK, QueueMatchesSize
<1> QED
  BY <1>1, <1>2, <1>3, <1>4, <1>5, <1>6, <1>7, <1>8

\* A client that goes to sleep keeps PoolInv: the queue is full.
LEMMA WaitForRoomPoolInv ==
  ASSUME NEW c \in Clients, PoolInv, WaitForRoom(c)
  PROVE  PoolInv'
<1> USE PoolAssumption DEF PoolAssumption, PoolInv, WaitForRoom, Holds, Goto, fixed, flags, fields, owner
<1>1. TypeOK'
  BY DEF TypeOK, WorkerPC, ClientPC, Threads, Workers
<1>2. HandsInv'
  BY DEF HandsInv, TypeOK, Threads
<1>3. HandledByOne'
  BY DEF HandledByOne, HandsInv, TypeOK, Threads
<1>4. LockInv'
  BY DEF LockInv, TypeOK, Threads
<1>5. QueueMatchesSize'
  BY DEF QueueMatchesSize, TypeOK, HandsInv, HandledByOne, Threads
<1>6. NoLostWakeup'
  BY DEF NoLostWakeup, TypeOK, Threads, Full, QueueMatchesSize, LockInv
<1>7. SweepInv'
  BY DEF SweepInv, CleanedUpMeansDead, TypeOK, Threads, Workers
<1>8. VouchInv'
  BY DEF VouchInv, FullCheckResult, Full, TypeOK, QueueMatchesSize
<1> QED
  BY <1>1, <1>2, <1>3, <1>4, <1>5, <1>6, <1>7, <1>8

\* A refusal by a closed pool keeps PoolInv.
LEMMA RefuseClosedPoolInv ==
  ASSUME NEW c \in Clients, PoolInv, RefuseClosed(c)
  PROVE  PoolInv'
<1> USE PoolAssumption DEF PoolAssumption, PoolInv, RefuseClosed, GiveBack, Holds, Goto, fixed, flags, fields, owner
<1>1. TypeOK'
  BY DEF TypeOK, WorkerPC, ClientPC, Threads, Workers
<1>2. HandsInv'
  BY DEF HandsInv, TypeOK, Threads
<1>3. HandledByOne'
  BY DEF HandledByOne, HandsInv, TypeOK, Threads
<1>4. LockInv'
  BY DEF LockInv, TypeOK, Threads
<1>5. QueueMatchesSize'
  BY DEF QueueMatchesSize, TypeOK, HandsInv, HandledByOne, Threads
<1>6. NoLostWakeup'
  BY DEF NoLostWakeup, TypeOK, Threads, Full, QueueMatchesSize, LockInv
<1>7. SweepInv'
  BY DEF SweepInv, CleanedUpMeansDead, TypeOK, Threads, Workers
<1>8. VouchInv'
  BY DEF VouchInv, FullCheckResult, Full, TypeOK, QueueMatchesSize
<1> QED
  BY <1>1, <1>2, <1>3, <1>4, <1>5, <1>6, <1>7, <1>8

\* A failed allocation keeps PoolInv.
LEMMA AllocFailsPoolInv ==
  ASSUME NEW c \in Clients, PoolInv, AllocFails(c)
  PROVE  PoolInv'
<1> USE PoolAssumption DEF PoolAssumption, PoolInv, AllocFails, GiveBack, Holds, Goto, fixed, flags, fields, owner
<1>1. TypeOK'
  BY DEF TypeOK, WorkerPC, ClientPC, Threads, Workers
<1>2. HandsInv'
  BY DEF HandsInv, TypeOK, Threads
<1>3. HandledByOne'
  BY DEF HandledByOne, HandsInv, TypeOK, Threads
<1>4. LockInv'
  BY DEF LockInv, TypeOK, Threads
<1>5. QueueMatchesSize'
  BY DEF QueueMatchesSize, TypeOK, HandsInv, HandledByOne, Threads
<1>6. NoLostWakeup'
  BY DEF NoLostWakeup, TypeOK, Threads, Full, QueueMatchesSize, LockInv
<1>7. SweepInv'
  BY DEF SweepInv, CleanedUpMeansDead, TypeOK, Threads, Workers
<1>8. VouchInv'
  BY DEF VouchInv, FullCheckResult, Full, TypeOK, QueueMatchesSize
<1> QED
  BY <1>1, <1>2, <1>3, <1>4, <1>5, <1>6, <1>7, <1>8

\* Adding an item at the tail keeps PoolInv: whoever waited for work is woken.
LEMMA EnqueuePoolInv ==
  ASSUME NEW c \in Clients, PoolInv, Enqueue(c)
  PROVE  PoolInv'
<1> USE PoolAssumption DEF PoolAssumption, PoolInv, Enqueue, AddWakes, Enqueued, GotoWaking, Holds, fixed, flags, fields, owner
<1>a. my_work[c] \in Work /\ node[my_work[c]] = "offered" /\ c \in Threads \ Workers
  BY DEF TypeOK, HandsInv, HandledByOne, Threads
<1>b. /\ cur_queue_size = Len(queue) /\ Len(queue) \in Nat
     /\ Len(queue) < max_queue_size /\ queue \in Seq(Work)
  BY LenProperties DEF TypeOK, QueueMatchesSize, Full
<1>c. /\ queue' = Append(queue, my_work[c])
     /\ queue' \in Seq(Work) /\ Len(queue') = Len(queue) + 1
     /\ queue'[Len(queue) + 1] = my_work[c]
     /\ \A p \in 1 .. Len(queue) : queue'[p] = queue[p]
  <2>1. queue' = Append(queue, my_work[c])
    <3>1. CASE cur_queue_size = 0
      <4>1. queue = <<>>
        BY <3>1, <1>b, EmptySeq
      <4> QED
        BY <4>1, <3>1
    <3>2. CASE cur_queue_size # 0
      BY <3>2
    <3> QED
      BY <3>1, <3>2
  <2> QED
    BY <2>1, <1>a, <1>b, AppendProperties
<1>1. TypeOK'
  <2>1. my_work' \in [Threads -> Work \cup {NoWork}]
    BY <1>a DEF TypeOK, Threads
  <2>2. node' \in [Work -> {"new", "offered", "queued", "taken", "freed"}]
    BY <1>a DEF TypeOK
  <2>3. /\ pc' \in [Threads -> WorkerPC \cup ClientPC]
        /\ \A u \in Workers : pc'[u] \in WorkerPC
        /\ \A u \in Clients : pc'[u] \in ClientPC
    BY DEF TypeOK, Threads, WorkerPC, ClientPC
  <2>4. cur_queue_size' \in Int /\ num_threads_working' \in Int /\ queue' \in Seq(Work)
    BY <1>c DEF TypeOK
  <2> QED
    BY <2>1, <2>2, <2>3, <2>4 DEF TypeOK
<1>2. HandsInv'
  BY DEF HandsInv, TypeOK, Threads
<1>3. HandledByOne'
  BY DEF HandledByOne, HandsInv, TypeOK, Threads
<1>4. LockInv'
  BY DEF LockInv, TypeOK, Threads
<1>5. QueueMatchesSize'
  <2>1. cur_queue_size' = Len(queue') /\ Len(queue') <= max_queue_size'
    BY <1>b, <1>c DEF TypeOK
  <2>2. \A p \in 1 .. Len(queue) : queue[p] # my_work[c]
    BY <1>a DEF QueueMatchesSize
  <2>3. ASSUME NEW p \in 1 .. Len(queue'), NEW q \in 1 .. Len(queue'), queue'[p] = queue'[q]
        PROVE  p = q
    BY <2>2, <2>3, <1>b, <1>c DEF QueueMatchesSize
  <2>4. ASSUME NEW x \in Work
        PROVE  node'[x] = "queued" <=> \E p \in 1 .. Len(queue') : queue'[p] = x
    <3>1. CASE x = my_work[c]
      <4>1. node'[x] = "queued"
        BY <3>1, <1>a DEF TypeOK
      <4>2. Len(queue) + 1 \in 1 .. Len(queue') /\ queue'[Len(queue) + 1] = x
        BY <3>1, <1>b, <1>c
      <4> QED
        BY <4>1, <4>2
    <3>2. CASE x # my_work[c]
      <4>1. node'[x] = node[x]
        BY <3>2 DEF TypeOK
      <4>2. (\E p \in 1 .. Len(queue') : queue'[p] = x)
              <=> \E p \in 1 .. Len(queue) : queue[p] = x
        BY <3>2, <1>b, <1>c
      <4> QED
        BY <4>1, <4>2 DEF QueueMatchesSize
    <3> QED
      BY <3>1, <3>2
  <2> QED
    BY <2>1, <2>3, <2>4 DEF QueueMatchesSize
<1>6. NoLostWakeup'
  BY DEF NoLostWakeup, TypeOK, Threads, Full, QueueMatchesSize, LockInv
<1>7. SweepInv'
  BY DEF SweepInv, CleanedUpMeansDead, TypeOK, Threads, Workers
<1>8. VouchInv'
  BY DEF VouchInv, FullCheckResult, Full, TypeOK, QueueMatchesSize
<1> QED
  BY <1>1, <1>2, <1>3, <1>4, <1>5, <1>6, <1>7, <1>8

\* tpool_full_check keeps PoolInv.
LEMMA FullCheckPoolInv ==
  ASSUME NEW c \in Clients, PoolInv, FullCheck(c)
  PROVE  PoolInv'
<1> USE PoolAssumption DEF PoolAssumption, PoolInv, FullCheck, FullCheckResult, fixed, flags, fields, owner
<1>1. TypeOK'
  BY DEF TypeOK, WorkerPC, ClientPC, Threads, Workers
<1>2. HandsInv'
  BY DEF HandsInv, TypeOK, Threads
<1>3. HandledByOne'
  BY DEF HandledByOne, HandsInv, TypeOK, Threads
<1>4. LockInv'
  BY DEF LockInv, TypeOK, Threads
<1>5. QueueMatchesSize'
  BY DEF QueueMatchesSize, TypeOK, HandsInv, HandledByOne, Threads
<1>6. NoLostWakeup'
  BY DEF NoLostWakeup, TypeOK, Threads, Full, QueueMatchesSize, LockInv
<1>7. SweepInv'
  BY DEF SweepInv, CleanedUpMeansDead, TypeOK, Threads, Workers
<1>8. VouchInv'
  BY DEF VouchInv, FullCheckResult, Full, TypeOK, QueueMatchesSize
<1> QED
  BY <1>1, <1>2, <1>3, <1>4, <1>5, <1>6, <1>7, <1>8

\* A call of tpool_cleanup keeps PoolInv.
LEMMA CallCleanupPoolInv ==
  ASSUME PoolInv, CallCleanup
  PROVE  PoolInv'
<1> USE PoolAssumption DEF PoolAssumption, PoolInv, CallCleanup, fixed, flags, fields, owner
<1>1. TypeOK'
  BY DEF TypeOK, WorkerPC, ClientPC, Threads, Workers
<1>2. HandsInv'
  BY DEF HandsInv, TypeOK, Threads
<1>3. HandledByOne'
  BY DEF HandledByOne, HandsInv, TypeOK, Threads
<1>4. LockInv'
  BY DEF LockInv, TypeOK, Threads
<1>5. QueueMatchesSize'
  BY DEF QueueMatchesSize, TypeOK, HandsInv, HandledByOne, Threads
<1>6. NoLostWakeup'
  BY DEF NoLostWakeup, TypeOK, Threads, Full, QueueMatchesSize, LockInv
<1>7. SweepInv'
  BY DEF SweepInv, CleanedUpMeansDead, TypeOK, Threads, Workers
<1>8. VouchInv'
  BY DEF VouchInv, FullCheckResult, Full, TypeOK, QueueMatchesSize
<1> QED
  BY <1>1, <1>2, <1>3, <1>4, <1>5, <1>6, <1>7, <1>8

\* A turn of the loop of tpool_cleanup keeps PoolInv.
LEMMA CancelNextPoolInv ==
  ASSUME PoolInv, CancelNext
  PROVE  PoolInv'
<1> USE PoolAssumption DEF PoolAssumption, PoolInv, CancelNext, fixed, flags, fields, owner
<1>1. TypeOK'
  <2>1. idx' \in 0 .. NumThreads /\ sent' \in 0 .. NumThreads /\ idx \in Workers
    BY DEF TypeOK, SweepInv, Workers
  <2>2. cancelled' \subseteq Workers
    BY <2>1 DEF TypeOK
  <2> QED
    BY <2>1, <2>2 DEF TypeOK
<1>2. HandsInv'
  BY DEF HandsInv, TypeOK, Threads
<1>3. HandledByOne'
  BY DEF HandledByOne, HandsInv, TypeOK, Threads
<1>4. LockInv'
  BY DEF LockInv, TypeOK, Threads
<1>5. QueueMatchesSize'
  BY DEF QueueMatchesSize, TypeOK, HandsInv, HandledByOne, Threads
<1>6. NoLostWakeup'
  BY DEF NoLostWakeup, TypeOK, Threads, Full, QueueMatchesSize, LockInv
<1>7. SweepInv'
  BY DEF SweepInv, CleanedUpMeansDead, TypeOK, Threads, Workers
<1>8. VouchInv'
  BY DEF VouchInv, FullCheckResult, Full, TypeOK, QueueMatchesSize
<1> QED
  BY <1>1, <1>2, <1>3, <1>4, <1>5, <1>6, <1>7, <1>8

\* The end of a round of tpool_cleanup keeps PoolInv.
LEMMA EndRoundPoolInv ==
  ASSUME PoolInv, EndRound
  PROVE  PoolInv'
<1> USE PoolAssumption DEF PoolAssumption, PoolInv, EndRound, fixed, flags, fields, owner
<1>1. TypeOK'
  BY DEF TypeOK, WorkerPC, ClientPC, Threads, Workers
<1>2. HandsInv'
  BY DEF HandsInv, TypeOK, Threads
<1>3. HandledByOne'
  BY DEF HandledByOne, HandsInv, TypeOK, Threads
<1>4. LockInv'
  BY DEF LockInv, TypeOK, Threads
<1>5. QueueMatchesSize'
  BY DEF QueueMatchesSize, TypeOK, HandsInv, HandledByOne, Threads
<1>6. NoLostWakeup'
  BY DEF NoLostWakeup, TypeOK, Threads, Full, QueueMatchesSize, LockInv
<1>7. SweepInv'
  BY DEF SweepInv, CleanedUpMeansDead, TypeOK, Threads, Workers
<1>8. VouchInv'
  BY DEF VouchInv, FullCheckResult, Full, TypeOK, QueueMatchesSize
<1> QED
  BY <1>1, <1>2, <1>3, <1>4, <1>5, <1>6, <1>7, <1>8

\* Setting shutdown keeps PoolInv.
LEMMA SetShutdownPoolInv ==
  ASSUME PoolInv, SetShutdown
  PROVE  PoolInv'
<1> USE PoolAssumption DEF PoolAssumption, PoolInv, SetShutdown, fixed, flags, fields, owner
<1>1. TypeOK'
  BY DEF TypeOK, WorkerPC, ClientPC, Threads, Workers
<1>2. HandsInv'
  BY DEF HandsInv, TypeOK, Threads
<1>3. HandledByOne'
  BY DEF HandledByOne, HandsInv, TypeOK, Threads
<1>4. LockInv'
  BY DEF LockInv, TypeOK, Threads
<1>5. QueueMatchesSize'
  BY DEF QueueMatchesSize, TypeOK, HandsInv, HandledByOne, Threads
<1>6. NoLostWakeup'
  BY DEF NoLostWakeup, TypeOK, Threads, Full, QueueMatchesSize, LockInv
<1>7. SweepInv'
  BY DEF SweepInv, CleanedUpMeansDead, TypeOK, Threads, Workers
<1>8. VouchInv'
  BY DEF VouchInv, FullCheckResult, Full, TypeOK, QueueMatchesSize
<1> QED
  BY <1>1, <1>2, <1>3, <1>4, <1>5, <1>6, <1>7, <1>8

\* Setting queue_closed keeps PoolInv.
LEMMA CloseQueuePoolInv ==
  ASSUME PoolInv, CloseQueue
  PROVE  PoolInv'
<1> USE PoolAssumption DEF PoolAssumption, PoolInv, CloseQueue, fixed, flags, fields, owner
<1>1. TypeOK'
  BY DEF TypeOK, WorkerPC, ClientPC, Threads, Workers
<1>2. HandsInv'
  BY DEF HandsInv, TypeOK, Threads
<1>3. HandledByOne'
  BY DEF HandledByOne, HandsInv, TypeOK, Threads
<1>4. LockInv'
  BY DEF LockInv, TypeOK, Threads
<1>5. QueueMatchesSize'
  BY DEF QueueMatchesSize, TypeOK, HandsInv, HandledByOne, Threads
<1>6. NoLostWakeup'
  BY DEF NoLostWakeup, TypeOK, Threads, Full, QueueMatchesSize, LockInv
<1>7. SweepInv'
  BY DEF SweepInv, CleanedUpMeansDead, TypeOK, Threads, Workers
<1>8. VouchInv'
  BY DEF VouchInv, FullCheckResult, Full, TypeOK, QueueMatchesSize
<1> QED
  BY <1>1, <1>2, <1>3, <1>4, <1>5, <1>6, <1>7, <1>8

\* Every step of the pool, and doing nothing, keeps PoolInv.
LEMMA NextPoolInv == PoolInv /\ [Next]_vars => PoolInv'
<1> SUFFICES ASSUME PoolInv, [Next]_vars PROVE PoolInv'
  OBVIOUS
<1>1. ASSUME NEW w \in Workers, Worker(w) PROVE PoolInv'
  BY <1>1, LockPoolInv, TestCancelPoolInv, WaitForWorkPoolInv, CancelWaitPoolInv,
     LeaveOnShutdownPoolInv, TakeWorkPoolInv, HandlerReturnsPoolInv,
     CancelHandlerPoolInv, FinishWorkPoolInv DEF Worker, Threads
<1>2. ASSUME NEW c \in Clients, Client(c) PROVE PoolInv'
  BY <1>2, LockPoolInv, RelockPoolInv, RefuseFullPoolInv, WaitForRoomPoolInv,
     RefuseClosedPoolInv, AllocFailsPoolInv, EnqueuePoolInv, FullCheckPoolInv,
     CallAddWorkPoolInv DEF Client, AddWork, Threads
<1>3. CASE UNCHANGED vars
  BY <1>3 DEF vars, fixed, flags, fields, owner, PoolInv, TypeOK, HandsInv, HandledByOne,
     LockInv, QueueMatchesSize, NoLostWakeup, Full, SweepInv, CleanedUpMeansDead,
     VouchInv, FullCheckResult
<1> QED
  BY <1>1, <1>2, <1>3, SpuriousWakeupPoolInv, CallCleanupPoolInv, CancelNextPoolInv,
     EndRoundPoolInv, SetShutdownPoolInv, CloseQueuePoolInv DEF Next, Cleanup

\* PoolInv holds in every state of the pool.
THEOREM PoolInvariant == Spec => []PoolInv
  BY InitPoolInv, NextPoolInv, PTL DEF Spec

\* The pool's variables keep their types.
THEOREM Typing == Spec => []TypeOK
  BY PoolInvariant, PTL DEF PoolInv

\* The size the code decides on is the length of its list, within max_queue_size, and
\* the list holds each queued item once.
THEOREM QueueIsConsistent == Spec => []QueueMatchesSize
  BY PoolInvariant, PTL DEF PoolInv

\* An item is never in the hands of two threads.
THEOREM OneHandler == Spec => []HandledByOne
  BY PoolInvariant, PTL DEF PoolInv

\* A thread that sleeps unwoken has nothing to wake up for.
THEOREM WakeupsReachSleepers == Spec => []NoLostWakeup
  BY PoolInvariant, PTL DEF PoolInv

\* tpool_cleanup returns only to a pool whose workers have all exited.
THEOREM CleanupIsComplete == Spec => []CleanedUpMeansDead
  BY PoolInvariant, PTL DEF PoolInv, SweepInv

-----------------------------------------------------------------------------
\* tpool_add_work does not refuse a client that tpool_full_check let through.
THEOREM VouchedIsServed == Spec => VouchedIsNotRefused
<1> DEFINE Served(c) ==
      (/\ pc[c] = "test" /\ pc'[c] = "idle" /\ queue_lock' # c
       /\ c \in vouched /\ ~Closed)
        => cur_queue_size' = cur_queue_size + 1
<1>1. ASSUME PoolInv, [Next]_vars PROVE [\A c \in Clients : Served(c)]_vars
  <2> SUFFICES ASSUME Next, NEW c \in Clients,
                      pc[c] = "test", pc'[c] = "idle", queue_lock' # c,
                      c \in vouched, ~Closed
               PROVE  cur_queue_size' = cur_queue_size + 1
    BY <1>1
  <2> USE PoolAssumption DEF PoolAssumption
  <2>1. FullCheckResult /\ c \in Threads /\ c \notin Workers
    BY <1>1 DEF PoolInv, VouchInv, Threads
  <2>2. ASSUME NEW w \in Workers, Worker(w) PROVE FALSE
    BY <1>1, <2>1, <2>2 DEF PoolInv, TypeOK, Worker, Lock, TestCancel, WaitForWork, CancelWait,
       LeaveOnShutdown, TakeWork, HandlerReturns, CancelHandler, FinishWork,
       Leave, Goto, GotoWaking, Threads
  <2>3. ASSUME NEW d \in Clients, Client(d), d # c PROVE FALSE
    BY <1>1, <2>1, <2>3 DEF PoolInv, TypeOK, Client, AddWork, Lock, Relock, RefuseFull,
       WaitForRoom, RefuseClosed, AllocFails, Enqueue, FullCheck, CallAddWork,
       GiveBack, Goto, GotoWaking, Threads
  <2>4. CASE Client(c)
    <3>1. ~RefuseFull(c)
      BY <2>1 DEF RefuseFull, FullCheckResult
    <3>2. ~RefuseClosed(c)
      BY DEF RefuseClosed
    <3>3. ~AllocFails(c)
      BY DEF AllocFails, Holds
    <3>4. CASE Enqueue(c)
      BY <3>4 DEF Enqueue
    <3> QED
      BY <1>1, <2>1, <2>4, <3>1, <3>2, <3>3, <3>4 DEF PoolInv, TypeOK, Client, AddWork,
         Lock, Relock, WaitForRoom, FullCheck, CallAddWork, Goto
  <2>5. ASSUME NEW t \in Threads, SpuriousWakeup(t) PROVE FALSE
    BY <1>1, <2>1, <2>5 DEF PoolInv, TypeOK, SpuriousWakeup, Goto
  <2>6. ASSUME CallCleanup \/ Cleanup \/ SetShutdown \/ CloseQueue PROVE FALSE
    BY <2>6 DEF CallCleanup, Cleanup, CancelNext, EndRound, SetShutdown, CloseQueue
  <2> QED
    BY <2>2, <2>3, <2>4, <2>5, <2>6 DEF Next
<1> QED
  BY <1>1, PoolInvariant, PTL DEF Spec, VouchedIsNotRefused

-----------------------------------------------------------------------------
(* The pool implements WorkQueue.                                          *)

\* Which items a step leaves taken and freed, when it changes no such item.
LEMMA SameItems ==
  ASSUME \A x \in Work : /\ node'[x] = "taken" <=> node[x] = "taken"
                         /\ node'[x] = "freed" <=> node[x] = "freed",
         UNCHANGED <<max_queue_size, queue>>
  PROVE  UNCHANGED Queue!vars
  BY DEF Queue!vars

\* Queueing an item is a Submit of the abstract queue.
LEMMA EnqueueSubmits ==
  ASSUME PoolInv, NEW c \in Clients, Enqueue(c)
  PROVE  Queue!Submit(my_work[c])
<1> USE PoolAssumption DEF PoolAssumption
<1>1. my_work[c] \in Work /\ node[my_work[c]] = "offered"
  BY DEF PoolInv, TypeOK, HandsInv, HandledByOne, Threads, Enqueue, Holds
<1>2. Len(queue) < max_queue_size /\ cur_queue_size = Len(queue) /\ queue \in Seq(Work)
  BY LenProperties DEF PoolInv, TypeOK, QueueMatchesSize, Enqueue, Full
<1>3. my_work[c] \notin Queue!Known
  BY <1>1 DEF PoolInv, QueueMatchesSize, Queue!Known
<1>4. queue' = Append(queue, my_work[c])
  <2>1. CASE cur_queue_size = 0
    <3>1. queue = <<>>
      BY <2>1, <1>2, EmptySeq
    <3> QED
      BY <2>1, <3>1 DEF Enqueue, Enqueued
  <2>2. CASE cur_queue_size # 0
    BY <2>2 DEF Enqueue, Enqueued
  <2> QED
    BY <2>1, <2>2
<1>5. \A x \in Work : /\ node'[x] = "taken" <=> node[x] = "taken"
                      /\ node'[x] = "freed" <=> node[x] = "freed"
  BY <1>1 DEF PoolInv, TypeOK, Enqueue
<1> QED
  BY <1>2, <1>3, <1>4, <1>5 DEF Queue!Submit, Enqueue, fixed

\* Taking an item is a Start of the oldest item of the abstract queue.
LEMMA TakeWorkStarts ==
  ASSUME PoolInv, NEW w \in Workers, TakeWork(w)
  PROVE  \E x \in Work : Queue!Start(x)
<1> USE PoolAssumption DEF PoolAssumption
<1>1. /\ queue \in Seq(Work) /\ queue # <<>> /\ Len(queue) \in Nat
      /\ cur_queue_size = Len(queue) /\ Head(queue) \in Work
  BY LenProperties, EmptySeq, HeadTailProperties
     DEF PoolInv, TypeOK, QueueMatchesSize, TakeWork
<1>2. queue' = Tail(queue)
  BY <1>1, HeadTailProperties, EmptySeq DEF TakeWork, Dequeued
<1>3. node[Head(queue)] = "queued"
  BY <1>1, HeadTailProperties DEF PoolInv, QueueMatchesSize
<1>4. /\ \A x \in Work : node'[x] = "taken" <=> node[x] = "taken" \/ x = Head(queue)
      /\ \A x \in Work : node'[x] = "freed" <=> node[x] = "freed"
  BY <1>1, <1>3 DEF PoolInv, TypeOK, TakeWork
<1>5. PICK x \in Work : x = Head(queue)
  BY <1>1
<1>6. Queue!Start(x)
  BY <1>1, <1>2, <1>4, <1>5 DEF Queue!Start, TakeWork, fixed
<1> QED
  BY <1>6

\* The end of a handler is a Complete of its item.
LEMMA HandlerReturnsCompletes ==
  ASSUME PoolInv, NEW w \in Workers, HandlerReturns(w)
  PROVE  \E x \in Work : Queue!Complete(x)
<1> USE PoolAssumption DEF PoolAssumption
<1>1. my_work[w] \in Work /\ node[my_work[w]] = "taken"
  BY DEF PoolInv, TypeOK, HandsInv, HandledByOne, Threads, HandlerReturns
<1>2. /\ \A x \in Work : node'[x] = "taken" <=> node[x] = "taken" /\ x # my_work[w]
      /\ \A x \in Work : node'[x] = "freed" <=> node[x] = "freed" \/ x = my_work[w]
  BY <1>1 DEF PoolInv, TypeOK, HandlerReturns
<1>3. PICK x \in Work : x = my_work[w]
  BY <1>1
<1>4. Queue!Complete(x)
  BY <1>1, <1>2, <1>3 DEF Queue!Complete, HandlerReturns, fixed, fields
<1> QED
  BY <1>4

\* The other calls of a client leave the abstract queue as it is.
LEMMA ClientStutters ==
  ASSUME PoolInv, NEW c \in Clients, Client(c), ~Enqueue(c)
  PROVE  UNCHANGED Queue!vars
<1> USE PoolAssumption DEF PoolAssumption, fixed, fields
<1>1. ASSUME GiveBack(c), pc[c] = "test" PROVE UNCHANGED Queue!vars
  <2>1. my_work[c] \in Work /\ node[my_work[c]] = "offered"
    BY <1>1 DEF PoolInv, TypeOK, HandsInv, HandledByOne, Threads
  <2> QED
    BY <1>1, <2>1, SameItems DEF GiveBack, PoolInv, TypeOK
<1>2. ASSUME NEW x \in Work, CallAddWork(c, x) PROVE UNCHANGED Queue!vars
  BY <1>2, SameItems DEF CallAddWork, PoolInv, TypeOK
<1>3. CASE Lock(c) \/ Relock(c) \/ WaitForRoom(c) \/ FullCheck(c)
  BY <1>3, SameItems DEF Lock, Relock, WaitForRoom, FullCheck
<1> QED
  BY <1>1, <1>2, <1>3 DEF Client, AddWork, RefuseFull, RefuseClosed, AllocFails, Holds

\* So do the other steps of a worker, the owner's and a spurious wakeup.
LEMMA OthersStutter ==
  ASSUME \/ \E w \in Workers : Worker(w) /\ ~TakeWork(w) /\ ~HandlerReturns(w)
         \/ \E t \in Threads : SpuriousWakeup(t)
         \/ CallCleanup \/ Cleanup \/ SetShutdown \/ CloseQueue
         \/ UNCHANGED vars
  PROVE  UNCHANGED Queue!vars
<1>1. UNCHANGED <<max_queue_size, queue, node>>
  BY DEF Worker, Lock, TestCancel, WaitForWork, CancelWait, LeaveOnShutdown,
     CancelHandler, FinishWork, SpuriousWakeup, CallCleanup, Cleanup, CancelNext,
     EndRound, SetShutdown, CloseQueue, vars, fixed, fields
<1> QED
  BY <1>1, SameItems

\* Every behaviour of the pool is one of a bounded first-in first-out work queue that
\* starts and completes each item at most once.
THEOREM Implementation == Spec => ImplementsWorkQueue
<1>1. Init => Queue!Init
  BY PoolAssumption DEF PoolAssumption, Init, Queue!Init
<1>2. PoolInv /\ [Next]_vars => [Queue!Next]_Queue!vars
  <2> SUFFICES ASSUME PoolInv, [Next]_vars PROVE [Queue!Next]_Queue!vars
    OBVIOUS
  <2>1. ASSUME NEW c \in Clients, Enqueue(c) PROVE Queue!Next
    <3>1. my_work[c] \in Work
      BY <2>1, PoolAssumption DEF PoolAssumption, PoolInv, TypeOK, HandsInv, Threads, Enqueue, Holds
    <3> QED
      BY <2>1, <3>1, EnqueueSubmits DEF Queue!Next
  <2>2. ASSUME NEW w \in Workers, TakeWork(w) PROVE Queue!Next
    BY <2>2, TakeWorkStarts DEF Queue!Next
  <2>3. ASSUME NEW w \in Workers, HandlerReturns(w) PROVE Queue!Next
    BY <2>3, HandlerReturnsCompletes DEF Queue!Next
  <2> QED
    BY <2>1, <2>2, <2>3, ClientStutters, OthersStutter DEF Next
<1> QED
  BY <1>1, <1>2, PoolInvariant, PTL DEF Spec, ImplementsWorkQueue, Queue!Spec

-----------------------------------------------------------------------------
(* num_threads_working.                                                    *)

Taken == {x \in Work : node[x] = "taken"}
Ending == {w \in Workers : pc[w] = "done"}

\* The items and the workers that are counted are finitely many.
LEMMA CountedAreFinite == IsFiniteSet(Taken) /\ IsFiniteSet(Ending)
<1>1. IsFiniteSet(Workers)
  BY PoolAssumption, FS_Interval DEF PoolAssumption, Workers
<1> QED
  BY <1>1, PoolAssumption, FS_Subset DEF PoolAssumption, Taken, Ending

\* A step keeps the count right.
LEMMA NextWorkingCount ==
  ASSUME PoolInv, WorkingCount, [Next]_vars
  PROVE  WorkingCount'
<1> USE PoolAssumption DEF PoolAssumption
<1>a. WorkingCount <=> num_threads_working = Cardinality(Taken) + Cardinality(Ending)
  BY DEF WorkingCount, Taken, Ending
<1>b. WorkingCount' <=> num_threads_working' = Cardinality(Taken') + Cardinality(Ending')
  BY DEF WorkingCount, Taken, Ending
<1>c. /\ Cardinality(Taken) \in Nat /\ Cardinality(Ending) \in Nat
      /\ num_threads_working \in Int
  BY CountedAreFinite, FS_CardinalityType DEF PoolInv, TypeOK
<1>1. ASSUME NEW w \in Workers, TakeWork(w) PROVE WorkingCount'
  <2>1. Head(queue) \in Work /\ node[Head(queue)] = "queued"
    <3>1. queue \in Seq(Work) /\ queue # <<>>
      BY <1>1, EmptySeq DEF PoolInv, TypeOK, QueueMatchesSize, TakeWork
    <3>2. 1 \in 1 .. Len(queue) /\ Head(queue) = queue[1]
      BY <3>1, EmptySeq, LenProperties
    <3> QED
      BY <3>1, <3>2, HeadTailProperties DEF PoolInv, QueueMatchesSize
  <2>2. Taken' = Taken \cup {Head(queue)} /\ Head(queue) \notin Taken
    BY <1>1, <2>1 DEF PoolInv, TypeOK, TakeWork, Taken
  <2>3. Ending' = Ending
    BY <1>1 DEF PoolInv, TypeOK, TakeWork, TakeWakes, GotoWaking, Holds, Ending, Threads
  <2>4. Cardinality(Taken') = Cardinality(Taken) + 1
    BY <2>2, CountedAreFinite, FS_AddElement
  <2> QED
    BY <1>1, <2>3, <2>4, <1>a, <1>b, <1>c DEF TakeWork
<1>2. ASSUME NEW w \in Workers, HandlerReturns(w) PROVE WorkingCount'
  <2>1. my_work[w] \in Work /\ node[my_work[w]] = "taken"
    BY <1>2 DEF PoolInv, TypeOK, HandsInv, HandledByOne, Threads, HandlerReturns
  <2>2. Taken' = Taken \ {my_work[w]} /\ my_work[w] \in Taken
    BY <1>2, <2>1 DEF PoolInv, TypeOK, HandlerReturns, Taken
  <2>3. Ending' = Ending \cup {w} /\ w \notin Ending
    BY <1>2 DEF PoolInv, TypeOK, HandlerReturns, Goto, Ending, Threads
  <2>4. Cardinality(Taken') = Cardinality(Taken) - 1
    BY <2>2, CountedAreFinite, FS_RemoveElement
  <2>5. Cardinality(Ending') = Cardinality(Ending) + 1
    BY <2>3, CountedAreFinite, FS_AddElement
  <2> QED
    BY <1>2, <2>4, <2>5, <1>a, <1>b, <1>c DEF HandlerReturns, fields
<1>3. ASSUME NEW w \in Workers, FinishWork(w) PROVE WorkingCount'
  <2>1. Taken' = Taken
    BY <1>3 DEF FinishWork, Taken
  <2>2. Ending' = Ending \ {w} /\ w \in Ending
    BY <1>3 DEF PoolInv, TypeOK, FinishWork, Goto, Ending, Threads
  <2>3. Cardinality(Ending') = Cardinality(Ending) - 1
    BY <2>2, CountedAreFinite, FS_RemoveElement
  <2> QED
    BY <1>3, <2>1, <2>3, <1>a, <1>b, <1>c DEF FinishWork
<1>4. ASSUME num_threads_working' = num_threads_working,
             \A x \in Work : node'[x] = "taken" <=> node[x] = "taken",
             \A w \in Workers : pc'[w] = "done" <=> pc[w] = "done"
      PROVE  WorkingCount'
  <2>1. Taken' = Taken /\ Ending' = Ending
    BY <1>4 DEF Taken, Ending
  <2> QED
    BY <1>4, <2>1, <1>a, <1>b
<1> USE DEF fields
<1>5. ASSUME NEW w \in Workers, Worker(w), ~TakeWork(w), ~HandlerReturns(w), ~FinishWork(w)
      PROVE  WorkingCount'
  <2>1. /\ num_threads_working' = num_threads_working /\ node' = node
        /\ \A v \in Workers : pc'[v] = "done" <=> pc[v] = "done"
    BY <1>5 DEF PoolInv, TypeOK, Worker, Lock, TestCancel, WaitForWork, CancelWait,
       LeaveOnShutdown, CancelHandler, Leave, Goto, Holds, Threads
  <2> QED
    BY <2>1, <1>4
<1>6. ASSUME NEW c \in Clients, Client(c) PROVE WorkingCount'
  <2>1. \A v \in Workers : pc'[v] = "done" <=> pc[v] = "done"
    BY <1>6 DEF PoolInv, TypeOK, Client, AddWork, Lock, Relock, RefuseFull, WaitForRoom,
       RefuseClosed, AllocFails, Enqueue, AddWakes, FullCheck, CallAddWork, GiveBack,
       Goto, GotoWaking, Threads
  <2>2. num_threads_working' = num_threads_working
    BY <1>6 DEF Client, AddWork, Lock, Relock, RefuseFull, WaitForRoom, RefuseClosed,
       AllocFails, Enqueue, FullCheck, CallAddWork, GiveBack
  <2>3. CASE Enqueue(c)
    <3>1. my_work[c] \in Work /\ node[my_work[c]] = "offered"
      BY <2>3 DEF PoolInv, TypeOK, HandsInv, HandledByOne, Threads, Enqueue, Holds
    <3> QED
      BY <2>1, <2>2, <2>3, <3>1, <1>4 DEF PoolInv, TypeOK, Enqueue
  <2>4. CASE ~Enqueue(c)
    <3>1. \A x \in Work : node'[x] = "taken" <=> node[x] = "taken"
      BY <1>6, <2>4, ClientStutters DEF Queue!vars
    <3> QED
      BY <2>1, <2>2, <3>1, <1>4
  <2> QED
    BY <2>3, <2>4
<1>7. ASSUME \/ \E t \in Threads : SpuriousWakeup(t)
             \/ CallCleanup \/ Cleanup \/ SetShutdown \/ CloseQueue
             \/ UNCHANGED vars
      PROVE  WorkingCount'
  <2>1. /\ num_threads_working' = num_threads_working /\ node' = node
        /\ \A v \in Workers : pc'[v] = "done" <=> pc[v] = "done"
    BY <1>7 DEF PoolInv, TypeOK, SpuriousWakeup, CallCleanup, Cleanup, CancelNext, EndRound,
       SetShutdown, CloseQueue, vars, Goto, Threads
  <2> QED
    BY <2>1, <1>4
<1> QED
  BY <1>1, <1>2, <1>3, <1>5, <1>6, <1>7 DEF Next

\* num_threads_working counts the items in work, the ones a cancelled handler left
\* behind included, and the workers about to report.
THEOREM WorkingIsCounted == Spec => []WorkingCount
<1>1. Init => WorkingCount
  <2> SUFFICES ASSUME Init PROVE WorkingCount
    OBVIOUS
  <2>1. Taken = {} /\ Ending = {}
    BY DEF Init, Threads, Taken, Ending
  <2>2. Cardinality(Taken) = 0 /\ Cardinality(Ending) = 0
    BY <2>1, FS_EmptySet
  <2>3. num_threads_working = Cardinality(Taken) + Cardinality(Ending)
    BY <2>2 DEF Init
  <2> QED
    BY <2>3 DEF WorkingCount, Taken, Ending
<1> QED
  BY <1>1, PoolInvariant, NextWorkingCount, PTL DEF Spec

-----------------------------------------------------------------------------
(* The items that are lost.                                                *)

\* Only tpool_cleanup cancels, only a cancelled handler loses its item, and its worker exits.
LossInv ==
  /\ cleanup = "idle" => cancelled = {} /\ Lost = {}
  /\ Cardinality(Lost) <= Cardinality(Exited)

LEMMA LostAreFinite == IsFiniteSet(Lost) /\ IsFiniteSet(Exited)
<1>1. IsFiniteSet(Workers)
  BY PoolAssumption, FS_Interval DEF PoolAssumption, Workers
<1> QED
  BY <1>1, PoolAssumption, FS_Subset DEF PoolAssumption, Lost, Exited

\* A step of a worker loses nothing unless its handler is cancelled, and no worker comes back.
LEMMA WorkersLose ==
  ASSUME PoolInv, NEW w \in Workers, Worker(w)
  PROVE  /\ ~CancelHandler(w) => Lost' \subseteq Lost
         /\ CancelHandler(w) => Lost' \subseteq Lost \cup {my_work[w]} /\ w \notin Exited /\ w \in Exited'
         /\ Exited \subseteq Exited'
<1> USE PoolAssumption DEF PoolAssumption, PoolInv
<1>1. w \in Threads /\ Workers \subseteq Threads /\ my_work \in [Threads -> Work \cup {NoWork}]
      /\ NoWork \notin Work /\ pc \in [Threads -> WorkerPC \cup ClientPC]
  BY DEF Threads, TypeOK
<1>2. Exited \subseteq Exited'
  <2>1. ASSUME NEW v \in Workers, pc[v] = "dead" PROVE pc'[v] = "dead"
    BY <1>1, <2>1 DEF Worker, Lock, TestCancel, WaitForWork, CancelWait, LeaveOnShutdown, TakeWork,
       HandlerReturns, CancelHandler, FinishWork, Leave, Goto, GotoWaking, Holds
  <2> QED
    BY <2>1 DEF Exited
<1>3. CASE CancelHandler(w)
  <2>1. /\ my_work' = [my_work EXCEPT ![w] = NoWork] /\ node' = node
        /\ pc[w] = "run" /\ pc' = [pc EXCEPT ![w] = "dead"]
    BY <1>3 DEF CancelHandler, Leave, Goto
  <2>2. Lost' \subseteq Lost \cup {my_work[w]}
    BY <1>1, <2>1 DEF Lost
  <2>3. w \notin Exited /\ w \in Exited'
    BY <1>1, <2>1 DEF Exited
  <2> QED
    BY <1>2, <1>3, <2>2, <2>3
<1>4. ASSUME ~CancelHandler(w) PROVE Lost' \subseteq Lost
  <2>1. CASE TakeWork(w)
    <3>1. my_work[w] = NoWork
      BY <1>1, <2>1 DEF HandsInv, TakeWork, Holds
    <3>2. /\ my_work' = [my_work EXCEPT ![w] = Head(queue)]
          /\ node' = [node EXCEPT ![Head(queue)] = "taken"]
      BY <2>1 DEF TakeWork
    <3>3. node \in [Work -> {"new", "offered", "queued", "taken", "freed"}]
      BY DEF TypeOK
    <3>4. ASSUME NEW x \in Work, x \in Lost' PROVE x \in Lost
      <4>1. node'[x] = "taken" /\ \A v \in Workers : my_work'[v] # x
        BY <3>4 DEF Lost
      <4>2. x # Head(queue)
        BY <1>1, <3>2, <4>1
      <4>3. node[x] = "taken"
        BY <3>2, <3>3, <4>1, <4>2
      <4>4. \A v \in Workers : my_work[v] # x
        BY <1>1, <3>1, <3>2, <4>1
      <4> QED
        BY <4>3, <4>4 DEF Lost
    <3> QED
      BY <3>4 DEF Lost
  <2>2. CASE HandlerReturns(w)
    <3>1. /\ node' = [node EXCEPT ![my_work[w]] = "freed"]
          /\ my_work' = [my_work EXCEPT ![w] = NoWork]
      BY <2>2 DEF HandlerReturns
    <3>2. my_work[w] \in Work
      BY <1>1, <2>2 DEF HandsInv, HandlerReturns
    <3>3. node \in [Work -> {"new", "offered", "queued", "taken", "freed"}]
      BY DEF TypeOK
    <3> QED
      BY <1>1, <3>1, <3>2, <3>3 DEF Lost
  <2>3. CASE ~TakeWork(w) /\ ~HandlerReturns(w)
    <3>1. node' = node
      BY <1>4, <2>3 DEF Worker, Lock, TestCancel, WaitForWork, CancelWait, LeaveOnShutdown,
         FinishWork
    <3>2. \/ my_work' = my_work
          \/ /\ my_work' = [my_work EXCEPT ![w] = NoWork]
             /\ pc[w] \in {"testcancel", "wait", "woken"}
      <4>1. CASE TestCancel(w)
        BY <4>1 DEF TestCancel, Leave
      <4>2. CASE CancelWait(w)
        BY <4>2 DEF CancelWait, Leave
      <4>3. CASE Lock(w) \/ WaitForWork(w) \/ LeaveOnShutdown(w) \/ FinishWork(w)
        BY <4>3 DEF Lock, WaitForWork, LeaveOnShutdown, FinishWork
      <4> QED
        BY <1>4, <2>3, <4>1, <4>2, <4>3 DEF Worker
    <3>3. w \notin Clients
      BY DEF Threads
    <3>4. pc[w] \in {"testcancel", "wait", "woken"} => my_work[w] = NoWork
      BY <1>1, <3>3 DEF HandsInv
    <3> QED
      BY <1>1, <3>1, <3>2, <3>4 DEF Lost
  <2> QED
    BY <2>1, <2>2, <2>3
<1> QED
  BY <1>2, <1>3, <1>4

\* Nobody else loses anything or makes a worker come back.
LEMMA OthersLoseNothing ==
  ASSUME PoolInv,
         \/ \E c \in Clients : Client(c)
         \/ \E t \in Threads : SpuriousWakeup(t)
         \/ CallCleanup \/ Cleanup \/ SetShutdown \/ CloseQueue
         \/ UNCHANGED vars
  PROVE  Lost' \subseteq Lost /\ Exited \subseteq Exited'
<1> USE PoolAssumption DEF PoolAssumption, PoolInv
<1>1. ASSUME NEW c \in Clients, Client(c) PROVE Lost' \subseteq Lost /\ Exited \subseteq Exited'
  <2>1. \A v \in Workers : my_work'[v] = my_work[v] /\ (pc[v] = "dead" => pc'[v] = "dead")
    BY <1>1 DEF TypeOK, Client, AddWork, Lock, Relock, RefuseFull, WaitForRoom,
       RefuseClosed, AllocFails, Enqueue, AddWakes, FullCheck, CallAddWork, GiveBack,
       Goto, GotoWaking, Threads
  <2>2. \A x \in Work : node'[x] = "taken" => node[x] = "taken"
    <3>1. CASE Enqueue(c)
      <4>1. my_work[c] \in Work /\ node[my_work[c]] = "offered"
        BY <3>1 DEF TypeOK, HandsInv, HandledByOne, Threads, Enqueue, Holds
      <4> QED
        BY <3>1, <4>1 DEF TypeOK, Enqueue
    <3>2. CASE ~Enqueue(c)
      BY <1>1, <3>2, ClientStutters DEF Queue!vars
    <3> QED
      BY <3>1, <3>2
  <2> QED
    BY <2>1, <2>2 DEF Lost, Exited
<1>2. ASSUME \/ \E t \in Threads : SpuriousWakeup(t)
             \/ CallCleanup \/ Cleanup \/ SetShutdown \/ CloseQueue
             \/ UNCHANGED vars
      PROVE  Lost' \subseteq Lost /\ Exited \subseteq Exited'
  <2>1. /\ my_work' = my_work /\ node' = node
        /\ \A v \in Workers : pc[v] = "dead" => pc'[v] = "dead"
    BY <1>2 DEF TypeOK, SpuriousWakeup, CallCleanup, Cleanup, CancelNext, EndRound,
       SetShutdown, CloseQueue, vars, Goto, Threads
  <2> QED
    BY <2>1 DEF Lost, Exited
<1> QED
  BY <1>1, <1>2

\* A set that stays within another has no more elements, one that gains another element one more.
LEMMA Shrinking ==
  ASSUME NEW A, NEW B, NEW S, NEW T, IsFiniteSet(A), IsFiniteSet(T),
         B \subseteq A, S \subseteq T, Cardinality(A) <= Cardinality(S)
  PROVE  Cardinality(B) <= Cardinality(T)
<1>1. Cardinality(B) <= Cardinality(A) /\ Cardinality(S) <= Cardinality(T)
  BY FS_Subset
<1>2. IsFiniteSet(B) /\ IsFiniteSet(S)
  BY FS_Subset
<1>3. Cardinality(A) \in Nat /\ Cardinality(B) \in Nat /\ Cardinality(S) \in Nat /\ Cardinality(T) \in Nat
  BY <1>2, FS_CardinalityType
<1> QED
  BY <1>1, <1>3

LEMMA NextLossInv ==
  ASSUME PoolInv, LossInv, [Next]_vars
  PROVE  LossInv'
<1> USE PoolAssumption DEF PoolAssumption
<1>1. IsFiniteSet(Lost) /\ IsFiniteSet(Exited) /\ IsFiniteSet(Lost') /\ IsFiniteSet(Exited')
  <2>1. IsFiniteSet(Workers)
    BY FS_Interval DEF Workers
  <2> QED
    BY <2>1, FS_Subset DEF Lost, Exited
<1>2. cleanup' = "idle" => cleanup = "idle" /\ cancelled' = cancelled
  BY DEF Next, Worker, Client, AddWork, Lock, TestCancel, WaitForWork, CancelWait, LeaveOnShutdown,
     TakeWork, HandlerReturns, CancelHandler, FinishWork, Relock, RefuseFull, WaitForRoom,
     RefuseClosed, AllocFails, Enqueue, FullCheck, CallAddWork, GiveBack, SpuriousWakeup,
     CallCleanup, Cleanup, CancelNext, EndRound, SetShutdown, CloseQueue, vars, owner
<1>3. ASSUME Lost' \subseteq Lost, Exited \subseteq Exited' PROVE LossInv'
  <2>1. Cardinality(Lost') <= Cardinality(Exited')
    BY <1>1, <1>3, Shrinking DEF LossInv
  <2> QED
    BY <1>2, <1>3, <2>1 DEF LossInv
<1>4. ASSUME NEW w \in Workers, CancelHandler(w) PROVE LossInv'
  <2>1. /\ Lost' \subseteq Lost \cup {my_work[w]} /\ w \notin Exited /\ w \in Exited'
        /\ Exited \subseteq Exited'
    BY <1>4, WorkersLose DEF Worker
  <2>2. cleanup' # "idle"
    BY <1>4 DEF LossInv, CancelHandler, owner
  <2>3. /\ IsFiniteSet(Lost \cup {my_work[w]})
        /\ Cardinality(Lost \cup {my_work[w]}) <= Cardinality(Lost) + 1
    <3>1. /\ IsFiniteSet(Lost \cup {my_work[w]})
          /\ Cardinality(Lost \cup {my_work[w]})
               = IF my_work[w] \in Lost THEN Cardinality(Lost) ELSE Cardinality(Lost) + 1
      BY <1>1, FS_AddElement
    <3>2. Cardinality(Lost) \in Nat
      BY <1>1, FS_CardinalityType
    <3>3. \A n \in Nat : n <= n + 1 /\ n + 1 <= n + 1
      OBVIOUS
    <3> QED
      BY <3>1, <3>2, <3>3, Zenon
  <2>4. /\ IsFiniteSet(Exited \cup {w})
        /\ Cardinality(Exited \cup {w}) = Cardinality(Exited) + 1
    BY <1>1, <2>1, FS_AddElement
  <2>5. /\ Cardinality(Lost') <= Cardinality(Lost \cup {my_work[w]})
        /\ Cardinality(Exited \cup {w}) <= Cardinality(Exited')
    BY <1>1, <2>1, <2>3, FS_Subset
  <2>6. /\ Cardinality(Lost) \in Nat /\ Cardinality(Lost') \in Nat
        /\ Cardinality(Lost \cup {my_work[w]}) \in Nat
        /\ Cardinality(Exited) \in Nat /\ Cardinality(Exited') \in Nat
        /\ Cardinality(Exited \cup {w}) \in Nat
    BY <1>1, <2>3, <2>4, FS_CardinalityType
  <2>7. Cardinality(Lost') <= Cardinality(Exited')
    <3>1. Cardinality(Lost) <= Cardinality(Exited)
      BY DEF LossInv
    <3> QED
      BY <2>3, <2>4, <2>5, <2>6, <3>1
  <2> QED
    BY <2>2, <2>7 DEF LossInv
<1>5. ASSUME NEW w \in Workers, Worker(w) PROVE LossInv'
  BY <1>3, <1>4, <1>5, WorkersLose
<1> QED
  BY <1>3, <1>5, OthersLoseNothing DEF Next

\* Whatever handlers are cancelled, nothing is lost before tpool_cleanup, no more items are lost
\* than workers have exited, and when tpool_cleanup has returned num_threads_working is their
\* number: all other items that were taken were completed.
THEOREM LossesAreTold == Spec => []LossIsTold
<1>1. Init => LossInv
  <2> SUFFICES ASSUME Init PROVE LossInv
    OBVIOUS
  <2>1. Lost = {} /\ Exited = {} /\ cancelled = {}
    BY DEF Init, Threads, Lost, Exited
  <2>2. Cardinality(Lost) = 0 /\ Cardinality(Exited) = 0
    BY <2>1, FS_EmptySet
  <2> QED
    BY <2>1, <2>2 DEF LossInv
<1>2. PoolInv /\ WorkingCount /\ LossInv => LossIsTold
  <2> SUFFICES ASSUME PoolInv, WorkingCount, LossInv, cleanup = "returned"
               PROVE  num_threads_working = Cardinality(Lost)
    BY DEF LossInv, LossIsTold
  <2>1. \A w \in Workers : pc[w] = "dead" /\ my_work[w] = NoWork
    BY PoolAssumption
      DEF PoolAssumption, PoolInv, SweepInv, CleanedUpMeansDead, HandsInv, Threads
  <2>2. Taken = Lost /\ Ending = {}
    BY <2>1, PoolAssumption DEF PoolAssumption, Taken, Ending, Lost
  <2>3. Cardinality(Ending) = 0 /\ Cardinality(Lost) \in Nat
    BY <2>2, LostAreFinite, FS_EmptySet, FS_CardinalityType
  <2>4. num_threads_working = Cardinality(Taken) + Cardinality(Ending)
    BY DEF WorkingCount, Taken, Ending
  <2> QED
    BY <2>2, <2>3, <2>4
<1> QED
  BY <1>1, <1>2, PoolInvariant, WorkingIsCounted, NextLossInv, PTL DEF Spec

-----------------------------------------------------------------------------
(***************************************************************************)
(* The life of the pool around it (PoolLifecycle): while the pool is in    *)
(* use its steps are ThreadPool's and keep PoolInv; from the moment        *)
(* tpool_destroyEx takes queue_lock only the few steps that need no lock   *)
(* are left, and WalkInv, the part of PoolInv they rest on, takes over.    *)
(***************************************************************************)

\* No client is inside the pool.
ClientsAreOut == \A c \in Clients : pc[c] \in {"idle", "dead"}

\* The owner holds the lock while it walks the queue; a worker that still runs a handler
\* has an item that was taken.
WalkInv ==
  /\ queue_lock = Owner
  /\ pc \in [Threads -> WorkerPC \cup ClientPC]
  /\ my_work \in [Threads -> Work \cup {NoWork}]
  /\ node \in [Work -> {"new", "offered", "queued", "taken", "freed"}]
  /\ HandsInv
  /\ HandledByOne
  /\ LockInv

LifeInv ==
  /\ phase \in {"creating", "up", "failed", "destroying", "freed", "crashed"}
  /\ phase \in {"creating", "up", "failed"} => PoolInv
  /\ phase \in {"destroying", "freed", "crashed"} => ClientsAreOut
  /\ phase = "destroying" => WalkInv
  /\ CleanedUpMeansDead

-----------------------------------------------------------------------------
(* What can still happen while the owner walks the queue.                  *)

\* With the lock in the owner's hands a worker gets past its cancellation point or out of
\* its handler and no further.
LEMMA LockedOut ==
  ASSUME NEW w \in Workers, WalkInv, Worker(w)
  PROVE  TestCancel(w) \/ HandlerReturns(w) \/ CancelHandler(w)
<1>1. queue_lock # NoThread /\ queue_lock # w
  BY PoolAssumption DEF PoolAssumption, WalkInv, Threads
<1> QED
  BY <1>1 DEF Worker, Lock, WaitForWork, CancelWait, LeaveOnShutdown, TakeWork, FinishWork,
     Holds

\* The steps that need no lock keep what the walk rests on, leave every queued item
\* queued, and add none.
LEMMA UnlockedStep ==
  ASSUME WalkInv,
         \/ \E w \in Workers : TestCancel(w) \/ HandlerReturns(w) \/ CancelHandler(w)
         \/ \E t \in Threads : SpuriousWakeup(t)
  PROVE  /\ WalkInv'
         /\ \A x \in Work : node[x] = "queued" <=> node'[x] = "queued"
         /\ cleanup' = cleanup
         /\ \A t \in Threads : pc[t] \in {"idle", "dead"} => pc'[t] = pc[t]
<1> USE PoolAssumption DEF PoolAssumption, WalkInv, fixed, flags, fields, owner, Goto, Leave
<1>1. ASSUME NEW w \in Workers, TestCancel(w)
      PROVE  /\ WalkInv' /\ node' = node /\ cleanup' = cleanup
             /\ \A t \in Threads : pc[t] \in {"idle", "dead"} => pc'[t] = pc[t]
  <2> USE <1>1 DEF TestCancel
  <2>1. /\ pc' \in [Threads -> WorkerPC \cup ClientPC]
        /\ my_work' \in [Threads -> Work \cup {NoWork}]
        /\ queue_lock' = Owner /\ node' = node /\ cleanup' = cleanup
    BY DEF Threads, WorkerPC
  <2>2. HandsInv' /\ HandledByOne' /\ LockInv'
    BY DEF HandsInv, HandledByOne, LockInv, Threads
  <2>3. \A t \in Threads : pc[t] \in {"idle", "dead"} => pc'[t] = pc[t]
    BY DEF Threads
  <2> QED
    BY <2>1, <2>2, <2>3
<1>2. ASSUME NEW w \in Workers, HandlerReturns(w)
      PROVE  /\ WalkInv'
             /\ \A x \in Work : node[x] = "queued" <=> node'[x] = "queued"
             /\ cleanup' = cleanup
             /\ \A t \in Threads : pc[t] \in {"idle", "dead"} => pc'[t] = pc[t]
  <2> USE <1>2 DEF HandlerReturns
  <2>1. my_work[w] \in Work /\ node[my_work[w]] = "taken"
    BY DEF HandsInv, HandledByOne, Threads
  <2>2. /\ pc' \in [Threads -> WorkerPC \cup ClientPC]
        /\ my_work' \in [Threads -> Work \cup {NoWork}]
        /\ node' \in [Work -> {"new", "offered", "queued", "taken", "freed"}]
        /\ queue_lock' = Owner /\ cleanup' = cleanup
    BY <2>1 DEF Threads, WorkerPC
  <2>3. HandsInv' /\ HandledByOne' /\ LockInv'
    BY <2>1 DEF HandsInv, HandledByOne, LockInv, Threads
  <2>4. \A x \in Work : node[x] = "queued" <=> node'[x] = "queued"
    BY <2>1
  <2>5. \A t \in Threads : pc[t] \in {"idle", "dead"} => pc'[t] = pc[t]
    BY DEF Threads
  <2> QED
    BY <2>2, <2>3, <2>4, <2>5
<1>3. ASSUME NEW w \in Workers, CancelHandler(w)
      PROVE  /\ WalkInv' /\ node' = node /\ cleanup' = cleanup
             /\ \A t \in Threads : pc[t] \in {"idle", "dead"} => pc'[t] = pc[t]
  <2> USE <1>3 DEF CancelHandler
  <2>1. /\ pc' \in [Threads -> WorkerPC \cup ClientPC]
        /\ my_work' \in [Threads -> Work \cup {NoWork}]
        /\ queue_lock' = Owner /\ node' = node /\ cleanup' = cleanup
    BY DEF Threads, WorkerPC
  <2>2. HandsInv' /\ HandledByOne' /\ LockInv'
    BY DEF HandsInv, HandledByOne, LockInv, Threads
  <2>3. \A t \in Threads : pc[t] \in {"idle", "dead"} => pc'[t] = pc[t]
    BY DEF Threads
  <2> QED
    BY <2>1, <2>2, <2>3
<1>4. ASSUME NEW t \in Threads, SpuriousWakeup(t)
      PROVE  /\ WalkInv' /\ node' = node /\ cleanup' = cleanup
             /\ \A u \in Threads : pc[u] \in {"idle", "dead"} => pc'[u] = pc[u]
  <2> USE <1>4 DEF SpuriousWakeup
  <2>1. /\ pc' \in [Threads -> WorkerPC \cup ClientPC]
        /\ my_work' = my_work
        /\ queue_lock' = Owner /\ node' = node /\ cleanup' = cleanup
    BY DEF Threads, WorkerPC
  <2>2. HandsInv' /\ HandledByOne' /\ LockInv'
    BY DEF HandsInv, HandledByOne, LockInv, Threads
  <2>3. \A u \in Threads : pc[u] \in {"idle", "dead"} => pc'[u] = pc[u]
    OBVIOUS
  <2> QED
    BY <2>1, <2>2, <2>3
<1> QED
  BY <1>1, <1>2, <1>3, <1>4

-----------------------------------------------------------------------------
(* The life of the pool.                                                   *)

\* A pool under construction or in use, whose state init and the respawn counter leave
\* alone, takes the steps of ThreadPool.
LEMMA StepInUse ==
  ASSUME PoolInv, [Next]_vars
  PROVE  PoolInv' /\ CleanedUpMeansDead'
  BY NextPoolInv DEF PoolInv, SweepInv

\* Taking queue_lock for the walk leaves the rest of the pool as it was.
LEMMA DestroyLifeInv ==
  ASSUME LifeInv, DestroyEx
  PROVE  LifeInv'
<1>1. PoolInv /\ ClientsAreOut
  BY DEF LifeInv, DestroyEx, MayDestroy, ClientsAreOut
<1>2. ClientsAreOut' /\ CleanedUpMeansDead'
  BY <1>1 DEF LifeInv, DestroyEx, ClientsAreOut, CleanedUpMeansDead, owner
<1>3. WalkInv'
  BY <1>1, PoolAssumption DEF DestroyEx, WalkInv, PoolInv, TypeOK, HandsInv, HandledByOne,
     LockInv, PoolAssumption
<1> QED
  BY <1>2, <1>3 DEF LifeInv, DestroyEx

\* Every step of the pool's life, and doing nothing, keeps LifeInv.
LEMMA NextLifeInv == LifeInv /\ [LNext]_lvars => LifeInv'
<1> SUFFICES ASSUME LifeInv, [LNext]_lvars PROVE LifeInv'
  OBVIOUS
<1> USE DEF life
<1>1. CASE CreateThread \/ InitReturns \/ InitFails \/ RespawnNumThreads
  <2>1. PoolInv /\ [Next]_vars /\ phase' \in {"creating", "up", "failed"}
    BY <1>1 DEF LifeInv, CreateThread, InitReturns, InitFails, RespawnNumThreads
  <2> QED
    BY <2>1, StepInUse DEF LifeInv
<1>2. CASE DestroyEx
  BY <1>2, DestroyLifeInv
<1>3. CASE FreeNext
  BY <1>3 DEF FreeNext, LifeInv, ClientsAreOut, WalkInv, CleanedUpMeansDead, HandsInv,
     HandledByOne, LockInv, owner
<1>4. CASE FreePool
  BY <1>4 DEF FreePool, LifeInv, ClientsAreOut, CleanedUpMeansDead, owner
<1>5. ASSUME NEW w \in Workers, Running(w) PROVE LifeInv'
  <2>1. CASE phase = "destroying"
    <3>1. /\ WalkInv' /\ cleanup' = cleanup
          /\ \A t \in Threads : pc[t] \in {"idle", "dead"} => pc'[t] = pc[t]
      BY <1>5, <2>1, LockedOut, UnlockedStep DEF Running, LifeInv
    <3> QED
      BY <3>1, <2>1, <1>5 DEF Running, LifeInv, ClientsAreOut, CleanedUpMeansDead, Threads
  <2>2. CASE phase \in {"creating", "up"}
    <3>1. PoolInv /\ [Next]_vars
      BY <1>5, <2>2 DEF Running, LifeInv, Next
    <3> QED
      BY <3>1, <2>2, <1>5, StepInUse DEF Running, LifeInv
  <2> QED
    BY <2>1, <2>2, <1>5 DEF Running, PoolExists
<1>6. ASSUME NEW t \in Threads, PoolExists /\ SpuriousWakeup(t) /\ UNCHANGED life
      PROVE  LifeInv'
  <2>1. CASE phase = "destroying"
    <3>1. /\ WalkInv' /\ cleanup' = cleanup
          /\ \A u \in Threads : pc[u] \in {"idle", "dead"} => pc'[u] = pc[u]
      BY <1>6, <2>1, UnlockedStep DEF LifeInv
    <3> QED
      BY <3>1, <2>1, <1>6 DEF LifeInv, ClientsAreOut, CleanedUpMeansDead, Threads
  <2>2. CASE phase \in {"creating", "up"}
    <3>1. PoolInv /\ [Next]_vars
      BY <1>6, <2>2 DEF LifeInv, Next
    <3> QED
      BY <3>1, <2>2, <1>6, StepInUse DEF LifeInv
  <2> QED
    BY <2>1, <2>2, <1>6 DEF PoolExists
<1>7. CASE \/ \E c \in Clients : Using /\ Client(c)
           \/ Using /\ CallCleanup
           \/ Sweeping
  <2>1. phase = "up" /\ UNCHANGED life /\ PoolInv /\ [Next]_vars
    BY <1>7 DEF Using, Sweeping, Next, LifeInv
  <2> QED
    BY <2>1, StepInUse DEF LifeInv
<1>8. CASE UNCHANGED lvars
  <2>1. UNCHANGED vars /\ UNCHANGED life
    BY <1>8 DEF lvars
  <2>2. PoolInv => PoolInv'
    BY <2>1, NextPoolInv
  <2>3. (ClientsAreOut => ClientsAreOut') /\ (WalkInv => WalkInv')
          /\ (CleanedUpMeansDead => CleanedUpMeansDead')
    BY <2>1 DEF ClientsAreOut, WalkInv, CleanedUpMeansDead, HandsInv, HandledByOne, LockInv,
       vars, owner
  <2> QED
    BY <2>1, <2>2, <2>3 DEF LifeInv
<1> QED
  BY <1>1, <1>2, <1>3, <1>4, <1>5, <1>6, <1>7, <1>8 DEF LNext

\* A pool under construction satisfies LifeInv.
LEMMA InitLifeInv == LInit => LifeInv
<1> SUFFICES ASSUME LInit PROVE LifeInv
  OBVIOUS
<1>1. PoolInv
  BY InitPoolInv DEF LInit
<1> QED
  BY <1>1 DEF LInit, LifeInv, PoolInv, SweepInv

\* LifeInv holds in every state of the pool's life.
THEOREM Life == LSpec => []LifeInv
  BY InitLifeInv, NextLifeInv, PTL DEF LSpec

-----------------------------------------------------------------------------
(* The theorems.                                                           *)

\* While tpool_destroyEx walks the queue no item enters it and none is taken from it.
THEOREM WalkAlone == LSpec => WalkIsUndisturbed
<1> DEFINE Undisturbed == \A x \in Work : node[x] = "queued" <=> node'[x] = "queued"
<1>1. ASSUME LifeInv, [LNext]_lvars PROVE [phase = "destroying" => Undisturbed]_lvars
  <2> SUFFICES ASSUME LNext, phase = "destroying" PROVE Undisturbed
    BY <1>1
  <2>1. WalkInv
    BY <1>1 DEF LifeInv
  <2>2. ASSUME NEW w \in Workers, Running(w) PROVE Undisturbed
    BY <2>1, <2>2, LockedOut, UnlockedStep DEF Running
  <2>3. ASSUME NEW t \in Threads, SpuriousWakeup(t) PROVE Undisturbed
    BY <2>1, <2>3, UnlockedStep
  <2>4. CASE FreeNext \/ FreePool
    BY <2>4 DEF FreeNext, FreePool
  <2> QED
    BY <2>2, <2>3, <2>4 DEF LNext, CreateThread, InitReturns, InitFails,
       RespawnNumThreads, DestroyEx, MayDestroy, Using, Sweeping
<1> QED
  BY <1>1, Life, PTL DEF LSpec, WalkIsUndisturbed
=============================================================================
