---------------------------- MODULE PoolLifecycle ----------------------------
(***************************************************************************)
(* The life of a pool around ThreadPool: ThreadPool::init creates the      *)
(* workers one by one, and they run before it returns; tpool_destroyEx     *)
(* walks the queue and frees the pool, and neither stops nor joins anyone. *)
(* Also the respawn counter, which clients keep in the pool.               *)
(***************************************************************************)
EXTENDS ThreadPool

CONSTANTS
  InitMayFail,     \* whether a pthread call of init may fail
  MaxRespawn       \* bound on respawn

ASSUME LifecycleAssumption ==
  /\ InitMayFail \in BOOLEAN
  /\ MaxRespawn \in Nat

VARIABLES
  phase,           \* creating, up, destroying, freed; failed; crashed
  created,         \* how many workers init has created
  freed,           \* the items whose node tpool_destroyEx has freed
  respawn

life  == <<phase, created, freed, respawn>>
lvars == <<vars, life>>

LInit ==
  /\ Init
  /\ phase = "creating" /\ created = 0 /\ freed = {} /\ respawn = 0

PoolExists == phase \in {"creating", "up", "destroying"}

CreateThread ==
  /\ phase = "creating" /\ created < NumThreads
  /\ created' = created + 1
  /\ UNCHANGED <<vars, phase, freed, respawn>>

InitReturns ==
  /\ phase = "creating" /\ created = NumThreads
  /\ phase' = "up"
  /\ UNCHANGED <<vars, created, freed, respawn>>

\* init frees the thread array and the pool, whatever it has created by then.
InitFails ==
  /\ InitMayFail
  /\ phase = "creating"
  /\ phase' = "failed"
  /\ UNCHANGED <<vars, created, freed, respawn>>

RespawnNumThreads ==
  /\ phase = "up" /\ queue_lock = NoThread
  /\ respawn < MaxRespawn
  /\ respawn' = respawn + 1
  /\ UNCHANGED <<vars, phase, created, freed>>

-----------------------------------------------------------------------------
(* tpool_destroyEx. The owner calls it when no client is inside the pool,   *)
(* after tpool_cleanup or without it.                                      *)

MayDestroy ==
  /\ phase = "up"
  /\ cleanup # "loop"
  /\ \A c \in Clients : pc[c] \in {"idle", "dead"}

DestroyExUnlocked ==
  /\ MayDestroy
  /\ phase' = "destroying"
  /\ UNCHANGED <<vars, created, freed, respawn>>

DestroyEx ==
  /\ MayDestroy
  /\ queue_lock = NoThread
  /\ queue_lock' = Owner
  /\ phase' = "destroying"
  /\ UNCHANGED <<fixed, flags, fields, pc, my_work, node, owner, vouched,
                 created, freed, respawn>>

\* One turn of the loop: queue_head moves to its successor, which is then freed; the
\* node it moved from is not. Reading the successor of a freed node is undefined.
FreeNext ==
  /\ phase = "destroying" /\ queue # <<>>
  /\ IF Head(queue) \in freed
       THEN phase' = "crashed" /\ UNCHANGED <<queue, freed>>
       ELSE /\ queue' = Tail(queue)
            /\ freed' = freed \cup (IF Len(queue) > 1 THEN {queue[2]} ELSE {})
            /\ UNCHANGED phase
  /\ UNCHANGED <<fixed, flags, cur_queue_size, num_threads_working, queue_lock, pc,
                 my_work, node, owner, vouched, created, respawn>>

FreePool ==
  /\ phase = "destroying" /\ queue = <<>>
  /\ queue_lock' = NoThread
  /\ phase' = "freed"
  /\ UNCHANGED <<fixed, flags, fields, pc, my_work, node, owner, vouched,
                 created, freed, respawn>>

-----------------------------------------------------------------------------
Running(w) == PoolExists /\ w < created /\ Worker(w) /\ UNCHANGED life

Using == phase = "up" /\ UNCHANGED life

Sweeping == Using /\ Cleanup

LNext ==
  \/ CreateThread \/ InitReturns \/ InitFails \/ RespawnNumThreads
  \/ DestroyEx \/ FreeNext \/ FreePool
  \/ \E w \in Workers : Running(w)
  \/ \E c \in Clients : Using /\ Client(c)
  \/ \E t \in Threads : PoolExists /\ SpuriousWakeup(t) /\ UNCHANGED life
  \/ Using /\ CallCleanup
  \/ Sweeping

LSpec == LInit /\ [][LNext]_lvars

\* A worker cancelled in its wait.
Cancelled(w) == PoolExists /\ w < created /\ CancelWait(w) /\ UNCHANGED life

\* The fairness of ThreadPool; init and tpool_destroyEx run to their end; and
\* pthread_cond_wait, a cancellation point, acts on a pending request in the end also
\* when it keeps being woken.
LFairSpec ==
  /\ LSpec
  /\ \A w \in Workers : SF_lvars(Running(w)) /\ SF_lvars(Cancelled(w))
  /\ \A c \in Clients : SF_lvars(Using /\ AddWork(c))
  /\ SF_lvars(Sweeping)
  /\ WF_lvars(CreateThread \/ InitReturns \/ FreeNext \/ FreePool)

-----------------------------------------------------------------------------
\* While tpool_destroyEx walks the queue nobody takes from it or adds to it, even when
\* workers still run: the owner and a worker never free the same node.
WalkIsUndisturbed ==
  [][phase = "destroying" =>
       \A x \in Work : node[x] = "queued" <=> node'[x] = "queued"]_lvars

\* tpool_cleanup returns, unless a thread left with queue_lock held: every worker it
\* cancels exits, whether it sleeps, waits for the lock or runs a handler.
CleanupReturns ==
  cleanup = "loop" ~> cleanup = "returned" \/ ~NobodyLeavesWithTheLock

\* tpool_destroyEx: "clean up memory". The nodes still queued are all freed, and no
\* freed node is read.
DestroyFreesTheQueue ==
  /\ phase # "crashed"
  /\ phase = "freed" => \A x \in Work : node[x] = "queued" => x \in freed
=============================================================================
