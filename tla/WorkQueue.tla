------------------------------ MODULE WorkQueue ------------------------------
(***************************************************************************)
(* What a worker pool promises its clients, without threads, locks or      *)
(* condition variables: a bounded first-in first-out queue of work items,  *)
(* each of which is submitted at most once, started at most once and only  *)
(* after everything submitted before it has been started, and completed    *)
(* only after it was started.                                              *)
(***************************************************************************)
EXTENDS Naturals, Sequences

CONSTANT Work      \* the work items clients may submit

VARIABLES
  bound,           \* how many items may be pending, fixed when the pool is made
  pending,         \* the submitted items that wait for a worker, oldest first
  started,         \* the items a worker has taken and not completed
  completed        \* the items whose handler has returned

vars == <<bound, pending, started, completed>>

Known == {pending[i] : i \in 1..Len(pending)} \cup started \cup completed

Init ==
  /\ bound \in Nat
  /\ pending = <<>>
  /\ started = {}
  /\ completed = {}

Submit(x) ==
  /\ Len(pending) < bound
  /\ x \notin Known
  /\ pending' = Append(pending, x)
  /\ UNCHANGED <<bound, started, completed>>

Start(x) ==
  /\ pending # <<>>
  /\ x = Head(pending)
  /\ pending' = Tail(pending)
  /\ started' = started \cup {x}
  /\ UNCHANGED <<bound, completed>>

Complete(x) ==
  /\ x \in started
  /\ started' = started \ {x}
  /\ completed' = completed \cup {x}
  /\ UNCHANGED <<bound, pending>>

Next == \E x \in Work : Submit(x) \/ Start(x) \/ Complete(x)

Spec == Init /\ [][Next]_vars
=============================================================================
