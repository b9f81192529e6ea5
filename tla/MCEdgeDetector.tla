--------------------------- MODULE MCEdgeDetector ---------------------------
(* Images of 5 by 5 pixels, every pixel of the border above all thresholds. *)
EXTENDS EdgeDetector, TLC

Inner == (1 .. 3) \X (1 .. 3)

MCImages == {[p \in (0 .. 4) \X (0 .. 4) |-> IF p \in Inner THEN m[p] ELSE 2] :
               m \in [Inner -> 0 .. 2]}

\* Two pairs in turn: what starts a trace is weaker than what continues it, and stronger.
InTurn == {[lower |-> <<0, 1>>, higher |-> <<1, 0>>]}
=============================================================================
