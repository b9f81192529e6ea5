--------------------------- MODULE MCConfigClients ---------------------------
(***************************************************************************)
(* Instance for TLC: names are interchangeable.  -5 needs a long long, is  *)
(* not exact in a float, and is minus two and a half as a FLOAT; an int is *)
(* set through a FLOAT.  NumbersSurvive tries all numbers on every setting *)
(* it meets.                                                               *)
(***************************************************************************)
EXTENDS ConfigClients, TLC
MCTried == {-5}
NameSymmetry == Permutations(Names)
=============================================================================
