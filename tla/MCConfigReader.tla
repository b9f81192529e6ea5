--------------------------- MODULE MCConfigReader ---------------------------
(***************************************************************************)
(* Instance for TLC: the tokens of texts that were written by hand; names  *)
(* are interchangeable.  3 and -3 are one and a half as FLOATs, which is   *)
(* not printed in full, -5 needs a long long.                              *)
(***************************************************************************)
EXTENDS ConfigReader
MCTried == {-5, -3, 0, 3}
NameSymmetry == Permutations(Names)
MCTokens ==
    {NameToken(name) : name \in Names} \cup
    {Token(t) : t \in {"EQUALS", "INTEGER", "STRING", "GARBAGE", "COMMA", "SEMICOLON",
                       "ARRAY_START", "ARRAY_END", "LIST_START", "LIST_END",
                       "GROUP_START", "GROUP_END"}}
=============================================================================
