---------------------------- MODULE MarkovChain ----------------------------
(***************************************************************************)
(* ImgML/markovchain.cpp: sequences drawn from a Markov chain, and their   *)
(* probability.  Probabilities are multiples of one over Denominator.      *)
(***************************************************************************)
EXTENDS Integers, Sequences, SequencesExt

CONSTANTS
  ChainStates,     \* rows and columns of the transition matrix
  Denominator,   \* what each row adds up to
  ChainLength      \* bound: length of a sequence

ASSUME ChainAssumption ==
  ChainStates \in Nat \ {0} /\ Denominator \in Nat \ {0} /\ ChainLength \in Nat \ {0}

VARIABLES
  transition, initial,   \* _transition and _initial
  result,                \* the sequence generated last
  zeroDrawn,             \* history: one of the random numbers it took was zero
  outside                \* a state was drawn that the matrices do not have

chainVars == <<transition, initial, result, zeroDrawn, outside>>

RowSum(s) == FoldLeft(LAMBDA a, b : a + b, 0, s)
ChainNumbers == 1 .. ChainStates
Rows == {r \in [ChainNumbers -> 0 .. Denominator] : RowSum(r) = Denominator}

\* computeProbability
Probability(s) ==
  FoldLeft(LAMBDA w, i : w * transition[s[i]][s[i + 1]], initial[s[1]],
           [i \in 1 .. Len(s) - 1 |-> i])

\* The running sum and the number drawn.
Passes(u, sum) == u > sum

\* initialRand: the sum starts with the corner of the matrix, whatever the row is, and states
\* are passed while the number drawn is greater; past the last one there is no column.
InitialRand(corner, row, u) ==
  LET sum(i) == corner + RowSum(SubSeq(row, 2, i))
  IN IF \A i \in ChainNumbers : Passes(u, sum(i)) THEN ChainStates + 1
     ELSE CHOOSE i \in ChainNumbers :
            ~Passes(u, sum(i)) /\ \A j \in 1 .. i - 1 : Passes(u, sum(j))

ChainInit ==
  /\ transition \in [ChainNumbers -> Rows]
  /\ initial \in Rows
  /\ result = <<>>
  /\ zeroDrawn = FALSE
  /\ outside = FALSE

\* setModel
SetModel ==
  /\ ~outside
  /\ transition' \in [ChainNumbers -> Rows]
  /\ initial' \in Rows
  /\ result' = <<>>
  /\ zeroDrawn' = FALSE
  /\ UNCHANGED outside

\* generateSequence of n states.  rand gives a number in [0, 1], zero and one among them.  A row
\* that is not there ends the process.
Generate(n) ==
  /\ ~outside
  /\ \E us \in [1 .. n -> 0 .. Denominator] :
       /\ result' =
            FoldLeft(LAMBDA s, u :
                       IF s = <<>> THEN <<InitialRand(initial[1], initial, u)>>
                       ELSE IF Last(s) > ChainStates THEN s
                       ELSE Append(s, InitialRand(transition[1][1], transition[Last(s)], u)),
                     <<>>, us)
       /\ zeroDrawn' = (\E i \in 1 .. n : us[i] = 0)
  /\ outside' = (\E i \in DOMAIN result' : result'[i] > ChainStates)
  /\ UNCHANGED <<transition, initial>>

ChainNext == SetModel \/ \E n \in 1 .. ChainLength : Generate(n)

ChainSpec == ChainInit /\ [][ChainNext]_chainVars

(***************************************************************************)
(* Properties                                                              *)
(***************************************************************************)
\* The weight that the q-th state had in the row it was drawn from.
WeightDrawn(q) == IF q = 1 THEN initial[result[1]] ELSE transition[result[q - 1]][result[q]]

\* What the chain generates it gives a probability to, but for its first state.  That one is drawn
\* from rows that give it no weight, too: by a number that is zero, and with any number as long as
\* the corner of the transition matrix is not zero, which each sum of its rows starts from in the
\* place of the row's own weight (line 50, where the comment speaks of the row to consider).  No
\* other state is ever drawn without a weight; and no draw is outside the matrices unless some row
\* starts with a greater weight than the first, so that its sum stays below one (initialRand,
\* generateSequence, computeProbability).
GeneratedIsPossible ==
  /\ outside => \E i \in ChainNumbers : transition[i][1] > transition[1][1]
  /\ result # <<>> /\ ~outside /\ Probability(result) = 0 =>
       \E q \in DOMAIN result :
         /\ WeightDrawn(q) = 0 /\ result[q] = 1
         /\ zeroDrawn \/ (q > 1 /\ transition[1][1] > 0)

=============================================================================
