---------------------------- MODULE DiscreteHMM ----------------------------
(***************************************************************************)
(* ImgML/hmm.cpp: a hidden Markov model over a finite alphabet (DHMM).     *)
(* Probabilities are natural numbers up to a factor: a column of the       *)
(* forward or backward matrix stands for all its multiples.  The factor in *)
(* _scale is one over its sum; where that is infinite, no numbers are left *)
(* from there on: NoColumn stands for NaNs and infinities.                 *)
(***************************************************************************)
EXTENDS Integers, Sequences, SequencesExt

CONSTANTS
  NumStates,     \* _nstates
  Symbols,       \* what is observed, as columns of the emission matrix
  Models,        \* parameters, as weights: [transition, initial, emission]
  MaxLength      \* bound: length of a sequence

ASSUME DiscreteAssumption ==
  /\ NumStates \in Nat \ {0} /\ MaxLength \in Nat \ {0}
  /\ Models \subseteq [transition : [1 .. NumStates -> [1 .. NumStates -> Nat]],
                       initial : [1 .. NumStates -> Nat],
                       emission : [1 .. NumStates -> [Symbols -> Nat]]]

VARIABLES
  parameters, \* _transition, _initial and _emission, set by setData
  alpha,      \* the columns of _alpha; their number is that of _scale, too
  beta,       \* the columns of _beta
  forward,    \* history: the model and the sequence alpha was computed for, and by what
  backward,   \* history: the same of beta, and the forward whose factors it took
  broken      \* an index out of range

hmmVars == <<parameters, alpha, beta, forward, backward, broken>>

Total(s) == FoldLeft(LAMBDA a, b : a + b, 0, s)
StateNumbers == 1 .. NumStates

(***************************************************************************)
(* DHMM                                                                    *)
(***************************************************************************)
\* Column 0 weighs the first symbol already, and column 1 weighs it again.
FirstAlpha(s) == [j \in StateNumbers |-> parameters.emission[j][s[1]] * parameters.initial[j]]

\* One over the sum of a column of zeros is infinite, and the column no numbers; so is all that
\* is computed from it.
NoColumn == <<>>
Scaled(columns) ==
  [i \in DOMAIN columns |-> IF Total(columns[i]) = 0 THEN NoColumn ELSE columns[i]]

\* backwardMatrix takes the factor of the next forward column each time.
Rescaled(columns, scaled) ==
  [i \in DOMAIN columns |->
     IF \E k \in i + 1 .. Len(columns) : scaled[k] = NoColumn THEN NoColumn ELSE columns[i]]

\* forwardMatrixI starts in the first state.
FirstState == [j \in StateNumbers |-> IF j = 1 THEN 1 ELSE 0]

\* The columns of forwardMatrix from the first on, one for each symbol.
SymbolOf(s, i) == s[i]

ForwardColumns(first, s) ==
  FoldLeft(LAMBDA columns, i :
             Append(columns,
                    [j \in StateNumbers |->
                       parameters.emission[j][SymbolOf(s, i)]
                         * Total([k \in StateNumbers |->
                                    parameters.transition[k][j] * Last(columns)[k]])]),
           <<first>>, [i \in DOMAIN s |-> i])

\* The columns of backwardMatrix, from the last to the first.
BackwardColumns(s) ==
  FoldRight(LAMBDA i, columns :
              <<[j \in StateNumbers |->
                   Total([k \in StateNumbers |->
                            Head(columns)[k] * parameters.emission[k][s[i]]
                              * parameters.transition[j][k]])]>> \o columns,
            [i \in DOMAIN s |-> i], <<[j \in StateNumbers |-> 1]>>)

Sequences == UNION {[1 .. n -> Symbols] : n \in 1 .. MaxLength}
Nobody == [model |-> <<>>, of |-> <<>>]

HmmInit ==
  /\ parameters \in Models
  /\ alpha = <<>> /\ beta = <<>>
  /\ forward = Nobody /\ backward = Nobody
  /\ broken = FALSE

\* setData: the matrices stay as they are.
SetData ==
  /\ ~broken
  /\ parameters' \in Models
  /\ UNCHANGED <<alpha, beta, forward, backward, broken>>

\* forwardMatrix makes the matrices anew.
ForwardMatrix(s) ==
  /\ ~broken
  /\ alpha' = Scaled(ForwardColumns(FirstAlpha(s), s))
  /\ forward' = [model |-> parameters, of |-> s, by |-> "forwardMatrix"]
  /\ UNCHANGED <<parameters, beta, backward, broken>>

\* forwardMatrixI writes into those of an earlier call, which must be long enough; what it does
\* not reach stays.
ForwardMatrixI(s) ==
  /\ ~broken
  /\ IF Len(alpha) > Len(s)
     THEN /\ alpha' = Scaled(ForwardColumns(FirstState, s))
                        \o SubSeq(alpha, Len(s) + 2, Len(alpha))
          /\ forward' = [model |-> parameters, of |-> s, by |-> "forwardMatrixI"]
          /\ UNCHANGED broken
     ELSE broken' = TRUE /\ UNCHANGED <<alpha, forward>>
  /\ UNCHANGED <<parameters, beta, backward>>

\* backwardMatrix reads the factors of the forward matrix.
BackwardMatrix(s) ==
  /\ ~broken
  /\ IF Len(alpha) > Len(s)
     THEN /\ beta' = Rescaled(BackwardColumns(s), alpha)
          /\ backward' = [model |-> parameters, of |-> s, scaled |-> forward]
          /\ UNCHANGED broken
     ELSE broken' = TRUE /\ UNCHANGED <<beta, backward>>
  /\ UNCHANGED <<parameters, alpha, forward>>

\* likelyhood: both, and the product of the factors, which is the last sum over the first.
Likelyhood(s) ==
  /\ ~broken
  /\ alpha' = Scaled(ForwardColumns(FirstAlpha(s), s))
  /\ forward' = [model |-> parameters, of |-> s, by |-> "forwardMatrix"]
  /\ beta' = Rescaled(BackwardColumns(s), alpha')
  /\ backward' = [model |-> parameters, of |-> s, scaled |-> forward']
  /\ UNCHANGED <<parameters, broken>>

HmmNext ==
  \/ SetData
  \/ \E s \in Sequences :
       ForwardMatrix(s) \/ ForwardMatrixI(s) \/ BackwardMatrix(s) \/ Likelyhood(s)

HmmSpec == HmmInit /\ [][HmmNext]_hmmVars

(***************************************************************************)
(* Properties                                                              *)
(***************************************************************************)
\* The sum over all paths of states, from given weights of the first one on.
WeightOfPath(m, first, path, s) ==
  FoldLeft(LAMBDA w, i : w * m.transition[path[i]][path[i + 1]] * m.emission[path[i + 1]][s[i]],
           first[path[1]], [i \in DOMAIN s |-> i])
WeightFrom(m, first, s) ==
  MapThenSumSet(LAMBDA path : WeightOfPath(m, first, path, s),
                [1 .. Len(s) + 1 -> StateNumbers])

\* The weight of a sequence by definition.
WeightOfSequence(m, s) ==
  WeightFrom(m, [j \in StateNumbers |-> m.emission[j][Head(s)] * m.initial[j]], Tail(s))

\* What the forward matrices weigh: forwardMatrix the sequence with its first symbol twice
\* (lines 71 and 77, where the comment at 55 speaks of x1 ... xn), forwardMatrixI what follows a
\* silent start in the first state.
Weight(f) ==
  IF f.by = "forwardMatrix" THEN WeightOfSequence(f.model, <<Head(f.of)>> \o f.of)
  ELSE WeightFrom(f.model, FirstState, f.of)

\* Where both matrices were computed for the same sequence and parameters, in whatever calls and
\* with whatever calls in between, each column of the one fits that of the other as long as both
\* are numbers: their product is the weight that the forward matrix gives.  And where the factors
\* are those of this sequence, they are numbers throughout unless that weight is zero; then there
\* are some that are none, and likelyhood answers none (forwardMatrix, forwardMatrixI,
\* backwardMatrix, likelyhood).
ForwardMeetsBackward ==
  (/\ backward # Nobody
   /\ forward.model = backward.model /\ forward.of = backward.of) =>
     /\ \A i \in DOMAIN beta :
          NoColumn \notin {alpha[i], beta[i]} =>
            Total([j \in StateNumbers |-> alpha[i][j] * beta[i][j]]) = Weight(forward)
     /\ backward.scaled = forward =>
          ((\E i \in DOMAIN beta : NoColumn \in {alpha[i], beta[i]}) <=> Weight(forward) = 0)

=============================================================================
