------------------------- MODULE SequenceClassifier -------------------------
(***************************************************************************)
(* ImgML: CHMMClassifier, its hidden Markov models (CHMM) and the mixtures *)
(* of Gaussians they emit from (GaussianMixture).  The models are loaded   *)
(* from a configuration and then asked for a sequence, as a whole or one   *)
(* observation after the other.                                            *)
(*                                                                         *)
(* The code computes with logarithms of probabilities.  Here a logarithm   *)
(* is what it is the logarithm of, a natural number up to a factor: a sum  *)
(* of logarithms is a product, logsumexp is a sum, the logarithm of zero   *)
(* is 0.  Odd stands for what is no such number: a NaN, memory nobody      *)
(* wrote, and products of logarithms.                                      *)
(***************************************************************************)
EXTENDS Integers, Sequences, SequencesExt

CONSTANTS
  States,          \* hidden states
  Observations,    \* what a row of a sequence may be
  Configurations,  \* what files say: [readable, nclasses, models], see below
  MaxSeqLen,       \* _maxseqlen, 50 unless setData is told otherwise
  MaxModels        \* bound: models in the classifier
  \* A model of a configuration is [transition, initial, emission, missing]: the first two are
  \* weights, emission[s] the Gaussians of a state, each the weights it gives to observations,
  \* and missing the states whose settings are not there.

Odd == -1

ASSUME SequencesAssumption ==
  /\ MaxSeqLen \in Nat \ {0} /\ MaxModels \in Nat
  /\ IsFiniteSet(States) /\ States # {}
  /\ \A c \in Configurations :
       /\ c.readable \in BOOLEAN /\ c.nclasses \in Nat
       /\ c.models \in Seq([transition : [States -> [States -> Nat]], initial : [States -> Nat],
                            emission : [States -> Seq([Observations -> Nat])],
                            missing : SUBSET States])

VARIABLES
  hmm,       \* _hmm: the models, each with its columns and its count
  heard,     \* history: for each model what it was told since an initial step, if that matters
  answers,   \* what classifyI or classify returned last
  stepwise,  \* history: it was classifyI
  aborted    \* an index out of range: Eigen ends the process, or memory is overwritten

classifierVars == <<hmm, heard, answers, stepwise, aborted>>

(***************************************************************************)
(* Arithmetic                                                              *)
(***************************************************************************)
\* A sum of two logarithms.
Times(a, b) == IF a = Odd \/ b = Odd THEN Odd ELSE a * b

SumOf(s) == FoldLeft(LAMBDA a, b : a + b, 0, s)

\* logsumexp takes the greatest away from each: when that is minus infinity, nothing is left.
LogSumExp(s) ==
  IF (\E n \in DOMAIN s : s[n] = Odd) \/ (\A n \in DOMAIN s : s[n] = 0) THEN Odd ELSE SumOf(s)

InOrder == SetToSeq(States)
Over(f) == [n \in 1 .. Len(InOrder) |-> f[InOrder[n]]]

(***************************************************************************)
(* GaussianMixture                                                         *)
(***************************************************************************)
\* A component nobody set.
Unset == [o \in Observations |-> Odd]

EmptyMixture == [index |-> 0, components |-> <<>>]

\* setnmix resizes; the components that fit stay, and so does the index.
SetNMix(g, n) ==
  [g EXCEPT !.components = [k \in 1 .. n |-> IF k <= Len(@) THEN @[k] ELSE Unset]]

\* setGaussian stores at the index; past the components it writes outside.
SetGaussian(g, gaussian) ==
  [index |-> g.index + 1,
   components |-> IF g.index < Len(g.components)
                  THEN [g.components EXCEPT ![g.index + 1] = gaussian] ELSE g.components]

\* Prob
Prob(g, o) == LogSumExp([k \in 1 .. Len(g.components) |-> g.components[k][o]])

(***************************************************************************)
(* CHMM                                                                    *)
(***************************************************************************)
OddColumn == [s \in States |-> Odd]
Columns == [i \in 0 .. MaxSeqLen - 1 |-> OddColumn]

\* The mixture of a state: a new one, sized, and a Gaussian stored for each component.
MixtureOf(gaussians) ==
  FoldLeft(SetGaussian, SetNMix(EmptyMixture, Len(gaussians)), gaussians)

\* loadConf of a model and setData: new matrices, but a count nobody sets.
Loaded(model, count) ==
  [transition |-> model.transition, initial |-> model.initial,
   emission |-> [s \in States |-> MixtureOf(model.emission[s])],
   alpha |-> Columns, scale |-> [i \in 0 .. MaxSeqLen - 1 |-> Odd], count |-> count]

\* The column of forwardMatrixIterative at i: from the initial weights at the start, else from
\* the column before.
FirstColumn(m, o) == [s \in States |-> Times(Prob(m.emission[s], o), m.initial[s])]
\* Mutant: the transitions are taken backwards.
NextTransposed(m, o, i) ==
  [s \in States |->
     Times(Prob(m.emission[s], o),
           LogSumExp(Over([r \in States |-> Times(m.transition[s][r], m.alpha[i - 1][r])])))]
NextColumn(m, o, i) ==
  [s \in States |->
     Times(Prob(m.emission[s], o),
           LogSumExp(Over([r \in States |-> Times(m.transition[r][s], m.alpha[i - 1][r])])))]

\* predictIterative: an initial step starts at the first column with new matrices; every step
\* leaves a column, the sum over it and a count that is one more.
Predicted(m, o, init) ==
  LET i == IF init THEN 0 ELSE m.count
      column == IF init \/ i = 0 THEN FirstColumn(m, o) ELSE NextColumn(m, o, i)
  IN [m EXCEPT !.alpha = [(IF init THEN Columns ELSE @) EXCEPT ![i] = column],
               !.scale = [@ EXCEPT ![i] = LogSumExp(Over(column))],
               !.count = i + 1]

IsInRange(m, init) == init \/ m.count \in 0 .. MaxSeqLen - 1

\* forwardMatrix of a whole sequence multiplies logarithms, in the same matrices.
Overwritten(m, length) ==
  [m EXCEPT !.alpha = [i \in DOMAIN @ |-> IF i < length THEN OddColumn ELSE @[i]],
            !.scale = [i \in DOMAIN @ |-> IF i < length THEN Odd ELSE @[i]]]

(***************************************************************************)
(* CHMMClassifier                                                          *)
(***************************************************************************)
ClassifierInit ==
  /\ hmm = <<>> /\ heard = <<>>
  /\ answers = <<>> /\ stepwise = TRUE
  /\ aborted = FALSE

\* Nothing is known of a model that had no initial step.
Unknown == [known |-> FALSE, said |-> <<>>]

\* The models a configuration gives before something is missing in it.
Whole(c) == {n \in 1 .. Len(c.models) : c.models[n].missing = {}}
Available(c) ==
  CHOOSE n \in 0 .. c.nclasses :
    /\ 1 .. n \subseteq Whole(c)
    /\ n = c.nclasses \/ n + 1 \notin Whole(c)

\* loadConf: each model is appended when it is complete; what is missing raises and leaves those
\* before it.  A file that cannot be read changes nothing.  The models that are there stay.
LoadConf ==
  /\ ~aborted
  /\ \E c \in Configurations :
       /\ c.readable
       /\ Len(hmm) + Available(c) <= MaxModels
       /\ \E count \in {0, MaxSeqLen} :                   \* what the memory held
            hmm' = hmm \o [n \in 1 .. Available(c) |-> Loaded(c.models[n], count)]
       /\ heard' = heard \o [n \in 1 .. Available(c) |-> Unknown]
  /\ answers' = <<>>
  /\ UNCHANGED <<stepwise, aborted>>

\* classifyI: every model is told the observation, in turn.
ClassifyI(o, init) ==
  /\ ~aborted
  /\ hmm # <<>>
  /\ IF \A n \in DOMAIN hmm : IsInRange(hmm[n], init)
     THEN /\ hmm' = [n \in DOMAIN hmm |-> Predicted(hmm[n], o, init)]
          /\ answers' = [n \in DOMAIN hmm |-> hmm'[n].scale[hmm'[n].count - 1]]
          /\ stepwise' = TRUE
          /\ heard' = [n \in DOMAIN hmm |->
                         IF init THEN [known |-> TRUE, said |-> <<o>>]
                         ELSE IF heard[n].known THEN [heard[n] EXCEPT !.said = Append(@, o)]
                         ELSE Unknown]
          /\ UNCHANGED aborted
     ELSE aborted' = TRUE /\ UNCHANGED <<hmm, heard, answers, stepwise>>

\* classify: every model gets the whole sequence, and answers with the logarithms of sums of
\* products of logarithms; it is the last column that a step after it would have gone on from.
Classify(length) ==
  /\ ~aborted
  /\ hmm # <<>>
  /\ IF length <= MaxSeqLen
     THEN /\ hmm' = [n \in DOMAIN hmm |-> Overwritten(hmm[n], length)]
          /\ heard' = [n \in DOMAIN hmm |->
                         IF length >= hmm[n].count THEN Unknown ELSE heard[n]]
          /\ answers' = [n \in DOMAIN hmm |-> Odd]
          /\ stepwise' = FALSE
          /\ UNCHANGED aborted
     ELSE aborted' = TRUE /\ UNCHANGED <<hmm, heard, answers, stepwise>>

ClassifierNext ==
  \/ LoadConf
  \/ \E o \in Observations, init \in BOOLEAN : ClassifyI(o, init)
  \/ \E length \in 1 .. MaxSeqLen + 1 : Classify(length)

ClassifierSpec == ClassifierInit /\ [][ClassifierNext]_classifierVars

(***************************************************************************)
(* Properties                                                              *)
(***************************************************************************)
\* The weight of a sequence by definition: the sum over all paths of states of the weight of the
\* path and of what it emits.
Emitted(m, s, o) == SumOf([k \in 1 .. Len(m.emission[s].components) |->
                             m.emission[s].components[k][o]])
PathWeight(m, path, said) ==
  FoldLeft(LAMBDA w, i : w * m.transition[path[i - 1]][path[i]] * Emitted(m, path[i], said[i]),
           m.initial[path[1]] * Emitted(m, path[1], said[1]),
           [i \in 1 .. Len(said) - 1 |-> i + 1])
SequenceWeight(m, said) ==
  MapThenSumSet(LAMBDA path : PathWeight(m, path, said), [1 .. Len(said) -> States])

\* A model in which nothing is impossible.
IsPositive(m) ==
  /\ \A s \in States : m.initial[s] > 0 /\ \A r \in States : m.transition[r][s] > 0
  /\ \A s \in States, o \in Observations : Emitted(m, s, o) > 0

\* What a model answers after a step is the weight of all it heard since the initial step, by
\* definition, whatever was loaded or classified as a whole in between unless that reached its
\* last column; or it is not a number, which happens only when the model holds something for
\* impossible.  What it answers for a whole sequence is no weight of anything, whatever the model:
\* the whole forward pass was left as it is for probabilities when setData took their logarithms
\* (lines 190, 226, 236; predictIterative, forwardMatrixIterative, logsumexp, classify, loadConf).
AnswersAreForward ==
  \A n \in DOMAIN answers :
    /\ stepwise /\ heard[n].known =>
         /\ answers[n] # Odd => answers[n] = SequenceWeight(hmm[n], heard[n].said)
         /\ IsPositive(hmm[n]) => answers[n] # Odd
    /\ ~stepwise => answers[n] = Odd

\* Every model of the classifier is complete: each component of each state is one of the
\* Gaussians of its own state and none was stored outside, also when a load came to nothing
\* half-way (CHMMClassifier.loadConf, CHMM.loadConf, setnmix, setGaussian).
MixturesAreWhole ==
  \A n \in DOMAIN hmm : \A s \in States :
    LET g == hmm[n].emission[s]
    IN /\ g.index = Len(g.components)
       /\ \E c \in Configurations : \E k \in DOMAIN c.models :
            /\ c.models[k].transition = hmm[n].transition
            /\ g.components = c.models[k].emission[s]

\* The models are complete, and answer what they should (CHMM, CHMMClassifier).
ModelsAreSound == AnswersAreForward /\ MixturesAreWhole

=============================================================================
