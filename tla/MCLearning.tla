---------------------------- MODULE MCLearning ----------------------------
(***************************************************************************)
(* The learners, for TLC.  They share nothing, so that a program is made   *)
(* that uses one of them; the others are made and left alone.              *)
(***************************************************************************)
EXTENDS Training, RandomFerns, SequenceClassifier, DiscreteHMM, MarkovChain

VARIABLE learner

vars == <<learner, trainingVars, fernsVars, classifierVars, hmmVars, chainVars>>

(***************************************************************************)
(* Parameters of the models                                                *)
(***************************************************************************)
Emits(a, b) == [o \in {"a", "b"} |-> IF o = "a" THEN a ELSE b]

\* Two states and one or two Gaussians each; the second model never goes back, starts in one
\* state only and has a symbol that its second state never shows.
Ergodic ==
  [transition |-> <<<<1, 3>>, <<2, 2>>>>, initial |-> <<2, 1>>, missing |-> {},
   emission |-> <<<<Emits(1, 1), Emits(0, 1)>>, <<Emits(2, 1), Emits(1, 0)>>>>]
LeftToRight ==
  [transition |-> <<<<1, 1>>, <<0, 2>>>>, initial |-> <<3, 0>>, missing |-> {},
   emission |-> <<<<Emits(1, 2)>>, <<Emits(2, 0)>>>>]

\* A good file, one whose second model lacks a state, one with fewer models than it says, and
\* one that cannot be read.
LearnerFiles ==
  {[readable |-> TRUE, nclasses |-> 2, models |-> <<Ergodic, LeftToRight>>],
   [readable |-> TRUE, nclasses |-> 2,
    models |-> <<Ergodic, [LeftToRight EXCEPT !.missing = {2}]>>],
   [readable |-> TRUE, nclasses |-> 2, models |-> <<LeftToRight>>],
   [readable |-> FALSE, nclasses |-> 1, models |-> <<Ergodic>>]}

\* In the second model nothing but the start shows a.
DiscreteModels ==
  {[transition |-> <<<<1, 2>>, <<2, 1>>>>, initial |-> <<2, 1>>,
    emission |-> <<Emits(1, 2), Emits(3, 1)>>],
   [transition |-> <<<<0, 1>>, <<0, 2>>>>, initial |-> <<1, 0>>,
    emission |-> <<Emits(2, 1), Emits(0, 3)>>]}

(***************************************************************************)
(* One learner at a time                                                   *)
(***************************************************************************)
IdleTraining == kind = "regression" /\ TrainingInit
\* What points added later say of a patch: no to each fern, or yes.
SameBits == {[i \in 0 .. 1 |-> 0], [i \in 0 .. 1 |-> 1]}

\* Patches in the order of their classes and codes: which is which does not matter.
Rank(p) == (IF label[p] THEN 4 ELSE 0) + 2 * looks[p][0] + looks[p][1]
Ranked == \A p, q \in Patches : p < q => Rank(p) <= Rank(q)

IdleFerns ==
  /\ looks = [p \in Patches |-> [i \in Ferns |-> 0]]
  /\ label = [p \in Patches |-> FALSE]
  /\ FernsInit
IdleHmm == parameters = (CHOOSE m \in Models : TRUE) /\ HmmInit
IdleChain ==
  /\ initial = [i \in ChainNumbers |-> IF i = 1 THEN Denominator ELSE 0]
  /\ transition = [i \in ChainNumbers |-> initial]
  /\ ChainInit

Init ==
  /\ ClassifierInit
  /\ \/ learner = "training" /\ TrainingInit /\ IdleFerns /\ IdleHmm /\ IdleChain
     \/ learner = "ferns" /\ IdleTraining /\ FernsInit /\ Ranked /\ IdleHmm /\ IdleChain
     \/ learner = "classifier" /\ IdleTraining /\ IdleFerns /\ IdleHmm /\ IdleChain
     \/ learner = "hmm" /\ IdleTraining /\ IdleFerns /\ HmmInit /\ IdleChain
     \/ learner = "chain" /\ IdleTraining /\ IdleFerns /\ IdleHmm /\ ChainInit

UseTraining ==
  /\ learner = "training"
  /\ TrainingNext
  /\ UNCHANGED <<learner, fernsVars, classifierVars, hmmVars, chainVars>>
UseFerns(action) ==
  /\ learner = "ferns"
  /\ action
  /\ UNCHANGED <<learner, trainingVars, classifierVars, hmmVars, chainVars>>
UseClassifier ==
  /\ learner = "classifier"
  /\ ClassifierNext
  /\ UNCHANGED <<learner, trainingVars, fernsVars, hmmVars, chainVars>>
UseHmm ==
  /\ learner = "hmm"
  /\ HmmNext
  /\ UNCHANGED <<learner, trainingVars, fernsVars, classifierVars, chainVars>>
UseChain ==
  /\ learner = "chain"
  /\ ChainNext
  /\ UNCHANGED <<learner, trainingVars, fernsVars, classifierVars, hmmVars>>

Next == UseTraining \/ UseFerns(FernsNext) \/ UseClassifier \/ UseHmm \/ UseChain

\* A teacher of the ferns goes on with every patch; nothing else is fair.
Spec ==
  /\ Init /\ [][Next]_vars
  /\ \A p \in Patches : WF_vars(UseFerns(LearnPatch(p)))

-----------------------------------------------------------------------------
\* The three Markov models: what the classifier answers step by step is a sum over all paths, and
\* what it answers for a whole sequence no probability at all; the discrete model's forward and
\* backward matrices fit each other and weigh the first symbol twice; and the chain gives a
\* probability to what it generates, but for a first state drawn without one (hmm.cpp, hmm.hpp,
\* markovchain.cpp).
MarkovModelsHold == ModelsAreSound /\ ForwardMeetsBackward /\ GeneratedIsPossible
=============================================================================
