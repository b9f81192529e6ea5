------------------------------ MODULE Training ------------------------------
(***************************************************************************)
(* Training of the Python classifiers.  Optimizer.run feeds a classifier   *)
(* with slices of the training data and calls it back after every step;    *)
(* three classifiers are trained in this way or by a loop of their own:    *)
(*   "regression"   PyVision/LogisticRegression.py, with the optimizer     *)
(*   "perceptron"   PyVision/MLPHiddenLayer.py, with the optimizer; it     *)
(*                  saves itself while it trains and is loaded at a start  *)
(*   "theano"       LogisticRegression.py, with a loop of its own          *)
(* Parameters are the sequence of the slices they were learnt from.  What  *)
(* a validation finds is arbitrary.  A process may die at any time; what   *)
(* it wrote to the model file stays.                                       *)
(***************************************************************************)
EXTENDS Integers, Sequences, SequencesExt

CONSTANTS
  Kinds,                 \* the classifiers that are trained
  Samples,               \* the number of training samples
  BatchSize,             \* batch_size
  MaxEpochs,             \* maxiter
  ValidationFrequency,   \* 10
  Patience,              \* 10000
  Errors,                \* what a validation may find, in thousandths
  MaxStarts              \* bound: processes that are started

ASSUME TrainingAssumption ==
  /\ Kinds \subseteq {"regression", "perceptron", "theano"}
  /\ Samples \in Nat /\ MaxEpochs \in Nat /\ Patience \in Nat
  /\ BatchSize \in Nat \ {0} /\ ValidationFrequency \in Nat \ {0}
  /\ Errors \subseteq Nat
  /\ MaxStarts \in Nat \ {0}

VARIABLES
  kind,      \* the class of the classifier
  pc,        \* where the training stands
  epoch, index, iter,                     \* the loops of run, the steps made
  args,      \* the slice the classifier computes with
  model,     \* the classifier: its hidden layers, their parameters, those of the output
  step,      \* what learn returned to the optimizer
  best, bestIter, patience,               \* best_validation_loss, best_iter, patience
  records,   \* validation_errors, each with its step and parameters (of theano's: history)
  file,      \* the parts in the model file
  dumped,    \* the parts of the model that save has written
  kept,      \* history: the model of the last save that wrote every part
  starts     \* processes started

trainingVars == <<kind, pc, epoch, index, iter, args, model, step, best, bestIter, patience,
          records, file, dumped, kept, starts>>

optimizer == <<epoch, index, iter, best, bestIter, patience, records>>
disk == <<file, dumped, kept>>

(***************************************************************************)
(* Data                                                                    *)
(***************************************************************************)
\* n_train_batches: the rest of the division is never trained with.
Batches == Samples \div BatchSize

\* x[i * batch_size : (i + 1) * batch_size]; the bounds of a slice are cut to the array.
Slice(i) == {s \in 0 .. Samples - 1 : i * BatchSize <= s /\ s < (i + 1) * BatchSize}

\* np.inf: more than every error.
Infinity == 1000001

\* A classifier nobody trained.  Of the perceptron the runs take one hidden layer or none, and it
\* has labels when it was trained or loaded; only theano's has a bias of its own, the others keep
\* it among their parameters.
Fresh(layers) ==
  [layers |-> layers, labels |-> FALSE, hidden |-> <<>>, output |-> <<>>, bias |-> <<>>]
Layers(k) == IF k = "perceptron" THEN {0, 1} ELSE {0}

\* What the save of the perceptron writes, in order: how many hidden layers, the labels, each
\* hidden layer, the output layer; and that of theano's: weights, bias and the two sizes.
Parts(m) ==
  IF kind = "theano"
  THEN <<[part |-> "W", is |-> m.output], [part |-> "b", is |-> m.bias],
         [part |-> "n_in"], [part |-> "n_classes"]>>
  ELSE <<[part |-> "layers", is |-> m.layers], [part |-> "labels"]>>
         \o [i \in 1 .. m.layers |-> [part |-> "hidden", is |-> m.hidden]]
         \o <<[part |-> "output", is |-> m.output]>>

\* MLP.pyvision1, as it comes with the code.  Its hidden layer has the marks of a merge conflict
\* in it: no more than the parts before can be read.
GivenFile == <<[part |-> "layers", is |-> 1], [part |-> "labels"]>>

\* open(file_name, 'wb') leaves an empty file.
\* Mutant: theano's is opened to append.
OpenedToAppend == IF kind = "theano" THEN file ELSE <<>>
Opened == <<>>

\* The n-th part of the file, or what the classifier has when the file ends before.
PartOr(n, own) == IF n <= Len(file) THEN file[n].is ELSE own

(***************************************************************************)
(* Start                                                                   *)
(***************************************************************************)
\* set_datasets and the beginning of run: nothing of an earlier training is left.
FreshOptimizer ==
  /\ epoch' = 0 /\ index' = 0 /\ iter' = 0
  /\ best' = Infinity /\ bestIter' = 0 /\ patience' = Patience
  /\ records' = <<>>
  /\ args' = Slice(0)

TrainingInit ==
  /\ kind \in Kinds
  /\ \E h \in Layers(kind) : model = Fresh(h)
  /\ kept = Fresh(0)
  /\ file = IF kind = "perceptron" THEN GivenFile ELSE <<>>
  /\ pc = "start"
  /\ epoch = 0 /\ index = 0 /\ iter = 0
  /\ args = {} /\ step = <<>> /\ dumped = 0
  /\ best = Infinity /\ bestIter = 0 /\ patience = Patience
  /\ records = <<>>
  /\ starts = 1

\* train: the perceptron takes its labels from the data; an optimizer is made, given the data and
\* run.  Theano's loop starts alike.
Train ==
  /\ pc = "start"
  /\ FreshOptimizer
  /\ model' = [model EXCEPT !.labels = @ \/ kind = "perceptron"]
  /\ pc' = "epoch"
  /\ UNCHANGED <<kind, step, disk, starts>>

(***************************************************************************)
(* The loops                                                               *)
(***************************************************************************)
\* while epoch < maxiter and not done_looping: nothing ever sets done_looping.
Epoch ==
  /\ pc = "epoch"
  /\ IF epoch < MaxEpochs
     THEN pc' = "batch" /\ epoch' = epoch + 1 /\ index' = 0
     ELSE pc' = "done" /\ UNCHANGED <<epoch, index>>
  /\ UNCHANGED <<kind, iter, args, model, step, best, bestIter, patience, records, disk,
                 starts>>

\* The slice of a batch is handed to the classifier.
\* Mutant: after the first batch the callback's slice is left to it.
HandedOnce == IF iter = 0 THEN Slice(index) ELSE args
Handed == Slice(index)
Batch ==
  /\ pc = "batch"
  /\ IF index < Batches
     THEN pc' = "learn" /\ args' = Handed
     ELSE pc' = "epoch" /\ UNCHANGED args
  /\ UNCHANGED <<kind, epoch, index, iter, model, step, best, bestIter, patience, records,
                 disk, starts>>

(***************************************************************************)
(* learn                                                                   *)
(***************************************************************************)
\* The regression leaves its parameters alone and returns the new ones.
LearnRegression ==
  /\ kind = "regression"
  /\ step' = Append(model.output, args)
  /\ pc' = "callback"
  /\ UNCHANGED model

\* The perceptron moves its output layer itself and returns nothing.  With a hidden layer it gets
\* no further than its forward pass: sigmoid_stable asks whether an array is positive.
LearnPerceptron ==
  /\ kind = "perceptron"
  /\ IF model.layers > 0
     THEN pc' = "raised" /\ UNCHANGED <<model, step>>
     ELSE /\ model' = [model EXCEPT !.output = Append(@, args)]
          /\ step' = <<>>
          /\ pc' = "callback"

\* train_model updates weights and bias in one call.
LearnTheano ==
  /\ kind = "theano"
  /\ model' = [model EXCEPT !.output = Append(@, args), !.bias = Append(@, args)]
  /\ pc' = "callback"
  /\ UNCHANGED step

Learn ==
  /\ pc = "learn"
  /\ LearnRegression \/ LearnPerceptron \/ LearnTheano
  /\ UNCHANGED <<kind, optimizer, args, disk, starts>>

(***************************************************************************)
(* local_callback                                                          *)
(***************************************************************************)
IsValidated(i) == i % ValidationFrequency = 0

\* The three errors are found with what the classifier has now, and kept for the plot.
Recorded(e) == Append(records, [iter |-> iter + 1, with |-> model.output, error |-> e])

\* A step that is not validated.
PassValidation ==
  /\ pc = "callback"
  /\ ~IsValidated(iter + 1)
  /\ iter' = iter + 1
  /\ pc' = "install"
  /\ UNCHANGED <<kind, epoch, index, args, model, step, best, bestIter, patience, records,
                 disk, starts>>

\* A validation.  Then the classifier is called with flag 0: the regression installs the step,
\* the perceptron opens its file, which empties it.
Validate ==
  /\ pc = "callback"
  /\ IsValidated(iter + 1)
  /\ iter' = iter + 1
  /\ \E e \in Errors : records' = Recorded(e)
  /\ IF kind = "regression" THEN model' = [model EXCEPT !.output = step] ELSE UNCHANGED model
  /\ IF kind = "perceptron"
     THEN pc' = "save" /\ file' = Opened /\ dumped' = 0
     ELSE pc' = "judge" /\ UNCHANGED <<file, dumped>>
  /\ UNCHANGED <<kind, epoch, index, args, step, best, bestIter, patience, kept, starts>>

\* error3 < best * improvement_threshold
IsSignificant(e, b) == 1000 * e < 995 * b

\* error3 < best_validation_loss
\* Mutant: an equal error is an improvement.
ImprovesOrEquals(e, b) == e <= b
Improves(e, b) == e < b

\* The validation error against the best one.  The best one is replaced before the improvement
\* is measured against it.
Judge ==
  /\ pc = "judge"
  /\ kind # "theano"
  /\ LET e == Last(records).error
     IN IF Improves(e, best)
        THEN /\ best' = e
             /\ bestIter' = iter
             /\ patience' = IF IsSignificant(e, best') /\ 2 * iter > patience
                            THEN 2 * iter ELSE patience
        ELSE /\ patience' = IF iter + iter \div 2 < patience
                            THEN iter + iter \div 2 ELSE patience
             /\ UNCHANGED <<best, bestIter>>
  /\ pc' = "install"
  /\ UNCHANGED <<kind, epoch, index, iter, args, model, step, records, disk, starts>>

\* validation of theano's classifier keeps the best error and nothing else of it.
JudgeTheano ==
  /\ pc = "judge"
  /\ kind = "theano"
  /\ best' = IF Improves(Last(records).error, best) THEN Last(records).error ELSE best
  /\ pc' = "install"
  /\ UNCHANGED <<kind, epoch, index, iter, args, model, step, bestIter, patience, records,
                 disk, starts>>

\* The call with flag 1 installs the step; then the slice numbered by the steps is handed over,
\* which is empty from some step on.  Theano's loop does neither.
Install ==
  /\ pc = "install"
  /\ IF kind = "regression" THEN model' = [model EXCEPT !.output = step] ELSE UNCHANGED model
  /\ IF kind = "theano" THEN UNCHANGED args ELSE args' = Slice(iter)
  /\ index' = index + 1
  /\ pc' = "batch"
  /\ UNCHANGED <<kind, epoch, iter, step, best, bestIter, patience, records, disk, starts>>

(***************************************************************************)
(* save and load                                                           *)
(***************************************************************************)
\* save, called by the program: before a training, or after theano's.
OpenForSave ==
  /\ \/ pc = "start" /\ kind = "perceptron"
     \/ pc = "done" /\ kind = "theano"
  /\ file' = Opened
  /\ dumped' = 0
  /\ pc' = "save"
  /\ UNCHANGED <<kind, optimizer, args, model, step, kept, starts>>

\* A perceptron without labels cannot write them.
CanDump(n) == Parts(model)[n].part = "labels" => model.labels

\* One part is written.
Dump ==
  /\ pc = "save"
  /\ dumped < Len(Parts(model))
  /\ CanDump(dumped + 1)
  /\ file' = Append(file, Parts(model)[dumped + 1])
  /\ dumped' = dumped + 1
  /\ kept' = IF dumped' = Len(Parts(model)) THEN model ELSE kept
  /\ UNCHANGED <<kind, pc, optimizer, args, model, step, starts>>

DumpRaises ==
  /\ pc = "save"
  /\ dumped < Len(Parts(model))
  /\ ~CanDump(dumped + 1)
  /\ pc' = "raised"
  /\ UNCHANGED <<kind, optimizer, args, model, step, disk, starts>>

\* The file is closed.  The perceptron goes on where it was called from.
CloseSaved ==
  /\ pc = "save"
  /\ dumped = Len(Parts(model))
  /\ dumped' = 0
  /\ pc' = IF kind = "theano" THEN "saved" ELSE IF epoch > 0 THEN "judge" ELSE "start"
  /\ UNCHANGED <<kind, optimizer, args, model, step, file, kept, starts>>

\* Every part is set as it is read; a file that ends too early raises.
LoadTheano ==
  /\ kind = "theano"
  /\ model' = [model EXCEPT !.output = PartOr(1, @), !.bias = PartOr(2, @)]
  /\ pc' = IF Len(file) >= 4 THEN "start" ELSE "raised"

\* The perceptron takes its sizes from the first hidden layer at the end, which raises when
\* there is none.
LoadPerceptron ==
  /\ kind = "perceptron"
  /\ LET layers == PartOr(1, model.layers)
     IN /\ model' = [model EXCEPT !.layers = layers,
                                  !.labels = @ \/ Len(file) >= 2,
                                  !.hidden = IF Len(file) < 2 THEN @
                                             ELSE IF layers = 0 THEN <<>> ELSE PartOr(3, <<>>),
                                  !.output = PartOr(layers + 3, @)]
        /\ pc' = IF Len(file) >= layers + 3 /\ layers > 0 THEN "start" ELSE "raised"

\* A file that is not there raises, too.
Load ==
  /\ pc = "start"
  /\ IF file = <<>>
     THEN pc' = "raised" /\ kind # "regression" /\ UNCHANGED model
     ELSE LoadTheano \/ LoadPerceptron
  /\ UNCHANGED <<kind, optimizer, args, step, disk, starts>>

(***************************************************************************)
(* The process                                                             *)
(***************************************************************************)
Crash ==
  /\ pc \notin {"dead", "raised", "saved"}
  /\ pc' = "dead"
  /\ UNCHANGED <<kind, optimizer, args, model, step, disk, starts>>

\* Another process; the file is all that is left of the last one.
Restart ==
  /\ pc \in {"dead", "raised", "saved"}
  /\ starts < MaxStarts
  /\ starts' = starts + 1
  /\ \E h \in Layers(kind) : model' = Fresh(h)
  /\ epoch' = 0 /\ index' = 0 /\ iter' = 0
  /\ best' = Infinity /\ bestIter' = 0 /\ patience' = Patience
  /\ records' = <<>>
  /\ args' = {} /\ step' = <<>> /\ dumped' = 0
  /\ pc' = "start"
  /\ UNCHANGED <<kind, file, kept>>

Progress ==
  \/ Train \/ Epoch \/ Batch \/ Learn
  \/ PassValidation \/ Validate \/ Judge \/ JudgeTheano \/ Install
  \/ OpenForSave \/ Dump \/ DumpRaises \/ CloseSaved \/ Load

TrainingNext == Progress \/ Crash \/ Restart

TrainingSpec == TrainingInit /\ [][TrainingNext]_trainingVars

(***************************************************************************)
(* Properties                                                              *)
(***************************************************************************)
TrainingTypeOK ==
  /\ kind \in Kinds
  /\ pc \in {"start", "epoch", "batch", "learn", "callback", "judge", "install", "save",
             "saved", "done", "raised", "dead"}
  /\ epoch \in 0 .. MaxEpochs /\ index \in 0 .. Batches /\ iter \in 0 .. MaxEpochs * Batches
  /\ args \subseteq 0 .. Samples - 1
  /\ best \in Errors \cup {Infinity} /\ bestIter \in 0 .. iter
  /\ patience \in 0 .. Patience
  /\ starts \in 1 .. MaxStarts

\* The batches are learnt in turn, each as a whole and each from the parameters the one before
\* it led to, although the callback hands the classifier slices of its own count and other
\* errors are found in between; and a training that comes to its end made every epoch
\* (Optimizer.run, local_callback; learn of the classifiers).
LearntInTurn ==
  /\ \A n \in 1 .. Len(model.output) : model.output[n] = Slice((n - 1) % Batches)
  /\ kind = "theano" => model.bias = model.output \/ pc = "raised"
  /\ pc = "done" => iter = MaxEpochs * Batches

\* The best error is the least one found, at the first step that found it.  The perceptron and
\* theano's regression find the errors of the step's own parameters, PyVision's regression those
\* of the step before: it gets the step from the callback, after the errors (local_callback,
\* validation).
BestIsOnRecord ==
  /\ \A n \in DOMAIN records :
       LET behind == IF kind = "regression" THEN 1 ELSE 0
       IN (Len(records[n].with) - records[n].iter + behind) % (MaxEpochs * Batches) = 0
  /\ pc \notin {"save", "judge", "dead"} =>
       /\ \A n \in DOMAIN records : best <= records[n].error
       /\ bestIter > 0 =>
            \E n \in DOMAIN records :
              /\ records[n].iter = bestIter /\ records[n].error = best
              /\ \A m \in 1 .. n - 1 : records[m].error > best

\* A load that does not raise gives the model of the last save that wrote every part, whatever
\* process wrote it and wherever others died or raised; and it is theano's.  The perceptron loads
\* nothing: the file it comes with is broken, and those it can write have no hidden layer, from
\* which load takes the sizes (save, load).
LoadsWhatWasKept ==
  [][Load /\ pc' = "start" => model' = kept /\ kind = "theano"]_trainingVars

=============================================================================
