--------------------------- MODULE LearningProofs ---------------------------
(***************************************************************************)
(* Proofs about the learners.  Of Training, for any number of samples,     *)
(* epochs, processes and any errors: a load that does not raise gives the  *)
(* model of the last save that wrote every part (LoadsWhatWasKept),        *)
(* wherever processes died; the batches are learnt in turn                 *)
(* (LearntInTurn); and the best error is on record (BestIsOnRecord).  Of   *)
(* the Markov models, for any numbers of states, symbols and steps, any    *)
(* weights and any files (MarkovModelsHold): the discrete model's matrices *)
(* and the classifier's columns sum up over all paths of states, the       *)
(* classifier's models are complete, and the chain generates nothing that  *)
(* it holds for impossible but for a first state.                          *)
(***************************************************************************)
EXTENDS MCLearning, FiniteSetTheorems, FunctionTheorems, SequenceTheorems,
        WellFoundedInduction, TLAPS

-----------------------------------------------------------------------------
(* Types.                                                                  *)

Slices == Seq(SUBSET Int)

ModelType ==
  [layers : {0, 1}, labels : BOOLEAN, hidden : Slices, output : Slices, bias : Slices]

PartType ==
  [part : {"layers"}, is : {0, 1}] \cup [part : {"hidden", "output", "W", "b"}, is : Slices]
    \cup {[part |-> "labels"], [part |-> "n_in"], [part |-> "n_classes"]}

\* What a model of this kind has besides the parts that save writes.
OfKind(m) ==
  /\ kind = "theano" => m.layers = 0 /\ ~m.labels /\ m.hidden = <<>>
  /\ kind = "perceptron" => m.bias = <<>>

-----------------------------------------------------------------------------
(* The file.                                                               *)

\* A file that ends before the last part that its beginning announces.
TooShort ==
  \/ file = <<>>
  \/ kind = "theano" /\ Len(file) < 4
  \/ kind = "perceptron" /\ file[1].is \in {0, 1} /\ Len(file) < file[1].is + 3

\* The file is that of the last complete save, or no complete one.
FileIsKept ==
  \/ file = Parts(kept) /\ OfKind(kept) /\ (kind = "perceptron" => kept.labels = TRUE)
  \/ TooShort

\* In the middle of a save the file is the beginning of the model's parts, and the model is
\* kept with the last of them.
SaveInv ==
  pc = "save" =>
    /\ Len(file) = dumped /\ dumped <= Len(Parts(model))
    /\ \A j \in 1 .. dumped : file[j] = Parts(model)[j]
    /\ kind = "perceptron" /\ dumped >= 2 => model.labels = TRUE
    /\ dumped = Len(Parts(model)) => kept = model

KeepInv ==
  /\ kind \in {"regression", "perceptron", "theano"}
  /\ file \in Seq(PartType) /\ dumped \in Nat
  /\ kept \in ModelType
  /\ args \in SUBSET Int /\ step \in Slices
  /\ kind = "regression" => file = <<>> /\ pc # "save"
  /\ pc \notin {"raised", "dead", "saved"} => model \in ModelType /\ OfKind(model)
  /\ SaveInv
  /\ FileIsKept

-----------------------------------------------------------------------------
(* Parts.                                                                  *)

\* The parts of theano's classifier.
LEMMA TheanoParts ==
  ASSUME kind = "theano", NEW m \in ModelType
  PROVE  /\ Parts(m) \in Seq(PartType) /\ Len(Parts(m)) = 4
         /\ Parts(m)[1].is = m.output /\ Parts(m)[2].is = m.bias
<1>1. Parts(m) = <<[part |-> "W", is |-> m.output], [part |-> "b", is |-> m.bias],
                   [part |-> "n_in"], [part |-> "n_classes"]>>
  BY DEF Parts
<1>2. /\ [part |-> "W", is |-> m.output] \in PartType
      /\ [part |-> "b", is |-> m.bias] \in PartType
      /\ [part |-> "n_in"] \in PartType
      /\ [part |-> "n_classes"] \in PartType
  BY DEF PartType, ModelType
<1> HIDE DEF PartType
<1> QED
  BY <1>1, <1>2

\* Short sequences, appended to.
LEMMA AppendTuples ==
  ASSUME NEW S, NEW a \in S, NEW b \in S, NEW c \in S, NEW d \in S
  PROVE  Append(<<a, b>>, c) = <<a, b, c>> /\ Append(<<a, b, c>>, d) = <<a, b, c, d>>
<1>1. <<a, b>> \in Seq(S) /\ <<a, b, c>> \in Seq(S) /\ <<a, b, c, d>> \in Seq(S)
  OBVIOUS
<1>2. Append(<<a, b>>, c) = <<a, b, c>>
  <2> DEFINE s == Append(<<a, b>>, c)
  <2>1. /\ s \in Seq(S) /\ Len(s) = 3 /\ \A i \in 1 .. 2 : s[i] = <<a, b>>[i]
        /\ s[3] = c
    BY <1>1, AppendProperties
  <2> HIDE DEF s
  <2>2. \A i \in 1 .. 3 : s[i] = <<a, b, c>>[i]
    BY <2>1
  <2>3. Len(<<a, b, c>>) = 3
    OBVIOUS
  <2> QED
    BY <1>1, <2>1, <2>2, <2>3, SeqEqual DEF s
<1>3. Append(<<a, b, c>>, d) = <<a, b, c, d>>
  <2> DEFINE s == Append(<<a, b, c>>, d)
  <2>1. /\ s \in Seq(S) /\ Len(s) = 4 /\ \A i \in 1 .. 3 : s[i] = <<a, b, c>>[i]
        /\ s[4] = d
    BY <1>1, AppendProperties
  <2> HIDE DEF s
  <2>2. \A i \in 1 .. 4 : s[i] = <<a, b, c, d>>[i]
    BY <2>1
  <2>3. Len(<<a, b, c, d>>) = 4
    OBVIOUS
  <2> QED
    BY <1>1, <2>1, <2>2, <2>3, SeqEqual DEF s
<1> QED
  BY <1>2, <1>3

\* The parts of the others: the number of hidden layers comes first.
LEMMA LayeredParts ==
  ASSUME kind # "theano", NEW m \in ModelType
  PROVE  /\ Parts(m) \in Seq(PartType) /\ Len(Parts(m)) = m.layers + 3
         /\ Parts(m)[1].is = m.layers
         /\ Parts(m)[2].part = "labels"
         /\ m.layers = 1 => Parts(m)[3].is = m.hidden
         /\ Parts(m)[m.layers + 3].is = m.output
<1> DEFINE a == [part |-> "layers", is |-> m.layers]
           b == [part |-> "labels"]
           h == [part |-> "hidden", is |-> m.hidden]
           o == [part |-> "output", is |-> m.output]
<1>1. a \in PartType /\ b \in PartType /\ h \in PartType /\ o \in PartType
  BY DEF PartType, ModelType
<1>2. Parts(m) = <<a, b>> \o [i \in 1 .. m.layers |-> h] \o <<o>>
  BY DEF Parts
<1>3. a.is = m.layers /\ b.part = "labels" /\ h.is = m.hidden /\ o.is = m.output
  OBVIOUS
<1>4. m.layers = 0 \/ m.layers = 1
  BY DEF ModelType
<1> HIDE DEF PartType, a, b, h, o
<1>5. CASE m.layers = 0
  <2>1. [i \in 1 .. m.layers |-> h] = <<>>
    BY <1>5
  <2>2. <<a, b>> \in Seq(PartType) /\ <<o>> \in Seq(PartType)
    BY <1>1
  <2>3. <<a, b>> \o <<>> = <<a, b>>
    BY <2>2, ConcatEmptySeq
  <2>4. <<a, b>> \o <<o>> = Append(<<a, b>>, o)
    BY <1>1, <2>2, AppendIsConcat
  <2>5. Append(<<a, b>>, o) = <<a, b, o>>
    BY <1>1, AppendTuples
  <2>6. Parts(m) = <<a, b, o>>
    BY <1>2, <2>1, <2>3, <2>4, <2>5
  <2> QED
    BY <1>1, <1>3, <1>5, <2>6
<1>6. CASE m.layers = 1
  <2>1. [i \in 1 .. m.layers |-> h] = <<h>>
    BY <1>6
  <2>2. <<a, b>> \in Seq(PartType) /\ <<a, b, h>> \in Seq(PartType)
    BY <1>1
  <2>3. <<a, b>> \o <<h>> = Append(<<a, b>>, h)
    BY <1>1, <2>2, AppendIsConcat
  <2>4. <<a, b, h>> \o <<o>> = Append(<<a, b, h>>, o)
    BY <1>1, <2>2, AppendIsConcat
  <2>5. Append(<<a, b>>, h) = <<a, b, h>> /\ Append(<<a, b, h>>, o) = <<a, b, h, o>>
    BY <1>1, AppendTuples
  <2>6. Parts(m) = <<a, b, h, o>>
    BY <1>2, <2>1, <2>3, <2>4, <2>5
  <2> QED
    BY <1>1, <1>3, <1>6, <2>6
<1> QED
  BY <1>4, <1>5, <1>6

\* Whatever the kind, a model has parts to write, each of its type.
LEMMA SomeParts ==
  ASSUME NEW m \in ModelType
  PROVE  Parts(m) \in Seq(PartType) /\ Len(Parts(m)) \in Nat /\ Len(Parts(m)) >= 3
<1>1. m.layers \in {0, 1}
  BY DEF ModelType
<1> QED
  BY <1>1, TheanoParts, LayeredParts

\* A file that a save left in the middle is too short.
LEMMA CutIsTooShort ==
  ASSUME KeepInv, kind # "regression", NEW m \in ModelType,
         Len(file) < Len(Parts(m)), \A j \in 1 .. Len(file) : file[j] = Parts(m)[j]
  PROVE  TooShort
<1>1. Len(file) \in Nat /\ (Len(file) = 0 => file = <<>>)
  BY EmptySeq, LenProperties DEF KeepInv
<1>2. CASE kind = "theano"
  BY <1>2, TheanoParts DEF TooShort
<1>3. CASE kind = "perceptron" /\ Len(file) > 0
  <2>1. file[1].is = m.layers /\ Len(file) < m.layers + 3
    BY <1>1, <1>3, LayeredParts
  <2>2. m.layers \in {0, 1}
    BY DEF ModelType
  <2> QED
    BY <1>3, <2>1, <2>2 DEF TooShort
<1> QED
  BY <1>1, <1>2, <1>3 DEF KeepInv, TooShort

-----------------------------------------------------------------------------
(* The steps.                                                              *)

\* A slice is a set of numbers.
LEMMA SliceType == ASSUME TrainingAssumption, NEW i PROVE Slice(i) \in SUBSET Int
BY DEF Slice, TrainingAssumption

\* The initial states satisfy the invariant.
LEMMA InitKeepInv == ASSUME TrainingAssumption, TrainingInit PROVE KeepInv
<1>1. kind \in {"regression", "perceptron", "theano"}
  BY DEF TrainingInit, TrainingAssumption
<1>2. PICK h \in Layers(kind) : model = Fresh(h)
  BY DEF TrainingInit
<1>3. model \in ModelType /\ OfKind(model)
  BY <1>1, <1>2 DEF Layers, Fresh, ModelType, Slices, OfKind
<1>4. kept \in ModelType
  BY DEF TrainingInit, Fresh, ModelType, Slices
<1>5. file = IF kind = "perceptron" THEN GivenFile ELSE <<>>
  BY DEF TrainingInit
<1>6. file \in Seq(PartType)
  <2>1. [part |-> "layers", is |-> 1] \in PartType /\ [part |-> "labels"] \in PartType
    BY DEF PartType
  <2>2. <<[part |-> "layers", is |-> 1], [part |-> "labels"]>> \in Seq(PartType)
    BY <2>1
  <2>3. <<>> \in Seq(PartType)
    OBVIOUS
  <2> QED
    BY <1>5, <2>2, <2>3 DEF GivenFile
<1>7. FileIsKept
  BY <1>1, <1>5 DEF FileIsKept, TooShort, GivenFile
<1> QED
  BY <1>1, <1>3, <1>4, <1>5, <1>6, <1>7 DEF KeepInv, SaveInv, TrainingInit, Slices

\* What a step leaves alone when it touches neither the file nor what was kept.
LEMMA DiskUntouched ==
  ASSUME KeepInv, kind' = kind, UNCHANGED disk PROVE FileIsKept'
BY DEF KeepInv, disk, FileIsKept, TooShort, OfKind, Parts

\* Steps of a training: they keep the model's type and leave the file alone.
LEMMA LoopKeepInv ==
  ASSUME TrainingAssumption, KeepInv,
         Train \/ Epoch \/ Batch \/ Learn \/ PassValidation \/ Judge \/ JudgeTheano \/ Install
  PROVE  KeepInv'
<1>1. kind' = kind /\ UNCHANGED disk /\ pc' # "save" /\ pc \notin {"raised", "dead", "saved"}
  BY DEF Train, Epoch, Batch, Learn, LearnRegression, LearnPerceptron, LearnTheano,
    PassValidation, Judge, JudgeTheano, Install, disk
<1>2. FileIsKept'
  BY <1>1, DiskUntouched
<1>3. args' \in SUBSET Int
  BY SliceType DEF KeepInv, Train, FreshOptimizer, Epoch, Batch, Handed, Learn, PassValidation,
    Judge, JudgeTheano, Install
<1>4. step' \in Slices
  <2>1. CASE Learn
    <3>1. args \in SUBSET Int /\ model.output \in Slices /\ step \in Slices
      BY <1>1 DEF KeepInv, ModelType
    <3>2. Append(model.output, args) \in Slices
      BY <3>1, AppendProperties DEF Slices
    <3> QED
      <4>1. <<>> \in Slices
        BY DEF Slices
      <4>2. step' \in {Append(model.output, args), <<>>, step}
        BY <2>1 DEF Learn, LearnRegression, LearnPerceptron, LearnTheano
      <4> QED
        BY <3>1, <3>2, <4>1, <4>2
  <2>2. CASE ~Learn
    BY <2>2 DEF KeepInv, Train, Epoch, Batch, PassValidation, Judge, JudgeTheano, Install
  <2> QED
    BY <2>1, <2>2
<1>5. model' \in ModelType /\ OfKind(model)'
  <2>1. model \in ModelType /\ OfKind(model) /\ args \in SUBSET Int /\ step \in Slices
    BY <1>1 DEF KeepInv
  <2>2. CASE Train
    BY <1>1, <2>1, <2>2 DEF Train, ModelType, OfKind
  <2>3. CASE Learn
    <3>1. model.output \in Slices /\ model.bias \in Slices
      BY <2>1 DEF ModelType
    <3>2. Append(model.output, args) \in Slices /\ Append(model.bias, args) \in Slices
      BY <2>1, <3>1, AppendProperties DEF Slices
    <3>3. CASE LearnRegression
      BY <1>1, <2>1, <3>3 DEF LearnRegression, OfKind
    <3>4. CASE LearnPerceptron
      BY <1>1, <2>1, <3>2, <3>4 DEF LearnPerceptron, ModelType, OfKind
    <3>5. CASE LearnTheano
      BY <1>1, <2>1, <3>2, <3>5 DEF LearnTheano, ModelType, OfKind
    <3> QED
      BY <2>3, <3>3, <3>4, <3>5 DEF Learn
  <2>4. CASE Install
    BY <1>1, <2>1, <2>4 DEF Install, ModelType, OfKind
  <2>5. CASE Epoch \/ Batch \/ PassValidation \/ Judge \/ JudgeTheano
    BY <1>1, <2>1, <2>5 DEF Epoch, Batch, PassValidation, Judge, JudgeTheano, OfKind
  <2> QED
    BY <2>2, <2>3, <2>4, <2>5
<1> QED
  BY <1>1, <1>2, <1>3, <1>4, <1>5 DEF KeepInv, SaveInv, disk

\* A file opened for writing is empty.
LEMMA OpenKeepInv ==
  ASSUME TrainingAssumption, KeepInv, OpenForSave \/ Validate PROVE KeepInv'
<1>1. /\ kind' = kind /\ kept' = kept /\ pc \notin {"raised", "dead", "saved", "save"}
      /\ UNCHANGED <<args, step>>
  BY DEF OpenForSave, Validate, optimizer
<1>2. model \in ModelType /\ OfKind(model) /\ step \in Slices
  BY <1>1 DEF KeepInv
<1>3. model' \in ModelType /\ OfKind(model)'
  BY <1>1, <1>2 DEF OpenForSave, Validate, ModelType, OfKind
<1>4. CASE pc' = "save"
  <2>1. file' = <<>> /\ dumped' = 0 /\ kind # "regression"
    BY <1>4 DEF OpenForSave, Validate, Opened, KeepInv
  <2>2. Len(Parts(model)') \in Nat /\ Len(Parts(model)') >= 3
    <3>1. Parts(model)' = Parts(model')
      BY <1>1 DEF Parts
    <3> QED
      BY <1>3, <3>1, SomeParts
  <2>3. SaveInv'
    BY <2>1, <2>2 DEF SaveInv
  <2>4. FileIsKept'
    BY <2>1 DEF FileIsKept, TooShort
  <2> QED
    BY <1>1, <1>2, <1>3, <2>1, <2>3, <2>4 DEF KeepInv
<1>5. CASE pc' # "save"
  <2>1. UNCHANGED disk /\ pc' = "judge"
    BY <1>1, <1>5 DEF OpenForSave, Validate, disk
  <2>2. FileIsKept'
    BY <1>1, <2>1, DiskUntouched
  <2> QED
    BY <1>1, <1>2, <1>3, <2>1, <2>2 DEF KeepInv, SaveInv, disk
<1> QED
  BY <1>4, <1>5

\* A part is written: the file is the beginning of the model's parts still, or all of them.
LEMMA DumpKeepInv == ASSUME TrainingAssumption, KeepInv, Dump PROVE KeepInv'
<1>1. /\ pc = "save" /\ pc' = "save" /\ kind' = kind /\ model' = model /\ kind # "regression"
      /\ UNCHANGED <<args, step>> /\ dumped' = dumped + 1
      /\ dumped < Len(Parts(model)) /\ CanDump(dumped + 1)
      /\ file' = Append(file, Parts(model)[dumped + 1])
      /\ kept' = IF dumped' = Len(Parts(model)) THEN model ELSE kept
  BY DEF Dump, KeepInv
<1>2. /\ model \in ModelType /\ OfKind(model) /\ file \in Seq(PartType) /\ dumped \in Nat
      /\ Len(file) = dumped /\ \A j \in 1 .. dumped : file[j] = Parts(model)[j]
      /\ kind = "perceptron" /\ dumped >= 2 => model.labels = TRUE
      /\ kind \in {"regression", "perceptron", "theano"}
  BY <1>1 DEF KeepInv, SaveInv
<1>3. /\ Parts(model) \in Seq(PartType) /\ Len(Parts(model)) \in Nat
      /\ Parts(model)' = Parts(model)
  BY <1>1, <1>2, SomeParts DEF Parts
<1>4. Parts(model)[dumped + 1] \in PartType
  BY <1>1, <1>2, <1>3, ElementOfSeq
<1>5. /\ file' \in Seq(PartType) /\ Len(file') = dumped + 1
      /\ \A j \in 1 .. dumped + 1 : file'[j] = Parts(model)[j]
  <2>1. /\ file' \in Seq(PartType) /\ Len(file') = Len(file) + 1
        /\ \A j \in 1 .. Len(file) : file'[j] = file[j]
        /\ file'[Len(file) + 1] = Parts(model)[dumped + 1]
    BY <1>1, <1>2, <1>4, AppendProperties
  <2> QED
    BY <1>2, <2>1
<1>6. kind = "perceptron" /\ dumped' >= 2 => model.labels = TRUE
  <2>1. CASE dumped = 1 /\ kind = "perceptron"
    BY <1>1, <1>2, <2>1, LayeredParts DEF CanDump
  <2>2. dumped' >= 2 => dumped = 1 \/ dumped >= 2
    BY <1>1, <1>2
  <2> QED
    BY <1>2, <2>1, <2>2
<1>7. SaveInv'
  BY <1>1, <1>2, <1>3, <1>5, <1>6 DEF SaveInv
<1>8. CASE dumped + 1 = Len(Parts(model))
  <2>1. kept' = model /\ Parts(kept)' = Parts(model)
    BY <1>1, <1>8 DEF Parts
  <2>2. file' = Parts(model)
    BY <1>3, <1>5, <1>8, SeqEqual
  <2>3. kind = "perceptron" => model.labels = TRUE
    <3>1. dumped' >= 2
      BY <1>1, <1>2, <1>8, SomeParts
    <3> QED
      BY <1>6, <3>1
  <2>4. FileIsKept'
    BY <1>1, <1>2, <2>1, <2>2, <2>3 DEF FileIsKept, OfKind
  <2> QED
    BY <1>1, <1>2, <1>5, <1>7, <2>1, <2>4 DEF KeepInv, OfKind
<1>9. CASE dumped + 1 # Len(Parts(model))
  <2>1. kept' = kept
    BY <1>1, <1>9
  <2>2. Len(file') < Len(Parts(model))
    BY <1>1, <1>2, <1>3, <1>5, <1>9
  <2>3. TooShort'
    <3>1. CASE kind = "theano"
      BY <1>1, <1>2, <1>5, <2>2, <3>1, TheanoParts DEF TooShort
    <3>2. CASE kind = "perceptron"
      <4>1. file'[1] = Parts(model)[1]
        BY <1>2, <1>5
      <4>2. Parts(model)[1].is = model.layers /\ Len(Parts(model)) = model.layers + 3
        BY <1>2, <3>2, LayeredParts
      <4>3. model.layers \in {0, 1}
        BY <1>2 DEF ModelType
      <4> QED
        BY <1>1, <2>2, <3>2, <4>1, <4>2, <4>3 DEF TooShort
    <3> QED
      BY <1>1, <1>2, <3>1, <3>2
  <2>4. FileIsKept'
    BY <2>3 DEF FileIsKept
  <2> QED
    BY <1>1, <1>2, <1>5, <1>7, <2>1, <2>4 DEF KeepInv, OfKind
<1> QED
  BY <1>8, <1>9

\* A save that is over, a process that ends or begins, and a part that cannot be written leave
\* the file as it is.
LEMMA OtherKeepInv ==
  ASSUME TrainingAssumption, KeepInv, DumpRaises \/ CloseSaved \/ Crash \/ Restart PROVE KeepInv'
<1>1. kind' = kind /\ file' = file /\ kept' = kept /\ pc' # "save"
  BY DEF DumpRaises, CloseSaved, Crash, Restart, disk
<1>2. FileIsKept'
  BY <1>1 DEF KeepInv, FileIsKept, TooShort, OfKind, Parts
<1>3. dumped' \in Nat /\ args' \in SUBSET Int /\ step' \in Slices
  <2>1. <<>> \in Slices
    BY DEF Slices
  <2> QED
    <3>1. CASE DumpRaises \/ Crash
      BY <3>1 DEF KeepInv, DumpRaises, Crash, disk
    <3>2. CASE CloseSaved
      BY <3>2 DEF KeepInv, CloseSaved
    <3>3. CASE Restart
      BY <2>1, <3>3 DEF KeepInv, Restart
    <3> QED
      BY <3>1, <3>2, <3>3
<1>4. pc' \notin {"raised", "dead", "saved"} => model' \in ModelType /\ OfKind(model)'
  <2>1. CASE CloseSaved
    BY <1>1, <2>1 DEF CloseSaved, KeepInv, OfKind
  <2>2. CASE Restart
    <3>1. PICK h \in Layers(kind) : model' = Fresh(h)
      BY <2>2 DEF Restart
    <3>2. kind \in {"regression", "perceptron", "theano"}
      BY DEF KeepInv
    <3> QED
      BY <1>1, <3>1, <3>2 DEF Layers, Fresh, ModelType, Slices, OfKind
  <2>3. CASE DumpRaises \/ Crash
    BY <2>3 DEF DumpRaises, Crash
  <2> QED
    BY <2>1, <2>2, <2>3
<1> QED
  BY <1>1, <1>2, <1>3, <1>4 DEF KeepInv, SaveInv

-----------------------------------------------------------------------------
(* Loading.                                                                *)

\* What a load that does not raise has read.
LEMMA LoadGivesKept ==
  ASSUME KeepInv, Load, pc' = "start" PROVE model' = kept /\ OfKind(kept)
<1>1. /\ pc = "start" /\ file # <<>> /\ model \in ModelType /\ OfKind(model)
      /\ kept \in ModelType /\ file \in Seq(PartType)
  BY DEF Load, KeepInv
<1>2. Len(file) \in Nat /\ Len(file) >= 1
  BY <1>1, EmptySeq, LenProperties
<1>3. CASE LoadTheano
  <2>1. kind = "theano" /\ Len(file) >= 4
    BY <1>3 DEF LoadTheano
  <2>2. file = Parts(kept) /\ OfKind(kept)
    BY <1>1, <1>2, <2>1 DEF KeepInv, FileIsKept, TooShort
  <2>3. file[1].is = kept.output /\ file[2].is = kept.bias
    BY <1>1, <2>1, <2>2, TheanoParts
  <2>4. model' = [model EXCEPT !.output = kept.output, !.bias = kept.bias]
    <3>1. PartOr(1, model.output) = kept.output /\ PartOr(2, model.bias) = kept.bias
      BY <1>2, <2>1, <2>3 DEF PartOr
    <3>2. model' = [model EXCEPT !.output = PartOr(1, model.output),
                                 !.bias = PartOr(2, model.bias)]
      BY <1>1, <1>3 DEF LoadTheano, ModelType
    <3> QED
      BY <3>1, <3>2
  <2>5. /\ model.layers = kept.layers /\ model.labels = kept.labels
        /\ model.hidden = kept.hidden
    BY <1>1, <2>1, <2>2 DEF OfKind, ModelType
  <2> QED
    BY <1>1, <2>2, <2>4, <2>5 DEF ModelType
<1>4. CASE LoadPerceptron
  <2>1. kind = "perceptron" /\ Len(file) >= file[1].is + 3 /\ file[1].is > 0
    BY <1>2, <1>4 DEF LoadPerceptron, PartOr
  <2>2. file = Parts(kept) /\ OfKind(kept) /\ kept.labels = TRUE
    <3>1. ~TooShort
      BY <1>1, <1>2, <2>1 DEF TooShort
    <3> QED
      BY <2>1, <3>1 DEF KeepInv, FileIsKept
  <2>3. /\ file[1].is = 1 /\ kept.layers = 1 /\ Len(file) = 4
        /\ file[3].is = kept.hidden /\ file[4].is = kept.output
    <3>1. kept.layers \in {0, 1} /\ file[1].is = kept.layers
      BY <1>1, <2>1, <2>2, LayeredParts DEF ModelType
    <3>2. kept.layers = 1
      BY <2>1, <3>1
    <3> QED
      <4>1. /\ Len(Parts(kept)) = kept.layers + 3 /\ Parts(kept)[3].is = kept.hidden
            /\ Parts(kept)[kept.layers + 3].is = kept.output
        BY <1>1, <2>1, <3>2, LayeredParts
      <4> QED
        BY <2>2, <3>1, <3>2, <4>1
  <2>4. model' = [model EXCEPT !.layers = 1, !.labels = TRUE,
                               !.hidden = kept.hidden, !.output = kept.output]
    <3>1. /\ PartOr(1, model.layers) = 1 /\ PartOr(3, <<>>) = kept.hidden
          /\ PartOr(4, model.output) = kept.output
      BY <2>3 DEF PartOr
    <3>2. \A l \in {1} : l = PartOr(1, model.layers) =>
            model' = [model EXCEPT !.layers = l, !.labels = @ \/ Len(file) >= 2,
                                   !.hidden = IF Len(file) < 2 THEN @
                                              ELSE IF l = 0 THEN <<>> ELSE PartOr(3, <<>>),
                                   !.output = PartOr(l + 3, @)]
      BY <1>4, Zenon DEF LoadPerceptron
    <3>3. (model.labels \/ Len(file) >= 2) = TRUE /\ ~(Len(file) < 2)
      BY <1>1, <2>3 DEF ModelType
    <3> QED
      <4>1. 1 + 3 = 4 /\ 1 # 0 /\ 1 \in {1}
        OBVIOUS
      <4>2. model' = [model EXCEPT !.layers = 1, !.labels = @ \/ Len(file) >= 2,
                                   !.hidden = PartOr(3, <<>>), !.output = PartOr(4, @)]
        BY <3>1, <3>2, <3>3, <4>1
      <4> QED
        BY <1>1, <3>1, <3>3, <4>2 DEF ModelType
  <2>5. model.bias = kept.bias
    BY <1>1, <2>1, <2>2 DEF OfKind
  <2> QED
    BY <1>1, <2>2, <2>3, <2>4, <2>5 DEF ModelType
<1> QED
  BY <1>1, <1>3, <1>4 DEF Load

\* A load keeps the invariant.
LEMMA LoadKeepInv == ASSUME TrainingAssumption, KeepInv, Load PROVE KeepInv'
<1>1. kind' = kind /\ UNCHANGED disk /\ UNCHANGED <<args, step>> /\ pc' # "save"
  BY DEF Load, LoadTheano, LoadPerceptron
<1>2. FileIsKept'
  BY <1>1, DiskUntouched
<1>3. pc' = "raised" \/ pc' = "start"
  BY DEF Load, LoadTheano, LoadPerceptron
<1>4. pc' = "start" => model' \in ModelType /\ OfKind(model)'
  BY <1>1, LoadGivesKept DEF KeepInv, OfKind
<1> QED
  BY <1>1, <1>2, <1>3, <1>4 DEF KeepInv, SaveInv, disk

-----------------------------------------------------------------------------
(* The theorems.                                                           *)

\* Every behaviour satisfies the invariant.
THEOREM Keeping == TrainingSpec => []KeepInv
<1>1. TrainingInit => KeepInv
  BY TrainingAssumption, InitKeepInv
<1>2. KeepInv /\ [TrainingNext]_trainingVars => KeepInv'
  <2> SUFFICES ASSUME KeepInv, [TrainingNext]_trainingVars PROVE KeepInv'
    OBVIOUS
  <2> USE TrainingAssumption
  <2>1. CASE Train \/ Epoch \/ Batch \/ Learn \/ PassValidation \/ Judge \/ JudgeTheano \/ Install
    BY <2>1, LoopKeepInv
  <2>2. CASE OpenForSave \/ Validate
    BY <2>2, OpenKeepInv
  <2>3. CASE Dump
    BY <2>3, DumpKeepInv
  <2>4. CASE DumpRaises \/ CloseSaved \/ Crash \/ Restart
    BY <2>4, OtherKeepInv
  <2>5. CASE Load
    BY <2>5, LoadKeepInv
  <2>6. CASE UNCHANGED trainingVars
    BY <2>6 DEF trainingVars, KeepInv, SaveInv, FileIsKept, TooShort, OfKind, Parts
  <2> QED
    BY <2>1, <2>2, <2>3, <2>4, <2>5, <2>6 DEF TrainingNext, Progress
<1> QED
  BY <1>1, <1>2, PTL DEF TrainingSpec

\* A perceptron without hidden layers is the only one that trains, and one that does not train
\* has no labels: no file gets as far as its hidden layer.
LayersInv ==
  kind = "perceptron" =>
    /\ epoch \in Nat
    /\ pc \in {"batch", "learn", "callback", "judge", "install"} => epoch > 0
    /\ pc \in {"callback", "judge", "install"} \/ (pc = "save" /\ epoch > 0) => model.layers = 0
    /\ pc = "start" \/ (pc = "save" /\ epoch = 0) => model.labels = FALSE
    /\ pc = "start" => epoch = 0
    /\ file # <<>> /\ file[1].is = 1 => Len(file) <= 2

\* At the start.
LEMMA InitLayersInv == ASSUME TrainingAssumption, TrainingInit PROVE LayersInv
BY DEF TrainingInit, LayersInv, GivenFile, Fresh

\* The loops.
LEMMA LoopLayersInv ==
  ASSUME TrainingAssumption, KeepInv, LayersInv,
         Train \/ Epoch \/ Batch \/ Learn \/ PassValidation \/ Judge \/ JudgeTheano \/ Install
  PROVE  LayersInv'
<1> SUFFICES ASSUME kind' = "perceptron" PROVE LayersInv'
  BY DEF LayersInv
<1>1. /\ kind = "perceptron" /\ file' = file /\ pc \notin {"raised", "dead", "saved"}
      /\ model \in ModelType
  BY DEF Train, Epoch, Batch, Learn, PassValidation, Judge, JudgeTheano, Install, disk, KeepInv
<1>2. /\ epoch \in Nat
      /\ pc \in {"batch", "learn", "callback", "judge", "install"} => epoch > 0
      /\ pc \in {"callback", "judge", "install"} => model.layers = 0
      /\ file # <<>> /\ file[1].is = 1 => Len(file) <= 2
  BY <1>1 DEF LayersInv
<1>3. CASE Train
  BY <1>1, <1>2, <1>3 DEF Train, FreshOptimizer, LayersInv
<1>4. CASE Epoch
  <2>1. \/ pc' = "batch" /\ epoch' = epoch + 1
        \/ pc' = "done" /\ epoch' = epoch
    BY <1>4 DEF Epoch
  <2> QED
    BY <1>1, <1>2, <2>1 DEF LayersInv
<1>5. CASE Batch
  BY <1>1, <1>2, <1>5 DEF Batch, LayersInv
<1>6. CASE Learn
  <2>1. pc = "learn" /\ epoch' = epoch /\ LearnPerceptron
    BY <1>1, <1>6 DEF Learn, LearnRegression, LearnTheano, optimizer
  <2>2. \/ pc' = "raised"
        \/ pc' = "callback" /\ model'.layers = 0
    <3>1. model.layers \in {0, 1}
      BY <1>1 DEF ModelType
    <3>2. CASE model.layers > 0
      BY <2>1, <3>2 DEF LearnPerceptron
    <3>3. CASE ~(model.layers > 0)
      BY <1>1, <2>1, <3>1, <3>3 DEF LearnPerceptron, ModelType
    <3> QED
      BY <3>2, <3>3
  <2> QED
    BY <1>1, <1>2, <2>1, <2>2 DEF LayersInv
<1>7. CASE PassValidation
  BY <1>1, <1>2, <1>7 DEF PassValidation, LayersInv
<1>8. CASE Judge \/ JudgeTheano
  BY <1>1, <1>2, <1>8 DEF Judge, JudgeTheano, LayersInv
<1>9. CASE Install
  BY <1>1, <1>2, <1>9 DEF Install, LayersInv
<1> QED
  BY <1>3, <1>4, <1>5, <1>6, <1>7, <1>8, <1>9

\* A part is written: of a hidden layer none, for the labels come before it.
LEMMA DumpLayersInv ==
  ASSUME TrainingAssumption, KeepInv, LayersInv, Dump PROVE LayersInv'
<1> SUFFICES ASSUME kind' = "perceptron" PROVE LayersInv'
  BY DEF LayersInv
<1>1. /\ kind = "perceptron" /\ pc = "save" /\ pc' = "save" /\ epoch' = epoch /\ model' = model
      /\ dumped < Len(Parts(model)) /\ CanDump(dumped + 1)
      /\ file' = Append(file, Parts(model)[dumped + 1])
  BY DEF Dump, optimizer
<1>2. /\ model \in ModelType /\ file \in Seq(PartType) /\ dumped \in Nat
      /\ Len(file) = dumped /\ \A j \in 1 .. dumped : file[j] = Parts(model)[j]
      /\ dumped >= 2 => model.labels = TRUE
  BY <1>1 DEF KeepInv, SaveInv
<1>3. /\ epoch \in Nat /\ (epoch > 0 => model.layers = 0)
      /\ epoch = 0 => model.labels = FALSE
  BY <1>1 DEF LayersInv
<1>4. /\ Len(file') = dumped + 1 /\ \A j \in 1 .. dumped : file'[j] = file[j]
      /\ file'[dumped + 1] = Parts(model)[dumped + 1]
  <2>1. Parts(model)[dumped + 1] \in PartType
    BY <1>1, <1>2, SomeParts, ElementOfSeq
  <2> QED
    BY <1>1, <1>2, <2>1, AppendProperties
<1>5. file'[1].is = model.layers
  <2>1. file'[1] = Parts(model)[1]
    BY <1>2, <1>4
  <2> QED
    BY <1>1, <1>2, <2>1, LayeredParts
<1>6. ASSUME model.layers = 1 PROVE dumped + 1 <= 2
  <2>1. model.labels = FALSE
    BY <1>3, <1>6
  <2>2. dumped < 2
    BY <1>2, <2>1
  <2> QED
    BY <1>2, <2>2
<1> QED
  BY <1>1, <1>3, <1>4, <1>5, <1>6 DEF LayersInv

\* Nothing that is loaded has a hidden layer, so that a perceptron's load raises.
LEMMA LoadLayersInv ==
  ASSUME KeepInv, LayersInv, Load PROVE kind = "perceptron" => pc' = "raised"
<1> SUFFICES ASSUME kind = "perceptron", pc' # "raised" PROVE FALSE
  OBVIOUS
<1>1. file # <<>> /\ LoadPerceptron /\ file \in Seq(PartType)
  BY DEF Load, LoadTheano, KeepInv
<1>2. Len(file) \in Nat /\ Len(file) >= 1
  BY <1>1, EmptySeq, LenProperties
<1>3. Len(file) >= file[1].is + 3 /\ file[1].is > 0
  BY <1>1, <1>2 DEF LoadPerceptron, PartOr
<1>4. file = Parts(kept) /\ kept \in ModelType
  BY <1>1, <1>2, <1>3 DEF KeepInv, FileIsKept, TooShort
<1>5. file[1].is \in {0, 1}
  BY <1>4, LayeredParts DEF ModelType
<1> QED
  BY <1>1, <1>2, <1>3, <1>5 DEF LayersInv

\* The other steps.
LEMMA OtherLayersInv ==
  ASSUME TrainingAssumption, KeepInv, LayersInv,
         \/ OpenForSave \/ Validate \/ DumpRaises \/ CloseSaved \/ Load \/ Crash \/ Restart
         \/ UNCHANGED trainingVars
  PROVE  LayersInv'
<1> SUFFICES ASSUME kind' = "perceptron" PROVE LayersInv'
  BY DEF LayersInv
<1>1. kind = "perceptron"
  BY DEF OpenForSave, Validate, DumpRaises, CloseSaved, Load, Crash, Restart, trainingVars
<1>2. CASE OpenForSave
  <2>1. file' = <<>> /\ pc' = "save" /\ epoch' = epoch /\ model' = model /\ pc = "start"
    BY <1>1, <1>2 DEF OpenForSave, Opened, optimizer
  <2>2. epoch = 0
    BY <1>1, <2>1 DEF LayersInv
  <2> QED
    BY <1>1, <2>1, <2>2 DEF LayersInv
<1>3. CASE Validate
  <2>1. /\ file' = <<>> /\ pc' = "save" /\ epoch' = epoch /\ model' = model
        /\ pc = "callback"
    BY <1>1, <1>3 DEF Validate, Opened
  <2> QED
    BY <1>1, <2>1 DEF LayersInv
<1>4. CASE CloseSaved
  <2>1. /\ pc = "save" /\ dumped = Len(Parts(model)) /\ model' = model /\ epoch' = epoch
        /\ file' = file /\ pc' = IF epoch > 0 THEN "judge" ELSE "start"
    BY <1>1, <1>4 DEF CloseSaved, optimizer
  <2>2. model \in ModelType /\ Len(Parts(model)) \in Nat /\ Len(Parts(model)) >= 3
    BY <2>1, SomeParts DEF KeepInv
  <2>3. model.labels = TRUE
    BY <1>1, <2>1, <2>2 DEF KeepInv, SaveInv
  <2>4. epoch \in Nat /\ epoch > 0 /\ model.layers = 0
    BY <1>1, <2>1, <2>3 DEF LayersInv
  <2> QED
    BY <1>1, <2>1, <2>4 DEF LayersInv
<1>5. CASE Load
  <2>1. pc' = "raised" /\ epoch' = epoch /\ file' = file
    BY <1>1, <1>5, LoadLayersInv DEF Load, optimizer, disk
  <2> QED
    BY <1>1, <2>1 DEF LayersInv
<1>6. CASE DumpRaises \/ Crash
  BY <1>1, <1>6 DEF DumpRaises, Crash, optimizer, disk, LayersInv
<1>7. CASE Restart
  <2>1. /\ pc' = "start" /\ epoch' = 0 /\ file' = file
        /\ \E h \in Layers(kind) : model' = Fresh(h)
    BY <1>7 DEF Restart
  <2>2. model'.labels = FALSE
    BY <2>1 DEF Fresh
  <2> QED
    BY <1>1, <2>1, <2>2 DEF LayersInv
<1>8. CASE UNCHANGED trainingVars
  BY <1>1, <1>8 DEF trainingVars, LayersInv
<1> QED
  BY <1>2, <1>3, <1>4, <1>5, <1>6, <1>7, <1>8

\* For any number of processes that train, save, load, die and start again: a load that does
\* not raise gives the model of the last save that was completed, and is never a perceptron's.
THEOREM LoadsTheLastSave == TrainingSpec => LoadsWhatWasKept
<1>1. TrainingInit => LayersInv
  BY TrainingAssumption, InitLayersInv
<1>2. KeepInv /\ LayersInv /\ [TrainingNext]_trainingVars => LayersInv'
  <2> SUFFICES ASSUME KeepInv, LayersInv, [TrainingNext]_trainingVars PROVE LayersInv'
    OBVIOUS
  <2> USE TrainingAssumption
  <2>1. CASE Train \/ Epoch \/ Batch \/ Learn \/ PassValidation \/ Judge \/ JudgeTheano \/ Install
    BY <2>1, LoopLayersInv
  <2>2. CASE Dump
    BY <2>2, DumpLayersInv
  <2>3. CASE \/ OpenForSave \/ Validate \/ DumpRaises \/ CloseSaved \/ Load \/ Crash \/ Restart
             \/ UNCHANGED trainingVars
    BY <2>3, OtherLayersInv
  <2> QED
    BY <2>1, <2>2, <2>3 DEF TrainingNext, Progress
<1>3. KeepInv /\ LayersInv
        => [Load /\ pc' = "start" => model' = kept /\ kind = "theano"]_trainingVars
  <2> SUFFICES ASSUME KeepInv, LayersInv, Load, pc' = "start"
               PROVE  model' = kept /\ kind = "theano"
    OBVIOUS
  <2>1. kind # "perceptron"
    BY LoadLayersInv
  <2>2. kind # "regression"
    BY DEF Load, LoadTheano, LoadPerceptron
  <2> QED
    BY <2>1, <2>2, LoadGivesKept DEF KeepInv
<1> QED
  BY <1>1, <1>2, <1>3, Keeping, PTL DEF LoadsWhatWasKept, TrainingSpec

-----------------------------------------------------------------------------
(* What was learnt.                                                        *)

InTurn(s) == \A n \in 1 .. Len(s) : s[n] = Slice((n - 1) % Batches)

\* The steps of a whole training.
AllSteps == MaxEpochs * Batches

\* A number of whole trainings and so many steps more.
Ahead(s, steps) == \E q \in Nat : Len(s) = q * AllSteps + steps

\* The perceptron is saved in the middle of a training.
SavesInTraining == pc = "save" /\ kind = "perceptron" /\ epoch > 0

\* What a process starts with, and keeps until it trains.
NotTrained ==
  /\ epoch = 0 /\ index = 0 /\ iter = 0
  /\ records = <<>> /\ bestIter = 0
  /\ Ahead(model.output, 0)

\* Where the loops stand at each point, and how far the parameters are.
LoopInv ==
  /\ pc = "start" \/ (pc = "save" /\ epoch = 0 /\ kind = "perceptron") => NotTrained
  /\ pc = "epoch" => epoch \in 0 .. MaxEpochs /\ iter = epoch * Batches
  /\ pc \in {"batch", "learn", "callback"} =>
       /\ epoch \in 1 .. MaxEpochs /\ index \in 0 .. Batches
       /\ iter = (epoch - 1) * Batches + index
  /\ pc \in {"learn", "callback", "judge", "install"} \/ SavesInTraining => index < Batches
  /\ pc = "learn" => args = Slice(index)
  /\ pc \in {"judge", "install"} \/ SavesInTraining =>
       /\ epoch \in 1 .. MaxEpochs /\ index \in 0 .. Batches
       /\ iter = (epoch - 1) * Batches + index + 1
  /\ pc = "done" \/ (pc \in {"save", "saved"} /\ kind = "theano") => iter = AllSteps
  /\ pc \in {"epoch", "batch", "learn", "done"} => Ahead(model.output, iter)
  /\ kind = "theano" /\ pc = "save" => Ahead(model.output, iter)
  /\ pc = "callback" =>
       IF kind = "regression"
       THEN Ahead(model.output, iter) /\ InTurn(step) /\ Ahead(step, iter + 1)
       ELSE Ahead(model.output, iter + 1)
  /\ pc \in {"judge", "install"} \/ SavesInTraining =>
       IF kind = "regression"
       THEN InTurn(step) /\ Ahead(step, iter)
       ELSE Ahead(model.output, iter)

\* The parameters of the perceptron that trains: it has labels, and no hidden layer once it has
\* learnt.
PerceptronInv ==
  kind = "perceptron" =>
    /\ pc \in {"epoch", "batch", "learn", "callback", "judge", "install", "done"}
         \/ SavesInTraining => model.labels = TRUE
    /\ pc = "callback" \/ SavesInTraining => model.layers = 0

\* The file and the model that was kept: learnt in turn and, if they can be loaded, by whole
\* trainings.
KeptInv ==
  /\ InTurn(kept.output)
  /\ kind = "theano" \/ kept.layers > 0 => Ahead(kept.output, 0)
  /\ kind = "theano" =>
       /\ kept.bias = kept.output
       /\ file # <<>> => file[1].is \in Slices /\ InTurn(file[1].is)

TurnInv ==
  /\ model.output \in Slices /\ InTurn(model.output)
  /\ kind = "theano" => model.bias = model.output \/ pc = "raised"
  /\ epoch \in Nat /\ index \in Nat /\ iter \in Nat
  /\ LoopInv /\ PerceptronInv /\ KeptInv

-----------------------------------------------------------------------------
(* What was found.                                                         *)

RecordType == [iter : Nat, with : Slices, error : Nat]

\* The best error is the least of the first k records, at the first step that found it.
JudgedTo(k) ==
  /\ \A n \in 1 .. k : best <= records[n].error
  /\ bestIter > 0 =>
       \E n \in 1 .. k :
         /\ records[n].iter = bestIter /\ records[n].error = best
         /\ \A m \in 1 .. n - 1 : records[m].error > best

Behind == IF kind = "regression" THEN 1 ELSE 0

RecordInv ==
  /\ best \in Nat /\ bestIter \in Nat
  /\ kind = "theano" => bestIter = 0
  /\ records \in Seq(RecordType)
  /\ records # <<>> => AllSteps > 0
  /\ \A n \in DOMAIN records :
       \E q \in Nat : Len(records[n].with) + Behind = q * AllSteps + records[n].iter
  /\ IF pc = "judge" \/ SavesInTraining
     THEN records # <<>> /\ records[Len(records)].iter = iter /\ JudgedTo(Len(records) - 1)
     ELSE pc # "dead" => JudgedTo(Len(records))

-----------------------------------------------------------------------------
(* Arithmetic of batches.                                                  *)

\* The numbers of batches, epochs and steps.
LEMMA BatchesType ==
  ASSUME TrainingAssumption
  PROVE  Batches \in Nat /\ MaxEpochs \in Nat /\ AllSteps \in Nat
<1>1. Batches \in Nat
  BY DEF TrainingAssumption, Batches
<1>2. MaxEpochs \in Nat
  BY DEF TrainingAssumption
<1> QED
  BY <1>1, <1>2 DEF AllSteps

\* The rest of a division.
LEMMA RestOf ==
  ASSUME NEW q \in Nat, NEW b \in Nat, NEW r \in Nat, r < b
  PROVE  (q * b + r) % b = r
<1> DEFINE n == q * b + r
<1>1. n \in Nat /\ b > 0
  OBVIOUS
<1>2. n = b * (n \div b) + (n % b) /\ n % b \in 0 .. b - 1 /\ n \div b \in Int
  BY <1>1
<1>3. (n % b) - r = b * (q - n \div b)
  BY <1>2
<1>4. q - n \div b = 0
  <2>1. CASE q - n \div b >= 1
    <3>1. b * (q - n \div b) >= b
      BY <1>1, <1>2, <2>1
    <3> QED
      BY <1>2, <1>3, <3>1
  <2>2. CASE q - n \div b <= -1
    <3>1. b * (q - n \div b) <= -b
      BY <1>1, <1>2, <2>2
    <3> QED
      BY <1>2, <1>3, <3>1
  <2> QED
    BY <1>2, <2>1, <2>2
<1> QED
  BY <1>2, <1>3, <1>4

\* Whole epochs and trainings are whole numbers of batches.
LEMMA StepsAreBatches ==
  ASSUME TrainingAssumption, NEW q \in Nat, NEW e \in 1 .. MaxEpochs, NEW i \in Nat
  PROVE  /\ q * MaxEpochs + (e - 1) \in Nat
         /\ q * AllSteps + ((e - 1) * Batches + i)
              = (q * MaxEpochs + (e - 1)) * Batches + i
<1>1. Batches \in Nat /\ MaxEpochs \in Nat /\ e - 1 \in Nat
  BY BatchesType
<1>2. q * MaxEpochs \in Nat
  BY <1>1
<1>3. q * (MaxEpochs * Batches) = (q * MaxEpochs) * Batches
  BY <1>1
<1>4. (q * MaxEpochs + (e - 1)) * Batches = (q * MaxEpochs) * Batches + (e - 1) * Batches
  BY <1>1, <1>2
<1> QED
  BY <1>1, <1>2, <1>3, <1>4 DEF AllSteps

\* The batch whose turn it is is learnt.
LEMMA NextInTurn ==
  ASSUME TrainingAssumption, NEW s \in Slices, InTurn(s),
         NEW e \in 1 .. MaxEpochs, NEW i \in Nat, i < Batches,
         Ahead(s, (e - 1) * Batches + i)
  PROVE  /\ Append(s, Slice(i)) \in Slices /\ InTurn(Append(s, Slice(i)))
         /\ Ahead(Append(s, Slice(i)), (e - 1) * Batches + i + 1)
         /\ Len(Append(s, Slice(i))) = Len(s) + 1
<1>1. Slice(i) \in SUBSET Int
  BY SliceType
<1> DEFINE t == Append(s, Slice(i))
<1>2. /\ t \in Slices /\ Len(t) = Len(s) + 1 /\ Len(s) \in Nat
      /\ \A n \in 1 .. Len(s) : t[n] = s[n]
      /\ t[Len(s) + 1] = Slice(i)
  BY <1>1 DEF Slices
<1>3. PICK q \in Nat : Len(s) = q * AllSteps + ((e - 1) * Batches + i)
  BY DEF Ahead
<1>4. Batches \in Nat /\ AllSteps \in Nat /\ MaxEpochs \in Nat
  BY BatchesType
<1>5. Len(s) % Batches = i
  <2>1. /\ q * MaxEpochs + (e - 1) \in Nat
        /\ Len(s) = (q * MaxEpochs + (e - 1)) * Batches + i
    BY <1>3, StepsAreBatches
  <2> QED
    BY <1>4, <2>1, RestOf
<1> HIDE DEF t
<1>6. InTurn(t)
  <2> SUFFICES ASSUME NEW n \in 1 .. Len(t) PROVE t[n] = Slice((n - 1) % Batches)
    BY DEF InTurn
  <2>1. CASE n \in 1 .. Len(s)
    BY <1>2, <2>1 DEF InTurn
  <2>2. CASE n = Len(s) + 1
    <3>1. n - 1 = Len(s)
      BY <1>2, <2>2
    <3> QED
      BY <1>2, <1>5, <2>2, <3>1
  <2> QED
    BY <1>2, <2>1, <2>2
<1>7. Ahead(t, (e - 1) * Batches + i + 1)
  <2>1. (e - 1) * Batches \in Int /\ q * AllSteps \in Nat
    BY <1>4
  <2>2. Len(t) = q * AllSteps + ((e - 1) * Batches + i + 1)
    BY <1>2, <1>3, <2>1
  <2> QED
    BY <2>2 DEF Ahead
<1> QED
  BY <1>2, <1>6, <1>7 DEF t

\* After the last step the training was a whole one.
LEMMA WholeTraining ==
  ASSUME TrainingAssumption, NEW s, Ahead(s, AllSteps)
  PROVE  Ahead(s, 0)
<1>1. AllSteps \in Nat
  BY BatchesType
<1>2. PICK q \in Nat : Len(s) = q * AllSteps + AllSteps
  BY DEF Ahead
<1>3. q + 1 \in Nat /\ (q + 1) * AllSteps + 0 = q * AllSteps + AllSteps
  BY <1>1
<1> QED
  BY <1>2, <1>3 DEF Ahead

\* Nothing was learnt by whole trainings, too.
LEMMA NothingLearnt ==
  ASSUME TrainingAssumption PROVE <<>> \in Slices /\ InTurn(<<>>) /\ Ahead(<<>>, 0)
<1>1. AllSteps \in Nat
  BY BatchesType
<1>2. Len(<<>>) = 0 * AllSteps + 0 /\ 0 \in Nat
  BY <1>1
<1> QED
  BY <1>2 DEF Slices, InTurn, Ahead

-----------------------------------------------------------------------------
(* The steps, and what was learnt.                                         *)

\* At the start nothing was learnt.
LEMMA InitTurnInv ==
  ASSUME TrainingAssumption, TrainingInit PROVE TurnInv
<1>1. PICK h \in Layers(kind) : model = Fresh(h)
  BY DEF TrainingInit
<1>2. model.output = <<>> /\ model.bias = <<>>
  BY <1>1 DEF Fresh
<1>3. kept.output = <<>> /\ kept.bias = <<>> /\ (kind = "theano" => file = <<>>)
  BY DEF TrainingInit, Fresh
<1>4. /\ pc = "start" /\ epoch = 0 /\ index = 0 /\ iter = 0 /\ records = <<>> /\ bestIter = 0
  BY DEF TrainingInit
<1>5. LoopInv /\ PerceptronInv /\ KeptInv
  BY <1>2, <1>3, <1>4, NothingLearnt
    DEF LoopInv, NotTrained, SavesInTraining, PerceptronInv, KeptInv
<1> QED
  BY <1>2, <1>4, <1>5, NothingLearnt DEF TurnInv

\* What was kept does not change with the loops.
LEMMA KeptUntouched ==
  ASSUME KeptInv, kind' = kind, file' = file, kept' = kept
  PROVE  KeptInv'
BY DEF KeptInv

\* The loops around learn.
LEMMA TrainTurnInv ==
  ASSUME TrainingAssumption, KeepInv, TurnInv, Train PROVE TurnInv'
<1>1. /\ pc = "start" /\ pc' = "epoch" /\ epoch' = 0 /\ index' = 0 /\ iter' = 0
      /\ kind' = kind /\ file' = file /\ kept' = kept
      /\ model' = [model EXCEPT !.labels = @ \/ kind = "perceptron"]
  BY DEF Train, FreshOptimizer, disk
<1>2. model \in ModelType
  BY <1>1 DEF KeepInv
<1>3. /\ model'.output = model.output /\ model'.bias = model.bias
      /\ kind = "perceptron" => model'.labels = TRUE
  BY <1>1, <1>2 DEF ModelType
<1>4. KeptInv'
  BY <1>1, KeptUntouched DEF TurnInv
<1>5. Batches \in Nat /\ MaxEpochs \in Nat
  BY BatchesType
<1>6. 0 \in 0 .. MaxEpochs /\ 0 = 0 * Batches
  BY <1>5
<1>7. Ahead(model.output, 0)
  BY <1>1 DEF TurnInv, LoopInv, NotTrained
<1>8. LoopInv' /\ PerceptronInv'
  BY <1>1, <1>3, <1>6, <1>7 DEF LoopInv, SavesInTraining, PerceptronInv
<1> QED
  BY <1>1, <1>3, <1>4, <1>8 DEF TurnInv

\* An epoch begins, or the last one is over.
LEMMA EpochTurnInv ==
  ASSUME TrainingAssumption, TurnInv, Epoch PROVE TurnInv'
<1>1. /\ pc = "epoch" /\ UNCHANGED <<kind, iter, model, step, file, kept>>
      /\ IF epoch < MaxEpochs
         THEN pc' = "batch" /\ epoch' = epoch + 1 /\ index' = 0
         ELSE pc' = "done" /\ epoch' = epoch /\ index' = index
  BY DEF Epoch, disk
<1>2. /\ epoch \in 0 .. MaxEpochs /\ iter = epoch * Batches /\ Ahead(model.output, iter)
  BY <1>1 DEF TurnInv, LoopInv
<1>3. Batches \in Nat /\ MaxEpochs \in Nat
  BY BatchesType
<1>4. KeptInv' /\ PerceptronInv'
  BY <1>1, KeptUntouched DEF TurnInv, PerceptronInv, SavesInTraining
<1>5. CASE epoch < MaxEpochs
  <2>1. epoch + 1 \in 1 .. MaxEpochs /\ iter = (epoch + 1 - 1) * Batches + 0
          /\ 0 \in 0 .. Batches
    BY <1>2, <1>3, <1>5
  <2>2. LoopInv'
    BY <1>1, <1>2, <1>5, <2>1 DEF LoopInv, SavesInTraining
  <2> QED
    BY <1>1, <1>4, <1>5, <2>1, <2>2 DEF TurnInv
<1>6. CASE ~(epoch < MaxEpochs)
  <2>1. iter = AllSteps
    BY <1>2, <1>3, <1>6 DEF AllSteps
  <2>2. LoopInv'
    BY <1>1, <1>2, <1>6, <2>1 DEF LoopInv, SavesInTraining
  <2> QED
    BY <1>1, <1>4, <1>6, <2>2 DEF TurnInv
<1> QED
  BY <1>5, <1>6

\* A batch is handed over, or the epoch is over.
LEMMA BatchTurnInv ==
  ASSUME TrainingAssumption, TurnInv, Batch PROVE TurnInv'
<1>1. /\ pc = "batch" /\ UNCHANGED <<kind, epoch, index, iter, model, step, file, kept>>
      /\ IF index < Batches THEN pc' = "learn" /\ args' = Slice(index) ELSE pc' = "epoch"
  BY DEF Batch, Handed, disk
<1>2. /\ epoch \in 1 .. MaxEpochs /\ index \in 0 .. Batches
      /\ iter = (epoch - 1) * Batches + index /\ Ahead(model.output, iter)
  BY <1>1 DEF TurnInv, LoopInv
<1>3. Batches \in Nat /\ MaxEpochs \in Nat
  BY BatchesType
<1>4. KeptInv' /\ PerceptronInv'
  BY <1>1, KeptUntouched DEF TurnInv, PerceptronInv, SavesInTraining
<1>5. ~(index < Batches) => epoch \in 0 .. MaxEpochs /\ iter = epoch * Batches
  BY <1>2, <1>3
<1>6. LoopInv'
  <2>1. CASE index < Batches
    BY <1>1, <1>2, <2>1 DEF LoopInv, SavesInTraining
  <2>2. CASE ~(index < Batches)
    BY <1>1, <1>2, <1>5, <2>2 DEF LoopInv, SavesInTraining
  <2> QED
    BY <2>1, <2>2
<1> QED
  BY <1>1, <1>4, <1>6 DEF TurnInv

\* A batch is learnt.
LEMMA LearnTurnInv ==
  ASSUME TrainingAssumption, KeepInv, TurnInv, Learn PROVE TurnInv'
<1>1. /\ pc = "learn" /\ UNCHANGED <<kind, epoch, index, iter, file, kept>>
      /\ model \in ModelType
  BY DEF Learn, optimizer, disk, KeepInv
<1>2. /\ epoch \in 1 .. MaxEpochs /\ index \in 0 .. Batches /\ index < Batches
      /\ iter = (epoch - 1) * Batches + index /\ args = Slice(index)
      /\ Ahead(model.output, iter) /\ InTurn(model.output) /\ model.output \in Slices
      /\ index \in Nat
  BY <1>1 DEF TurnInv, LoopInv
<1> DEFINE next == Append(model.output, args)
<1>3. next \in Slices /\ InTurn(next) /\ Ahead(next, iter + 1)
  BY <1>2, NextInTurn
<1> HIDE DEF next
<1>4. KeptInv'
  BY <1>1, KeptUntouched DEF TurnInv
<1>5. CASE LearnRegression
  <2>1. kind = "regression" /\ step' = next /\ pc' = "callback" /\ model' = model
    BY <1>5 DEF LearnRegression, next
  <2>2. LoopInv' /\ PerceptronInv'
    BY <1>1, <1>2, <1>3, <2>1 DEF LoopInv, SavesInTraining, PerceptronInv
  <2> QED
    BY <1>1, <1>4, <2>1, <2>2 DEF TurnInv
<1>6. CASE LearnPerceptron
  <2>1. CASE model.layers > 0
    <3>1. kind = "perceptron" /\ model' = model /\ pc' = "raised"
      BY <1>6, <2>1 DEF LearnPerceptron
    <3>2. LoopInv' /\ PerceptronInv'
      BY <1>1, <3>1 DEF LoopInv, SavesInTraining, PerceptronInv
    <3> QED
      BY <1>1, <1>2, <1>4, <3>1, <3>2 DEF TurnInv
  <2>2. CASE ~(model.layers > 0)
    <3>1. kind = "perceptron" /\ model' = [model EXCEPT !.output = next] /\ pc' = "callback"
      BY <1>6, <2>2 DEF LearnPerceptron, next
    <3>2. model'.output = next /\ model'.layers = 0 /\ model'.labels = model.labels
      <4>1. model.layers \in {0, 1}
        BY <1>1 DEF ModelType
      <4> QED
        BY <1>1, <2>2, <3>1, <4>1 DEF ModelType
    <3>3. LoopInv' /\ PerceptronInv'
      BY <1>1, <1>2, <1>3, <3>1, <3>2 DEF TurnInv, LoopInv, SavesInTraining, PerceptronInv
    <3> QED
      BY <1>1, <1>3, <1>4, <3>1, <3>2, <3>3 DEF TurnInv
  <2> QED
    BY <2>1, <2>2
<1>7. CASE LearnTheano
  <2>1. /\ kind = "theano" /\ pc' = "callback"
        /\ model' = [model EXCEPT !.output = next, !.bias = Append(model.bias, args)]
    BY <1>1, <1>7 DEF LearnTheano, next, ModelType
  <2>2. model'.output = next /\ model'.bias = next
    <3>1. model.bias = model.output
      BY <1>1, <2>1 DEF TurnInv
    <3> QED
      BY <1>1, <2>1, <3>1 DEF ModelType, next
  <2>3. LoopInv' /\ PerceptronInv'
    BY <1>1, <1>2, <1>3, <2>1, <2>2 DEF LoopInv, SavesInTraining, PerceptronInv
  <2> QED
    BY <1>1, <1>3, <1>4, <2>1, <2>2, <2>3 DEF TurnInv
<1> QED
  BY <1>5, <1>6, <1>7 DEF Learn

\* The callback counts the step; a validation gives the regression its parameters.
LEMMA CallbackTurnInv ==
  ASSUME TrainingAssumption, KeepInv, TurnInv, PassValidation \/ Validate PROVE TurnInv'
<1>1. /\ pc = "callback" /\ iter' = iter + 1
      /\ UNCHANGED <<kind, epoch, index, step, kept>>
      /\ file' = file \/ kind = "perceptron"
      /\ \/ pc' = "install" /\ model' = model
         \/ /\ pc' = IF kind = "perceptron" THEN "save" ELSE "judge"
            /\ model' = IF kind = "regression" THEN [model EXCEPT !.output = step] ELSE model
      /\ model \in ModelType /\ step \in Slices
  BY DEF PassValidation, Validate, KeepInv, disk
<1>2. /\ epoch \in 1 .. MaxEpochs /\ index \in 0 .. Batches /\ index < Batches
      /\ iter = (epoch - 1) * Batches + index /\ index \in Nat /\ iter \in Nat
  BY <1>1 DEF TurnInv, LoopInv
<1>3. iter + 1 = (epoch - 1) * Batches + index + 1 /\ iter + 1 \in Nat /\ epoch > 0
  BY <1>2, BatchesType
<1>4. IF kind = "regression"
      THEN InTurn(step) /\ Ahead(step, iter + 1)
      ELSE Ahead(model.output, iter + 1)
  BY <1>1 DEF TurnInv, LoopInv
<1>5. KeptInv'
  BY <1>1 DEF TurnInv, KeptInv
<1>6. /\ model'.output \in Slices /\ InTurn(model'.output)
      /\ kind = "regression" \/ model' = model
      /\ model'.layers = model.layers /\ model'.labels = model.labels /\ model'.bias = model.bias
  BY <1>1, <1>4 DEF TurnInv, ModelType
<1>7. kind \in {"regression", "perceptron", "theano"}
  BY DEF KeepInv
<1>8. LoopInv'
  BY <1>1, <1>2, <1>3, <1>4, <1>6, <1>7 DEF LoopInv, SavesInTraining
<1>9. PerceptronInv'
  BY <1>1, <1>3, <1>6 DEF TurnInv, PerceptronInv, SavesInTraining
<1> QED
  BY <1>1, <1>2, <1>3, <1>5, <1>6, <1>8, <1>9 DEF TurnInv

\* The judgement changes no parameter.
LEMMA JudgeTurnInv ==
  ASSUME TrainingAssumption, TurnInv, Judge \/ JudgeTheano PROVE TurnInv'
<1>1. /\ pc = "judge" /\ pc' = "install"
      /\ UNCHANGED <<kind, epoch, index, iter, model, step, file, kept>>
  BY DEF Judge, JudgeTheano, disk
<1>2. KeptInv'
  BY <1>1, KeptUntouched DEF TurnInv
<1>3. LoopInv' /\ PerceptronInv'
  BY <1>1 DEF TurnInv, LoopInv, SavesInTraining, PerceptronInv
<1> QED
  BY <1>1, <1>2, <1>3 DEF TurnInv

\* The step is installed, and the next batch follows.
LEMMA InstallTurnInv ==
  ASSUME TrainingAssumption, KeepInv, TurnInv, Install PROVE TurnInv'
<1>1. /\ pc = "install" /\ pc' = "batch" /\ index' = index + 1
      /\ UNCHANGED <<kind, epoch, iter, step, file, kept>>
      /\ model' = IF kind = "regression" THEN [model EXCEPT !.output = step] ELSE model
      /\ model \in ModelType /\ step \in Slices
  BY DEF Install, KeepInv, disk
<1>2. /\ epoch \in 1 .. MaxEpochs /\ index \in 0 .. Batches /\ index < Batches
      /\ iter = (epoch - 1) * Batches + index + 1 /\ index \in Nat
      /\ IF kind = "regression"
         THEN InTurn(step) /\ Ahead(step, iter)
         ELSE Ahead(model.output, iter)
  BY <1>1 DEF TurnInv, LoopInv
<1>3. index + 1 \in 0 .. Batches /\ iter = (epoch - 1) * Batches + (index + 1)
        /\ index + 1 \in Nat
  BY <1>2, BatchesType
<1>4. /\ model'.output \in Slices /\ InTurn(model'.output) /\ Ahead(model'.output, iter)
      /\ model'.layers = model.layers /\ model'.labels = model.labels /\ model'.bias = model.bias
      /\ kind = "regression" \/ model' = model
  BY <1>1, <1>2 DEF TurnInv, ModelType
<1>5. KeptInv'
  BY <1>1, KeptUntouched DEF TurnInv
<1>6. LoopInv'
  BY <1>1, <1>2, <1>3, <1>4 DEF LoopInv, SavesInTraining
<1>7. PerceptronInv'
  BY <1>1, <1>4 DEF TurnInv, PerceptronInv, SavesInTraining
<1> QED
  BY <1>1, <1>3, <1>4, <1>5, <1>6, <1>7 DEF TurnInv


\* A save begins, breaks off or ends: the parameters are those it was called with.
LEMMA SavingTurnInv ==
  ASSUME TrainingAssumption, KeepInv, TurnInv, OpenForSave \/ DumpRaises \/ CloseSaved
  PROVE  TurnInv'
<1>1. UNCHANGED <<kind, epoch, index, iter, records, bestIter, model, step, kept>>
  BY DEF OpenForSave, DumpRaises, CloseSaved, optimizer, disk
<1>2. file' = file \/ file' = <<>>
  BY DEF OpenForSave, Opened, DumpRaises, CloseSaved, disk
<1>3. KeptInv'
  BY <1>1, <1>2 DEF TurnInv, KeptInv
<1>4. CASE OpenForSave
  <2>1. /\ pc' = "save"
        /\ (pc = "start" /\ kind = "perceptron") \/ (pc = "done" /\ kind = "theano")
    BY <1>4 DEF OpenForSave
  <2>2. pc = "start" => NotTrained /\ epoch = 0
    BY DEF TurnInv, LoopInv, NotTrained
  <2>3. LoopInv' /\ PerceptronInv'
    BY <1>1, <2>1, <2>2
      DEF TurnInv, LoopInv, NotTrained, SavesInTraining, PerceptronInv
  <2> QED
    BY <1>1, <1>3, <2>1, <2>3 DEF TurnInv
<1>5. CASE DumpRaises
  <2>1. pc' = "raised" /\ pc = "save"
    BY <1>5 DEF DumpRaises
  <2>2. LoopInv' /\ PerceptronInv'
    BY <1>1, <2>1 DEF LoopInv, SavesInTraining, PerceptronInv
  <2> QED
    BY <1>1, <1>3, <2>1, <2>2 DEF TurnInv
<1>6. CASE CloseSaved
  <2>1. /\ pc = "save" /\ kind \in {"perceptron", "theano"}
        /\ pc' = IF kind = "theano" THEN "saved" ELSE IF epoch > 0 THEN "judge" ELSE "start"
        /\ epoch \in Nat
    BY <1>6 DEF CloseSaved, KeepInv, TurnInv
  <2>2. CASE kind = "theano"
    <3>1. LoopInv' /\ PerceptronInv'
      BY <1>1, <2>1, <2>2
        DEF TurnInv, LoopInv, SavesInTraining, PerceptronInv
    <3> QED
      BY <1>1, <1>3, <2>1, <2>2, <3>1 DEF TurnInv
  <2>3. CASE kind = "perceptron" /\ epoch > 0
    <3>1. SavesInTraining /\ pc' = "judge"
      BY <2>1, <2>3 DEF SavesInTraining
    <3>2. LoopInv' /\ PerceptronInv'
      BY <1>1, <2>3, <3>1 DEF TurnInv, LoopInv, SavesInTraining, PerceptronInv
    <3> QED
      BY <1>1, <1>3, <2>3, <3>2 DEF TurnInv
  <2>4. CASE kind = "perceptron" /\ epoch = 0
    <3>1. NotTrained /\ pc' = "start"
      BY <2>1, <2>4 DEF TurnInv, LoopInv
    <3>2. LoopInv' /\ PerceptronInv'
      BY <1>1, <2>4, <3>1 DEF LoopInv, NotTrained, SavesInTraining, PerceptronInv
    <3> QED
      BY <1>1, <1>3, <2>4, <3>2 DEF TurnInv
  <2> QED
    BY <2>1, <2>2, <2>3, <2>4
<1> QED
  BY <1>4, <1>5, <1>6

\* A part is written.  With the last one the model is kept: theano's after a whole training, a
\* perceptron that can be loaded before it trains.
LEMMA DumpTurnInv ==
  ASSUME TrainingAssumption, KeepInv, TurnInv, Dump PROVE TurnInv'
<1>1. /\ pc = "save" /\ pc' = "save"
      /\ UNCHANGED <<kind, epoch, index, iter, records, bestIter, model, step>>
      /\ file' = Append(file, Parts(model)[dumped + 1])
      /\ dumped < Len(Parts(model))
      /\ kept' = model \/ kept' = kept
  BY DEF Dump, optimizer
<1>2. /\ model \in ModelType /\ file \in Seq(PartType) /\ dumped \in Nat /\ Len(file) = dumped
      /\ kind \in {"perceptron", "theano"}
  BY <1>1 DEF KeepInv, SaveInv
<1>3. LoopInv' /\ PerceptronInv'
  BY <1>1 DEF TurnInv, LoopInv, NotTrained, SavesInTraining, PerceptronInv
<1>4. InTurn(model.output) /\ model.output \in Slices /\ epoch \in Nat
  BY DEF TurnInv
<1>5. kind = "theano" \/ model.layers > 0 => Ahead(model.output, 0)
  <2>1. CASE kind = "theano"
    <3>1. Ahead(model.output, AllSteps)
      BY <1>1, <2>1 DEF TurnInv, LoopInv
    <3> QED
      BY <3>1, WholeTraining
  <2>2. CASE kind = "perceptron" /\ model.layers > 0
    <3>1. ~SavesInTraining
      BY <2>2 DEF TurnInv, PerceptronInv
    <3>2. epoch = 0
      BY <1>1, <1>4, <2>2, <3>1 DEF SavesInTraining
    <3> QED
      BY <1>1, <2>2, <3>2 DEF TurnInv, LoopInv, NotTrained
  <2> QED
    BY <1>2, <2>1, <2>2
<1>6. kind = "theano" => model.bias = model.output
  BY <1>1 DEF TurnInv
<1>7. kind = "theano" => file'[1].is \in Slices /\ InTurn(file'[1].is)
  <2> SUFFICES ASSUME kind = "theano" PROVE file'[1].is \in Slices /\ InTurn(file'[1].is)
    OBVIOUS
  <2>1. /\ Parts(model) \in Seq(PartType) /\ Len(Parts(model)) = 4
        /\ Parts(model)[1].is = model.output
    BY <1>2, TheanoParts
  <2>2. Parts(model)[dumped + 1] \in PartType
    BY <1>1, <1>2, <2>1, ElementOfSeq
  <2>3. /\ \A i \in 1 .. Len(file) : file'[i] = file[i]
        /\ file'[Len(file) + 1] = Parts(model)[dumped + 1]
    BY <1>1, <1>2, <2>2, AppendProperties
  <2>4. CASE dumped = 0
    BY <1>2, <1>4, <2>1, <2>3, <2>4
  <2>5. CASE dumped # 0
    <3>1. file # <<>> /\ file'[1] = file[1]
      BY <1>2, <2>3, <2>5
    <3> QED
      BY <3>1 DEF TurnInv, KeptInv
  <2> QED
    BY <2>4, <2>5
<1>8. KeptInv'
  <2>1. CASE kept' = model
    BY <1>1, <1>4, <1>5, <1>6, <1>7, <2>1 DEF KeptInv
  <2>2. CASE kept' = kept
    BY <1>1, <1>7, <2>2 DEF TurnInv, KeptInv
  <2> QED
    BY <1>1, <2>1, <2>2
<1> QED
  BY <1>1, <1>3, <1>8 DEF TurnInv

\* What a load reads was learnt in turn, and by whole trainings when the process goes on.
LEMMA LoadTurnInv ==
  ASSUME TrainingAssumption, KeepInv, TurnInv, Load PROVE TurnInv'
<1>1. /\ pc = "start" /\ UNCHANGED <<kind, epoch, index, iter, records, bestIter, file, kept>>
      /\ pc' \in {"start", "raised"} /\ model \in ModelType /\ file \in Seq(PartType)
  BY DEF Load, LoadTheano, LoadPerceptron, optimizer, disk, KeepInv
<1>2. KeptInv'
  BY <1>1, KeptUntouched DEF TurnInv
<1>3. NotTrained /\ model.output \in Slices /\ InTurn(model.output)
  BY <1>1 DEF TurnInv, LoopInv
<1>4. CASE pc' = "start"
  <2>1. model' = kept /\ OfKind(kept) /\ kept \in ModelType
    BY <1>4, LoadGivesKept DEF KeepInv
  <2>2. kind = "theano" \/ kept.layers > 0
    <3>1. CASE LoadTheano
      BY <3>1 DEF LoadTheano
    <3>2. CASE LoadPerceptron
      <4>1. model'.layers = PartOr(1, model.layers) /\ PartOr(1, model.layers) > 0
        BY <1>1, <1>4, <3>2 DEF LoadPerceptron, ModelType
      <4> QED
        BY <2>1, <4>1
    <3> QED
      BY <1>4, <3>1, <3>2 DEF Load
  <2>3. /\ kept.output \in Slices /\ InTurn(kept.output) /\ Ahead(kept.output, 0)
        /\ kind = "theano" => kept.bias = kept.output
    BY <2>1, <2>2 DEF TurnInv, KeptInv, ModelType
  <2>4. LoopInv' /\ PerceptronInv'
    BY <1>1, <1>3, <1>4, <2>1, <2>3
      DEF LoopInv, NotTrained, SavesInTraining, PerceptronInv
  <2> QED
    BY <1>1, <1>2, <1>4, <2>1, <2>3, <2>4 DEF TurnInv
<1>5. CASE pc' = "raised"
  <2>1. LoopInv' /\ PerceptronInv'
    BY <1>5 DEF LoopInv, SavesInTraining, PerceptronInv
  <2>2. model'.output \in Slices /\ InTurn(model'.output)
    <3>1. CASE file = <<>>
      BY <1>3, <3>1 DEF Load
    <3>2. CASE file # <<>> /\ LoadTheano
      <4>1. kind = "theano" /\ model'.output = PartOr(1, model.output)
        BY <1>1, <3>2 DEF LoadTheano, ModelType
      <4>2. file[1].is \in Slices /\ InTurn(file[1].is)
        BY <3>2, <4>1 DEF TurnInv, KeptInv
      <4> QED
        BY <1>3, <4>1, <4>2 DEF PartOr
    <3>3. CASE file # <<>> /\ LoadPerceptron
      <4>1. Len(file) \in Nat /\ Len(file) >= 1
        BY <1>1, <3>3, EmptySeq, LenProperties
      <4>2. kind = "perceptron" /\ model'.output = PartOr(file[1].is + 3, model.output)
        <5>1. model'.output = PartOr(PartOr(1, model.layers) + 3, model.output)
          BY <1>1, <3>3 DEF LoadPerceptron, ModelType
        <5>2. PartOr(1, model.layers) = file[1].is
          BY <4>1 DEF PartOr
        <5> QED
          BY <3>3, <5>1, <5>2 DEF LoadPerceptron
      <4>3. CASE file[1].is + 3 <= Len(file)
        <5>1. model'.output = file[file[1].is + 3].is
          BY <4>2, <4>3 DEF PartOr
        <5>2. ~TooShort
          BY <3>3, <4>1, <4>2, <4>3 DEF TooShort
        <5>3. file = Parts(kept) /\ kept \in ModelType
          BY <5>2 DEF KeepInv, FileIsKept
        <5>4. file[1].is = kept.layers /\ file[kept.layers + 3].is = kept.output
          BY <4>2, <5>3, LayeredParts
        <5> QED
          BY <5>1, <5>3, <5>4 DEF TurnInv, KeptInv, ModelType
      <4>4. CASE ~(file[1].is + 3 <= Len(file))
        BY <1>3, <4>2, <4>4 DEF PartOr
      <4> QED
        BY <4>3, <4>4
    <3> QED
      BY <3>1, <3>2, <3>3 DEF Load
  <2> QED
    BY <1>1, <1>2, <1>5, <2>1, <2>2 DEF TurnInv
<1> QED
  BY <1>1, <1>4, <1>5

\* A process dies; another one has learnt nothing.
LEMMA ProcessTurnInv ==
  ASSUME TrainingAssumption, KeepInv, TurnInv, Crash \/ Restart PROVE TurnInv'
<1>1. CASE Crash
  <2>1. /\ pc' = "dead" /\ pc # "raised"
        /\ UNCHANGED <<kind, epoch, index, iter, model, file, kept>>
    BY <1>1 DEF Crash, optimizer, disk
  <2>2. LoopInv' /\ PerceptronInv'
    BY <2>1 DEF LoopInv, SavesInTraining, PerceptronInv
  <2>3. KeptInv'
    BY <2>1, KeptUntouched DEF TurnInv
  <2> QED
    BY <2>1, <2>2, <2>3 DEF TurnInv
<1>2. CASE Restart
  <2>1. /\ pc' = "start" /\ UNCHANGED <<kind, file, kept>>
        /\ epoch' = 0 /\ index' = 0 /\ iter' = 0 /\ bestIter' = 0 /\ records' = <<>>
        /\ \E h \in Layers(kind) : model' = Fresh(h)
    BY <1>2 DEF Restart
  <2>2. model'.output = <<>> /\ model'.bias = <<>>
    BY <2>1 DEF Fresh
  <2>3. LoopInv' /\ PerceptronInv'
    BY <2>1, <2>2, NothingLearnt DEF LoopInv, NotTrained, SavesInTraining, PerceptronInv
  <2>4. KeptInv'
    BY <2>1, KeptUntouched DEF TurnInv
  <2> QED
    BY <2>1, <2>2, <2>3, <2>4, NothingLearnt DEF TurnInv
<1> QED
  BY <1>1, <1>2

\* Nothing happens.
LEMMA StutterTurnInv ==
  ASSUME TurnInv, UNCHANGED trainingVars PROVE TurnInv'
<1>1. LoopInv' /\ PerceptronInv' /\ KeptInv'
  BY DEF TurnInv, LoopInv, NotTrained, SavesInTraining, PerceptronInv, KeptInv, trainingVars
<1> QED
  BY <1>1 DEF TurnInv, trainingVars

\* In every behaviour the parameters, the loops and the file agree on what was learnt.
THEOREM Learning == TrainingSpec => []TurnInv
<1>1. TrainingInit => TurnInv
  BY TrainingAssumption, InitTurnInv
<1>2. KeepInv /\ TurnInv /\ [TrainingNext]_trainingVars => TurnInv'
  <2> SUFFICES ASSUME KeepInv, TurnInv, [TrainingNext]_trainingVars PROVE TurnInv'
    OBVIOUS
  <2> USE TrainingAssumption
  <2>1. CASE Train \/ Epoch \/ Batch
    BY <2>1, TrainTurnInv, EpochTurnInv, BatchTurnInv
  <2>2. CASE Learn \/ PassValidation \/ Validate
    BY <2>2, LearnTurnInv, CallbackTurnInv
  <2>3. CASE Judge \/ JudgeTheano \/ Install
    BY <2>3, JudgeTurnInv, InstallTurnInv
  <2>4. CASE OpenForSave \/ Dump \/ DumpRaises \/ CloseSaved
    BY <2>4, SavingTurnInv, DumpTurnInv
  <2>5. CASE Load \/ Crash \/ Restart
    BY <2>5, LoadTurnInv, ProcessTurnInv
  <2>6. CASE UNCHANGED trainingVars
    BY <2>6, StutterTurnInv
  <2> QED
    BY <2>1, <2>2, <2>3, <2>4, <2>5, <2>6 DEF TrainingNext, Progress
<1> QED
  BY <1>1, <1>2, Keeping, PTL DEF TrainingSpec

\* For any number of samples, epochs and processes, and any errors found in between: every batch
\* was learnt as a whole and in its turn, in the process that learnt it and in those it was saved
\* for; theano's weights and bias were learnt together; and a training that ended made every
\* step (Optimizer.run, local_callback; learn, save and load of the classifiers).
THEOREM BatchesInTurn == TrainingSpec => []LearntInTurn
<1>1. TurnInv => LearntInTurn
  BY DEF TurnInv, LoopInv, LearntInTurn, InTurn, AllSteps
<1> QED
  BY <1>1, Learning, PTL

-----------------------------------------------------------------------------
(* The steps, and what was found.                                          *)

\* The last error has not been judged yet.
Unjudged == pc = "judge" \/ SavesInTraining

\* At the start nothing is on record.
LEMMA InitRecordInv == ASSUME TrainingAssumption, TrainingInit PROVE RecordInv
<1>1. /\ pc = "start" /\ best = Infinity /\ bestIter = 0 /\ records = <<>> /\ Len(records) = 0
  BY DEF TrainingInit
<1> QED
  BY <1>1 DEF RecordInv, Infinity, JudgedTo, SavesInTraining

\* Steps between the validations.
LEMMA RecordsUntouched ==
  ASSUME RecordInv, UNCHANGED <<kind, best, bestIter, records>>,
         \/ Unjudged /\ Unjudged' /\ iter' = iter
         \/ ~Unjudged /\ ~Unjudged' /\ pc # "dead"
         \/ pc' = "dead" /\ ~Unjudged'
  PROVE  RecordInv'
<1>1. \A k : JudgedTo(k)' = JudgedTo(k)
  BY DEF JudgedTo
<1> QED
  BY <1>1 DEF RecordInv, Unjudged, Behind

\* Nothing is on record when a training or a process begins.
LEMMA NoRecords ==
  ASSUME best' = Infinity, bestIter' = 0, records' = <<>>, pc' \notin {"judge", "save"}
  PROVE  RecordInv'
<1>1. Len(records') = 0 /\ Infinity \in Nat /\ ~SavesInTraining'
  BY DEF Infinity, SavesInTraining
<1> QED
  BY <1>1 DEF RecordInv, JudgedTo

\* A validation puts an error on record, with the parameters it was found with.
LEMMA ValidateRecordInv ==
  ASSUME TrainingAssumption, KeepInv, TurnInv, RecordInv, Validate PROVE RecordInv'
<1>1. PICK e \in Errors : records' = Recorded(e)
  BY DEF Validate
<1> DEFINE r == [iter |-> iter + 1, with |-> model.output, error |-> e]
<1>2. /\ pc = "callback" /\ iter' = iter + 1
      /\ UNCHANGED <<kind, best, bestIter, epoch>>
      /\ pc' = IF kind = "perceptron" THEN "save" ELSE "judge"
      /\ records' = Append(records, r)
  BY <1>1 DEF Validate, Recorded
<1>3. /\ epoch \in 1 .. MaxEpochs /\ index \in 0 .. Batches /\ index < Batches
      /\ iter \in Nat /\ model.output \in Slices
      /\ IF kind = "regression"
         THEN Ahead(model.output, iter) ELSE Ahead(model.output, iter + 1)
  BY <1>2 DEF TurnInv, LoopInv
<1>4. r \in RecordType
  <2>1. e \in Nat
    BY DEF TrainingAssumption
  <2> QED
    BY <1>3, <2>1 DEF RecordType
<1>5. r.iter = iter + 1 /\ r.with = model.output
  OBVIOUS
<1> HIDE DEF r
<1>6. /\ records \in Seq(RecordType) /\ Len(records) \in Nat
      /\ records' \in Seq(RecordType) /\ Len(records') = Len(records) + 1
      /\ \A n \in 1 .. Len(records) : records'[n] = records[n]
      /\ records'[Len(records) + 1] = r
      /\ DOMAIN records = 1 .. Len(records) /\ DOMAIN records' = 1 .. Len(records) + 1
  BY <1>2, <1>4 DEF RecordInv
<1>7. AllSteps > 0
  <2>1. MaxEpochs \in Nat /\ Batches \in Nat /\ MaxEpochs > 0 /\ Batches > 0
    BY <1>3, BatchesType
  <2> QED
    BY <2>1 DEF AllSteps
<1>8. \E q \in Nat : Len(r.with) + Behind = q * AllSteps + r.iter
  <2>1. Len(model.output) \in Nat /\ AllSteps \in Nat
    BY <1>3, BatchesType DEF Slices
  <2>2. CASE kind = "regression"
    <3>1. PICK q \in Nat : Len(model.output) = q * AllSteps + iter
      BY <1>3, <2>2 DEF Ahead
    <3>2. q * AllSteps \in Nat
      BY <2>1
    <3>3. Len(model.output) + 1 = q * AllSteps + (iter + 1)
      BY <1>3, <3>1, <3>2
    <3> QED
      BY <1>5, <2>2, <3>3 DEF Behind
  <2>3. CASE kind # "regression"
    <3>1. PICK q \in Nat : Len(model.output) = q * AllSteps + (iter + 1)
      BY <1>3, <2>3 DEF Ahead
    <3>2. Len(model.output) + 0 = q * AllSteps + (iter + 1)
      BY <2>1, <3>1
    <3> QED
      BY <1>5, <2>3, <3>2 DEF Behind
  <2> QED
    BY <2>2, <2>3
<1>9. \A n \in DOMAIN records' :
        \E q \in Nat : Len(records'[n].with) + Behind' = q * AllSteps + records'[n].iter
  <2>1. Behind' = Behind
    BY <1>2 DEF Behind
  <2> TAKE n \in DOMAIN records'
  <2>2. CASE n \in 1 .. Len(records)
    BY <1>6, <2>1, <2>2 DEF RecordInv
  <2>3. CASE n = Len(records) + 1
    BY <1>6, <1>8, <2>1, <2>3
  <2> QED
    BY <1>6, <2>2, <2>3
<1>10. JudgedTo(Len(records))
  BY <1>2 DEF RecordInv, SavesInTraining
<1>11. /\ JudgedTo(Len(records) - 1)' /\ records' # <<>>
       /\ records'[Len(records')].iter = iter'
  <2>1. Len(records') - 1 = Len(records)
    BY <1>6
  <2>2. \A n \in 1 .. Len(records) : best' <= records'[n].error
    BY <1>2, <1>6, <1>10 DEF JudgedTo
  <2>3. bestIter' > 0 =>
          \E n \in 1 .. Len(records) :
            /\ records'[n].iter = bestIter' /\ records'[n].error = best'
            /\ \A m \in 1 .. n - 1 : records'[m].error > best'
    <3> SUFFICES ASSUME bestIter' > 0
                 PROVE  \E n \in 1 .. Len(records) :
                          /\ records'[n].iter = bestIter' /\ records'[n].error = best'
                          /\ \A m \in 1 .. n - 1 : records'[m].error > best'
      OBVIOUS
    <3>1. PICK n \in 1 .. Len(records) :
            /\ records[n].iter = bestIter /\ records[n].error = best
            /\ \A m \in 1 .. n - 1 : records[m].error > best
      BY <1>2, <1>10 DEF JudgedTo
    <3>2. \A m \in 1 .. n - 1 : m \in 1 .. Len(records)
      BY <1>6
    <3> QED
      BY <1>2, <1>6, <3>1, <3>2
  <2>5. JudgedTo(Len(records) - 1)'
    BY <1>6, <2>1, <2>2, <2>3 DEF JudgedTo
  <2>6. Len(records') # 0 /\ records'[Len(records')] = r
    BY <1>6
  <2> QED
    BY <1>2, <1>5, <2>5, <2>6
<1>12. Unjudged'
  <2>1. epoch' > 0
    BY <1>2, <1>3, BatchesType
  <2> QED
    BY <1>2, <2>1 DEF Unjudged, SavesInTraining
<1> QED
  BY <1>2, <1>6, <1>7, <1>9, <1>11, <1>12 DEF RecordInv, Unjudged

\* The error on record is judged: the best one stays the least of all.
LEMMA JudgeRecordInv ==
  ASSUME TrainingAssumption, RecordInv, Judge \/ JudgeTheano PROVE RecordInv'
<1>1. pc = "judge" /\ pc' = "install" /\ UNCHANGED <<kind, iter, records>>
  BY DEF Judge, JudgeTheano
<1>2. /\ records # <<>> /\ records[Len(records)].iter = iter /\ JudgedTo(Len(records) - 1)
      /\ best \in Nat /\ bestIter \in Nat /\ records \in Seq(RecordType)
      /\ kind = "theano" => bestIter = 0
  BY <1>1 DEF RecordInv
<1>3. Len(records) \in Nat /\ Len(records) >= 1
  BY <1>2, EmptySeq, LenProperties
<1> DEFINE l == Len(records)
           e == records[l].error
<1>4. l \in Nat /\ l >= 1 /\ l \in 1 .. l
  BY <1>3
<1>5. \A n \in 1 .. l : /\ records[n] \in RecordType
                        /\ records[n].error \in Nat /\ records[n].iter \in Nat
  <2> TAKE n \in 1 .. l
  <2>1. records[n] \in RecordType
    BY <1>2, ElementOfSeq
  <2> QED
    BY <2>1 DEF RecordType
<1>6. Last(records) = records[l] /\ e \in Nat /\ records[l].iter = iter /\ iter \in Nat
  BY <1>2, <1>4, <1>5 DEF Last
<1>7. /\ \A n \in 1 .. l - 1 : best <= records[n].error
      /\ bestIter > 0 =>
           \E n \in 1 .. l - 1 :
             /\ records[n].iter = bestIter /\ records[n].error = best
             /\ \A m \in 1 .. n - 1 : records[m].error > best
  BY <1>2 DEF JudgedTo
<1>8. /\ best' = IF e < best THEN e ELSE best
      /\ bestIter' = IF e < best /\ kind # "theano" THEN iter ELSE bestIter
  BY <1>6 DEF Judge, JudgeTheano, Improves
<1>9. best' \in Nat /\ bestIter' \in Nat /\ (kind = "theano" => bestIter' = 0)
  BY <1>2, <1>6, <1>8
<1> HIDE DEF l, e
<1>10. \A n \in 1 .. l : best' <= records[n].error
  <2> TAKE n \in 1 .. l
  <2>1. records[n].error \in Nat
    BY <1>5
  <2>2. CASE n = l
    BY <1>2, <1>6, <1>8, <2>2 DEF e
  <2>3. CASE n \in 1 .. l - 1
    <3>1. best <= records[n].error
      BY <1>7, <2>3
    <3> QED
      BY <1>2, <1>6, <1>8, <2>1, <3>1
  <2> QED
    BY <1>4, <2>2, <2>3
<1>11. bestIter' > 0 =>
         \E n \in 1 .. l :
           /\ records[n].iter = bestIter' /\ records[n].error = best'
           /\ \A m \in 1 .. n - 1 : records[m].error > best'
  <2>1. CASE e < best /\ kind # "theano"
    <3>1. records[l].iter = bestIter' /\ records[l].error = best'
      BY <1>6, <1>8, <2>1 DEF e
    <3>2. \A m \in 1 .. l - 1 : records[m].error > best'
      <4> TAKE m \in 1 .. l - 1
      <4>1. best <= records[m].error /\ m \in 1 .. l
        BY <1>4, <1>7
      <4>2. records[m].error \in Nat
        BY <1>5, <4>1
      <4> QED
        BY <1>2, <1>6, <1>8, <2>1, <4>1, <4>2
    <3> QED
      BY <1>4, <3>1, <3>2
  <2>2. CASE kind = "theano"
    BY <1>9, <2>2
  <2>3. CASE ~(e < best) /\ kind # "theano"
    <3> SUFFICES ASSUME bestIter' > 0
                 PROVE  \E n \in 1 .. l :
                          /\ records[n].iter = bestIter' /\ records[n].error = best'
                          /\ \A m \in 1 .. n - 1 : records[m].error > best'
      OBVIOUS
    <3>1. best' = best /\ bestIter' = bestIter
      BY <1>8, <2>3
    <3>2. PICK n \in 1 .. l - 1 :
            /\ records[n].iter = bestIter /\ records[n].error = best
            /\ \A m \in 1 .. n - 1 : records[m].error > best
      BY <1>7, <3>1
    <3>3. n \in 1 .. l
      BY <1>4
    <3> QED
      BY <3>1, <3>2, <3>3
  <2> QED
    BY <2>1, <2>2, <2>3
<1>12. JudgedTo(Len(records))'
  BY <1>1, <1>10, <1>11 DEF JudgedTo, l
<1>13. Behind' = Behind /\ ~SavesInTraining'
  BY <1>1 DEF Behind, SavesInTraining
<1> QED
  BY <1>1, <1>9, <1>12, <1>13 DEF RecordInv

\* A step of a process that saves: a perceptron that trains has labels, so none of its parts is
\* missing and the error is judged after the save.
LEMMA SavingRecordInv ==
  ASSUME TrainingAssumption, KeepInv, TurnInv, RecordInv,
         OpenForSave \/ Dump \/ DumpRaises \/ CloseSaved
  PROVE  RecordInv'
<1>1. UNCHANGED <<kind, best, bestIter, records, iter, epoch>>
  BY DEF OpenForSave, Dump, DumpRaises, CloseSaved, optimizer
<1>2. CASE OpenForSave
  <2>1. pc = "start" => epoch = 0
    BY DEF TurnInv, LoopInv, NotTrained
  <2>2. pc # "dead" /\ ~Unjudged /\ ~Unjudged'
    BY <1>1, <1>2, <2>1 DEF OpenForSave, Unjudged, SavesInTraining
  <2> QED
    BY <1>1, <2>2, RecordsUntouched
<1>3. CASE Dump
  <2>1. pc = "save" /\ pc' = "save" /\ Unjudged' = Unjudged
    BY <1>1, <1>3 DEF Dump, Unjudged, SavesInTraining
  <2> QED
    BY <1>1, <2>1, RecordsUntouched
<1>4. CASE DumpRaises
  <2>1. pc = "save" /\ pc' = "raised" /\ ~CanDump(dumped + 1)
    BY <1>4 DEF DumpRaises
  <2>2. SavesInTraining => model.labels = TRUE
    BY DEF TurnInv, PerceptronInv, SavesInTraining
  <2>3. ~Unjudged /\ ~Unjudged'
    BY <2>1, <2>2 DEF CanDump, Unjudged, SavesInTraining
  <2> QED
    BY <1>1, <2>1, <2>3, RecordsUntouched
<1>5. CASE CloseSaved
  <2>1. /\ pc = "save" /\ kind \in {"perceptron", "theano"}
        /\ pc' = IF kind = "theano" THEN "saved" ELSE IF epoch > 0 THEN "judge" ELSE "start"
    BY <1>5 DEF CloseSaved, KeepInv
  <2>2. Unjudged' = Unjudged
    BY <1>1, <2>1 DEF Unjudged, SavesInTraining
  <2> QED
    BY <1>1, <2>1, <2>2, RecordsUntouched
<1> QED
  BY <1>2, <1>3, <1>4, <1>5

\* In every behaviour the errors on record are those of the steps, and the best one is the least
\* of those that were judged.
THEOREM Recording == TrainingSpec => []RecordInv
<1>1. TrainingInit => RecordInv
  BY TrainingAssumption, InitRecordInv
<1>2. KeepInv /\ TurnInv /\ RecordInv /\ [TrainingNext]_trainingVars => RecordInv'
  <2> SUFFICES ASSUME KeepInv, TurnInv, RecordInv, [TrainingNext]_trainingVars
               PROVE  RecordInv'
    OBVIOUS
  <2> USE TrainingAssumption
  <2>1. CASE Train \/ Restart
    BY <2>1, NoRecords DEF Train, FreshOptimizer, Restart
  <2>2. CASE Epoch \/ Batch \/ Learn \/ PassValidation \/ Install \/ Load
    <3>1. /\ UNCHANGED <<kind, best, bestIter, records>>
          /\ pc \notin {"judge", "save", "dead"} /\ pc' \notin {"judge", "save"}
      BY <2>2 DEF Epoch, Batch, Learn, LearnRegression, LearnPerceptron, LearnTheano,
        PassValidation, Install, Load, LoadTheano, LoadPerceptron, optimizer
    <3> QED
      BY <3>1, RecordsUntouched DEF Unjudged, SavesInTraining
  <2>3. CASE Validate
    BY <2>3, ValidateRecordInv
  <2>4. CASE Judge \/ JudgeTheano
    BY <2>4, JudgeRecordInv
  <2>5. CASE OpenForSave \/ Dump \/ DumpRaises \/ CloseSaved
    BY <2>5, SavingRecordInv
  <2>6. CASE Crash
    <3>1. UNCHANGED <<kind, best, bestIter, records>> /\ pc' = "dead"
      BY <2>6 DEF Crash, optimizer
    <3> QED
      BY <3>1, RecordsUntouched DEF Unjudged, SavesInTraining
  <2>7. CASE UNCHANGED trainingVars
    <3>1. UNCHANGED <<kind, best, bestIter, records, iter, pc, epoch>>
      BY <2>7 DEF trainingVars
    <3>2. Unjudged' = Unjudged
      BY <3>1 DEF Unjudged, SavesInTraining
    <3>3. CASE pc = "dead"
      BY <3>1, <3>3, RecordsUntouched DEF Unjudged, SavesInTraining
    <3> QED
      BY <3>1, <3>2, <3>3, RecordsUntouched
  <2> QED
    BY <2>1, <2>2, <2>3, <2>4, <2>5, <2>6, <2>7 DEF TrainingNext, Progress
<1> QED
  BY <1>1, <1>2, Keeping, Learning, PTL DEF TrainingSpec

\* For any errors that the validations find: each is on record with the parameters of its own
\* step, or of the step before for PyVision's regression; the best error is the least one, and
\* its step the first that found it (local_callback, validation).
THEOREM BestOnRecord == TrainingSpec => []BestIsOnRecord
<1>1. RecordInv => BestIsOnRecord
  <2> SUFFICES ASSUME RecordInv PROVE BestIsOnRecord
    OBVIOUS
  <2>1. /\ records \in Seq(RecordType) /\ DOMAIN records = 1 .. Len(records)
        /\ Len(records) \in Nat
    BY DEF RecordInv
  <2>2. \A n \in DOMAIN records :
          (Len(records[n].with) - records[n].iter + Behind) % (MaxEpochs * Batches) = 0
    <3> TAKE n \in DOMAIN records
    <3>1. PICK q \in Nat : Len(records[n].with) + Behind = q * AllSteps + records[n].iter
      BY DEF RecordInv
    <3>2. AllSteps \in Nat /\ AllSteps > 0
      BY <2>1, TrainingAssumption, BatchesType DEF RecordInv
    <3>3. /\ records[n].iter \in Nat /\ Len(records[n].with) \in Nat
          /\ Behind \in Nat
      <4>1. records[n] \in RecordType
        BY <2>1, ElementOfSeq
      <4> QED
        BY <4>1 DEF RecordType, Slices, Behind
    <3>4. q * AllSteps \in Nat
      BY <3>2
    <3>5. Len(records[n].with) - records[n].iter + Behind = q * AllSteps + 0
      BY <3>1, <3>3, <3>4
    <3>6. (q * AllSteps + 0) % AllSteps = 0
      BY <3>2, RestOf
    <3> QED
      BY <3>5, <3>6 DEF AllSteps
  <2>3. pc \notin {"save", "judge", "dead"} => JudgedTo(Len(records))
    BY DEF RecordInv, SavesInTraining
  <2> QED
    BY <2>1, <2>2, <2>3 DEF BestIsOnRecord, JudgedTo, Behind
<1> QED
  BY <1>1, Recording, PTL
-----------------------------------------------------------------------------
(* Folds.                                                                  *)

\* Among finite sets there is one with no other below it.
LEMMA LeastSubset ==
  ASSUME NEW T, \A A \in T : IsFiniteSet(A), T # {}
  PROVE \E A \in T : \A B \in T : B \subseteq A => B = A
<1>1. T \subseteq FiniteSubsetsOf(UNION T)
  BY DEF FiniteSubsetsOf
<1>2. PICK A \in T : \A B \in T : <<B, A>> \notin StrictSubsetOrdering(UNION T)
  BY <1>1, FS_StrictSubsetOrderingWellFounded, WFMin
<1> QED
  BY <1>2 DEF StrictSubsetOrdering

\* A set of natural numbers has a least one.
LEMMA NatMin ==
  ASSUME NEW T \in SUBSET Nat, T # {}
  PROVE  \E x \in T : \A y \in T : x <= y
<1> DEFINE U == {A \in SUBSET Nat : \E x \in T : A = 0 .. x}
<1>1. \A x \in T : 0 .. x \in U
  OBVIOUS
<1>2. U # {}
  BY <1>1
<1>3. \A A \in U : IsFiniteSet(A)
  <2> SUFFICES ASSUME NEW x \in T PROVE IsFiniteSet(0 .. x)
    OBVIOUS
  <2> QED BY FS_Interval
<1>4. \A A \in U : \E x \in T : A = 0 .. x
  OBVIOUS
<1> HIDE DEF U
<1>5. PICK A \in U : \A B \in U : B \subseteq A => B = A
  BY <1>2, <1>3, LeastSubset
<1>6. PICK x \in T : A = 0 .. x
  BY <1>4
<1>7. ASSUME NEW y \in T PROVE x <= y
  <2>1. 0 .. y \in U
    BY <1>1
  <2>2. y < x => 0 .. y \subseteq 0 .. x /\ x \in 0 .. x /\ x \notin 0 .. y
    OBVIOUS
  <2>3. x \in Nat /\ y \in Nat
    OBVIOUS
  <2> QED
    BY <2>1, <2>2, <2>3, <1>5, <1>6
<1> QED
  BY <1>7

\* What holds of 0, and of a number when it does of the one before, holds as far as one likes.
LEMMA Stepwise ==
  ASSUME NEW M \in Nat, NEW T, 0 \in T, \A e \in 1 .. M : e - 1 \in T => e \in T
  PROVE  0 .. M \subseteq T
<1> SUFFICES ASSUME NEW j \in 0 .. M, j \notin T PROVE FALSE
  OBVIOUS
<1> DEFINE U == {e \in 0 .. M : e \notin T}
<1>1. U \in SUBSET Nat /\ U # {}
  OBVIOUS
<1> HIDE DEF U
<1>2. PICK x \in U : \A y \in U : x <= y
  BY <1>1, NatMin
<1> USE DEF U
<1>3. x \in 1 .. M /\ x - 1 \in 0 .. M
  BY <1>2
<1>4. ~(x <= x - 1)
  BY <1>3
<1>5. x - 1 \notin U
  BY <1>2, <1>4
<1> QED
  BY <1>2, <1>3, <1>5

\* g is a fold over S and its subsets that takes pick[A] last and goes on by next.
IsFold(S, pick, base, next, g) ==
  g = [A \in SUBSET S |-> IF A = {} THEN base ELSE next[<<pick[A], g[A \ {pick[A]}]>>]]

Foldable(S, D, pick, base, next) ==
  /\ IsFiniteSet(S) /\ base \in D /\ next \in [S \X D -> D]
  /\ \A A \in SUBSET S : A # {} => pick[A] \in A

\* There is one: by the number of what is folded.
LEMMA FoldExists ==
  ASSUME NEW S, NEW D, NEW pick, NEW base, NEW next, Foldable(S, D, pick, base, next)
  PROVE  \E g \in [SUBSET S -> D] : IsFold(S, pick, base, next, g)
<1> SUFFICES ASSUME IsFiniteSet(S), base \in D, next \in [S \X D -> D],
                    \A A \in SUBSET S : A # {} => pick[A] \in A
             PROVE  \E g \in [SUBSET S -> D] : IsFold(S, pick, base, next, g)
  BY DEF Foldable
<1> DEFINE M == Cardinality(S)
           Below(e) == {A \in SUBSET S : Cardinality(A) <= e}
           Good(e, g) == /\ g \in [SUBSET S -> D] /\ g[{}] = base
                         /\ \A A \in Below(e) :
                              A # {} => g[A] = next[<<pick[A], g[A \ {pick[A]}]>>]
           holds == {e \in 0 .. M : \E g : Good(e, g)}
<1>0. /\ M \in Nat
      /\ \A A \in SUBSET S : IsFiniteSet(A) /\ Cardinality(A) \in 0 .. M
  <2>1. M \in Nat
    BY FS_CardinalityType
  <2>2. ASSUME NEW A \in SUBSET S PROVE IsFiniteSet(A) /\ Cardinality(A) \in 0 .. M
    <3>1. IsFiniteSet(A) /\ Cardinality(A) <= M
      BY FS_Subset
    <3> QED
      BY <2>1, <3>1, FS_CardinalityType
  <2> QED
    BY <2>1, <2>2
<1>1. \A A \in SUBSET S : A # {} =>
        /\ pick[A] \in A /\ A \ {pick[A]} \in SUBSET S
        /\ Cardinality(A \ {pick[A]}) = Cardinality(A) - 1
  <2> SUFFICES ASSUME NEW A \in SUBSET S, A # {}
               PROVE  pick[A] \in A /\ Cardinality(A \ {pick[A]}) = Cardinality(A) - 1
    OBVIOUS
  <2>1. pick[A] \in A
    OBVIOUS
  <2> QED
    BY <1>0, <2>1, FS_RemoveElement
<1>2. 0 \in holds
  <2> DEFINE g == [A \in SUBSET S |-> base]
  <2>1. \A A \in Below(0) : A = {}
    BY <1>0, FS_EmptySet
  <2>2. g \in [SUBSET S -> D] /\ g[{}] = base
    OBVIOUS
  <2>3. Good(0, g)
    BY <2>1, <2>2
  <2> HIDE DEF Good, g
  <2>4. 0 \in 0 .. M
    BY <1>0
  <2> QED
    BY <2>3, <2>4
<1>3. ASSUME NEW e \in 1 .. M, e - 1 \in holds PROVE e \in holds
  <2>1. PICK g : Good(e - 1, g)
    BY <1>3
  <2> DEFINE More == [A \in SUBSET S |-> IF A = {} THEN base
                                         ELSE next[<<pick[A], g[A \ {pick[A]}]>>]]
             h == [A \in SUBSET S |-> IF Cardinality(A) = e THEN More[A] ELSE g[A]]
  <2>2. \A A \in SUBSET S : A # {} => next[<<pick[A], g[A \ {pick[A]}]>>] \in D
    <3> SUFFICES ASSUME NEW A \in SUBSET S, A # {} PROVE next[<<pick[A], g[A \ {pick[A]}]>>] \in D
      OBVIOUS
    <3>1. pick[A] \in S /\ g[A \ {pick[A]}] \in D
      BY <1>1, <2>1
    <3> QED
      BY <3>1
  <2>3. More \in [SUBSET S -> D]
    BY <2>2
  <2>4. h \in [SUBSET S -> D]
    BY <2>1, <2>3
  <2>5. h[{}] = base
    <3>1. {} \in SUBSET S /\ More[{}] = base /\ g[{}] = base
      BY <2>1
    <3> HIDE DEF More
    <3> QED
      BY <3>1
  <2>6. ASSUME NEW A \in Below(e), A # {} PROVE h[A] = next[<<pick[A], h[A \ {pick[A]}]>>]
    <3>1. Cardinality(A) \in 0 .. M /\ Cardinality(A \ {pick[A]}) = Cardinality(A) - 1
          /\ A \ {pick[A]} \in SUBSET S
      BY <1>0, <1>1, <2>6
    <3>2. h[A \ {pick[A]}] = g[A \ {pick[A]}]
      BY <3>1
    <3>3. CASE Cardinality(A) = e
      BY <2>6, <3>2, <3>3
    <3>4. CASE Cardinality(A) # e
      <4>1. A \in Below(e - 1)
        BY <3>1, <3>4
      <4>2. g[A] = next[<<pick[A], g[A \ {pick[A]}]>>]
        BY <2>1, <2>6, <4>1
      <4> QED
        BY <3>2, <3>4, <4>2
    <3> QED
      BY <3>3, <3>4
  <2>7. Good(e, h)
    <3> HIDE DEF h
    <3> QED
      BY <2>4, <2>5, <2>6
  <2> QED
    <3> HIDE DEF Good
    <3> QED
      BY <2>7
<1>4. M \in holds
  <2> HIDE DEF holds
  <2> QED
    BY <1>0, <1>2, <1>3, Stepwise
<1>5. PICK g : Good(M, g)
  BY <1>4
<1>6. \A A \in SUBSET S : A \in Below(M)
  BY <1>0
<1>7. IsFold(S, pick, base, next, g)
  BY <1>5, <1>6 DEF IsFold
<1> QED
  BY <1>5, <1>7

\* The greatest and the least of what is left to fold.
LEMMA MaxIs ==
  ASSUME NEW n \in Nat, NEW A \in SUBSET (1 .. n), A # {}
  PROVE  Max(A) \in A /\ \A y \in A : y <= Max(A)
<1>1. \E x \in A : \A y \in A : x >= y
  <2> DEFINE T == {m \in 0 .. n : \A y \in A : y <= m}
  <2>1. T \in SUBSET Nat /\ n \in T
    OBVIOUS
  <2> HIDE DEF T
  <2>2. PICK m \in T : \A i \in T : m <= i
    BY <2>1, NatMin
  <2> USE DEF T
  <2>3. m \in 0 .. n /\ \A y \in A : y <= m
    OBVIOUS
  <2>4. SUFFICES m \in A
    BY <2>3
  <2>5. SUFFICES ASSUME m \notin A PROVE FALSE
    OBVIOUS
  <2>6. \A y \in A : y \in 1 .. n /\ y <= m /\ y # m
    BY <2>3, <2>5
  <2>7. \A y \in A : y <= m - 1
    BY <2>3, <2>6
  <2>8. PICK y \in A : TRUE
    OBVIOUS
  <2>9. 0 <= m - 1
    BY <2>3, <2>6, <2>7, <2>8
  <2>10. m <= m - 1
    BY <2>2, <2>3, <2>7, <2>9
  <2> QED
    BY <2>3, <2>10
<1>2. Max(A) = CHOOSE x \in A : \A y \in A : x >= y
  BY DEF Max
<1>3. Max(A) \in A /\ \A y \in A : Max(A) >= y
  BY <1>1, <1>2
<1> QED
  BY <1>3

\* The least of some of the numbers up to n is one of them.
LEMMA MinIs ==
  ASSUME NEW n \in Nat, NEW A \in SUBSET (1 .. n), A # {}
  PROVE  Min(A) \in A /\ \A y \in A : Min(A) <= y
<1>1. \E x \in A : \A y \in A : x <= y
  <2>1. A \in SUBSET Nat
    OBVIOUS
  <2> QED
    BY <2>1, NatMin
<1>2. Min(A) = CHOOSE x \in A : \A y \in A : x <= y
  BY DEF Min
<1> QED
  BY <1>1, <1>2

\* Step by step from either end.
LEMMA TopOf ==
  ASSUME NEW n \in Nat, NEW i \in 1 .. n
  PROVE  /\ 1 .. i \in SUBSET (1 .. n) /\ 1 .. i # {} /\ Max(1 .. i) = i
         /\ (1 .. i) \ {i} = 1 .. i - 1
<1>1. 1 .. i \in SUBSET (1 .. n) /\ i \in 1 .. i
  OBVIOUS
<1>2. Max(1 .. i) \in 1 .. i /\ i <= Max(1 .. i)
  BY <1>1, MaxIs
<1>3. (1 .. i) \ {i} = 1 .. i - 1
  OBVIOUS
<1> QED
  BY <1>1, <1>2, <1>3

\* The first of a range, and what is left without it.
LEMMA BottomOf ==
  ASSUME NEW n \in Nat, NEW i \in 1 .. n
  PROVE  /\ i .. n \in SUBSET (1 .. n) /\ i .. n # {} /\ Min(i .. n) = i
         /\ (i .. n) \ {i} = i + 1 .. n
<1>1. i .. n \in SUBSET (1 .. n) /\ i \in i .. n
  OBVIOUS
<1>2. Min(i .. n) \in i .. n /\ Min(i .. n) <= i
  BY <1>1, MinIs
<1>3. (i .. n) \ {i} = i + 1 .. n
  OBVIOUS
<1> QED
  BY <1>1, <1>2, <1>3
-----------------------------------------------------------------------------
(* Sums over sets.                                                         *)

\* g has the sums of f over the subsets of S, whatever is added first.
AddsUp(f, S, g) ==
  /\ \A A \in SUBSET S : g[A] \in Int
  /\ g[{}] = 0
  /\ \A A \in SUBSET S : \A x \in A : g[A] = f[x] + g[A \ {x}]

\* g has sums of f with one that pick takes added last.
AddsPicked(f, S, pick, g) ==
  /\ g[{}] = 0
  /\ \A A \in SUBSET S : A # {} => pick[A] \in A /\ g[A] = f[pick[A]] + g[A \ {pick[A]}]

\* A sum does not depend on which member is taken last.
LEMMA OrderFree ==
  ASSUME NEW S, IsFiniteSet(S), NEW f, \A x \in S : f[x] \in Int, NEW pick, NEW g,
         AddsPicked(f, S, pick, g)
  PROVE  AddsUp(f, S, g)
<1>0. g[{}] = 0
  BY DEF AddsPicked
<1>1. \A A \in SUBSET S : g[A] \in Int
  <2> SUFFICES ASSUME NEW bad \in SUBSET S, g[bad] \notin Int PROVE FALSE
    OBVIOUS
  <2> DEFINE T == {A \in SUBSET S : g[A] \notin Int}
  <2>1. (\A A \in T : IsFiniteSet(A)) /\ T # {}
    BY FS_Subset
  <2> HIDE DEF T
  <2>2. PICK A \in T : \A B \in T : B \subseteq A => B = A
    BY <2>1, LeastSubset
  <2> USE DEF T
  <2>3. A # {}
    BY <1>0
  <2>4. pick[A] \in A /\ g[A] = f[pick[A]] + g[A \ {pick[A]}]
    BY <2>3 DEF AddsPicked
  <2>5. A \ {pick[A]} \in SUBSET S /\ A \ {pick[A]} \notin T
    BY <2>2, <2>4
  <2>6. f[pick[A]] \in Int /\ g[A \ {pick[A]}] \in Int
    BY <2>4, <2>5
  <2> QED
    BY <2>4, <2>6
<1>2. \A A \in SUBSET S : \A x \in A : g[A] = f[x] + g[A \ {x}]
  <2> SUFFICES ASSUME NEW bad \in SUBSET S, NEW worse \in bad, g[bad] # f[worse] + g[bad \ {worse}]
               PROVE  FALSE
    OBVIOUS
  <2> DEFINE T == {A \in SUBSET S : \E x \in A : g[A] # f[x] + g[A \ {x}]}
  <2>1. (\A A \in T : IsFiniteSet(A)) /\ T # {}
    BY FS_Subset
  <2> HIDE DEF T
  <2>2. PICK A \in T : \A B \in T : B \subseteq A => B = A
    BY <2>1, LeastSubset
  <2>3. A \in SUBSET S /\ \E x \in A : g[A] # f[x] + g[A \ {x}]
    BY DEF T
  <2>4. PICK x \in A : g[A] # f[x] + g[A \ {x}]
    BY <2>3
  <2> DEFINE y == pick[A]
  <2>5. y \in A /\ g[A] = f[y] + g[A \ {y}]
    BY <2>3, <2>4 DEF AddsPicked
  <2> HIDE DEF y
  <2>6. y # x
    BY <2>4, <2>5
  <2>7. A \ {y} \in SUBSET S /\ A \ {y} \notin T /\ A \ {x} \in SUBSET S /\ A \ {x} \notin T
    BY <2>2, <2>3, <2>4, <2>5
  <2>8. g[A \ {y}] = f[x] + g[(A \ {y}) \ {x}]
    BY <2>4, <2>6, <2>7 DEF T
  <2>9. g[A \ {x}] = f[y] + g[(A \ {x}) \ {y}]
    BY <2>5, <2>6, <2>7 DEF T
  <2>10. (A \ {x}) \ {y} = (A \ {y}) \ {x}
    OBVIOUS
  <2>11. f[x] \in Int /\ f[y] \in Int /\ g[(A \ {y}) \ {x}] \in Int
    BY <1>1, <2>3, <2>4, <2>5
  <2> DEFINE u == g[(A \ {y}) \ {x}]
  <2>12. g[A] = f[y] + (f[x] + u) /\ g[A \ {x}] = f[y] + u
    BY <2>5, <2>8, <2>9, <2>10
  <2>13. u \in Int
    BY <2>11
  <2> HIDE DEF u
  <2>14. f[y] + (f[x] + u) = f[x] + (f[y] + u)
    BY <2>11, <2>13
  <2> QED
    BY <2>4, <2>12, <2>14
<1> QED
  BY <1>0, <1>1, <1>2 DEF AddsUp

\* There is one such function.
LEMMA OneSum ==
  ASSUME NEW S, IsFiniteSet(S), NEW f, NEW g, NEW h, AddsUp(f, S, g), AddsUp(f, S, h)
  PROVE  g[S] = h[S]
<1> SUFFICES ASSUME g[S] # h[S] PROVE FALSE
  OBVIOUS
<1> DEFINE T == {A \in SUBSET S : g[A] # h[A]}
<1>1. (\A A \in T : IsFiniteSet(A)) /\ T # {}
  BY FS_Subset
<1> HIDE DEF T
<1>2. PICK A \in T : \A B \in T : B \subseteq A => B = A
  BY <1>1, LeastSubset
<1>3. A \in SUBSET S /\ g[A] # h[A]
  BY DEF T
<1>4. A # {}
  BY <1>3 DEF AddsUp
<1>5. PICK x \in A : TRUE
  BY <1>4
<1>6. A \ {x} \in SUBSET S /\ A \ {x} \notin T
  BY <1>2, <1>3, <1>5
<1>7. g[A \ {x}] = h[A \ {x}]
  BY <1>6 DEF T
<1>8. g[A] = f[x] + g[A \ {x}] /\ h[A] = f[x] + h[A \ {x}]
  BY <1>3, <1>5 DEF AddsUp
<1> QED
  BY <1>3, <1>7, <1>8

Numbers(f, S) == IsFiniteSet(S) /\ \A x \in S : f[x] \in Int

Some(S) == CHOOSE x \in S : TRUE
Sigma(f, S) == MapThenSumSet(LAMBDA x : f[x], S)

\* A sum of the community modules is one that adds up.
LEMMA SigmaIs ==
  ASSUME NEW S, NEW f, Numbers(f, S)
  PROVE  \E g : AddsUp(f, S, g) /\ Sigma(f, S) = g[S]
<1>0. IsFiniteSet(S) /\ \A x \in S : f[x] \in Int
  BY DEF Numbers
<1> USE <1>0
<1> DEFINE pick == [A \in SUBSET S |-> Some(A)]
           next == [z \in S \X Int |-> f[z[1]] + z[2]]
           Iter(g) == [A \in SUBSET S |->
                         IF A = {} THEN 0
                         ELSE f[CHOOSE x \in A : TRUE] + g[A \ {CHOOSE x \in A : TRUE}]]
           R == CHOOSE g : g = Iter(g)
<1>1. next \in [S \X Int -> Int]
  <2> SUFFICES ASSUME NEW z \in S \X Int PROVE f[z[1]] + z[2] \in Int
    OBVIOUS
  <2>1. z[1] \in S /\ z[2] \in Int
    OBVIOUS
  <2> QED
    BY <2>1
<1>2. \A A \in SUBSET S : A # {} => pick[A] \in A
  BY DEF Some
<1>3. PICK g \in [SUBSET S -> Int] : IsFold(S, pick, 0, next, g)
  <2> HIDE DEF pick, next
  <2> QED
    <3>1. Foldable(S, Int, pick, 0, next)
      BY <1>1, <1>2 DEF Foldable
    <3> QED
      BY <3>1, FoldExists
<1>4. \A A \in SUBSET S : A # {} =>
        /\ pick[A] = CHOOSE x \in A : TRUE
        /\ next[<<pick[A], g[A \ {pick[A]}]>>] = f[pick[A]] + g[A \ {pick[A]}]
  <2> SUFFICES ASSUME NEW A \in SUBSET S, A # {}
               PROVE  /\ pick[A] = CHOOSE x \in A : TRUE
                      /\ next[<<pick[A], g[A \ {pick[A]}]>>] = f[pick[A]] + g[A \ {pick[A]}]
    OBVIOUS
  <2>1. pick[A] = CHOOSE x \in A : TRUE
    BY DEF Some
  <2>2. pick[A] \in S /\ g[A \ {pick[A]}] \in Int
    BY <1>2, <1>3
  <2> HIDE DEF pick
  <2>3. <<pick[A], g[A \ {pick[A]}]>> \in S \X Int
    BY <2>2
  <2> QED
    BY <2>1, <2>3
<1>5. g = Iter(g)
  <2>1. g = [A \in SUBSET S |-> IF A = {} THEN 0 ELSE next[<<pick[A], g[A \ {pick[A]}]>>]]
    BY <1>3 DEF IsFold
  <2>2. \A A \in SUBSET S :
          (IF A = {} THEN 0 ELSE next[<<pick[A], g[A \ {pick[A]}]>>])
            = IF A = {} THEN 0
              ELSE f[CHOOSE x \in A : TRUE] + g[A \ {CHOOSE x \in A : TRUE}]
    <3> HIDE DEF pick, next
    <3> QED
      BY <1>4
  <2> HIDE DEF pick, next
  <2> QED
    BY <2>1, <2>2
<1>6. R = Iter(R)
  <2>1. \E h : h = Iter(h)
    BY <1>5
  <2> HIDE DEF Iter
  <2> QED
    BY <2>1
<1>7. Sigma(f, S) = R[S]
  BY DEF Sigma, MapThenSumSet, MapThenFoldSet
<1> HIDE DEF R
<1>8. AddsPicked(f, S, pick, R)
  <2>1. R[{}] = 0
    BY <1>6
  <2>2. ASSUME NEW A \in SUBSET S, A # {} PROVE R[A] = f[pick[A]] + R[A \ {pick[A]}]
    <3>1. R[A] = f[CHOOSE x \in A : TRUE] + R[A \ {CHOOSE x \in A : TRUE}]
      BY <1>6, <2>2
    <3> HIDE DEF pick
    <3> QED
      BY <1>4, <2>2, <3>1
  <2> HIDE DEF pick
  <2> QED
    BY <1>2, <2>1, <2>2 DEF AddsPicked
<1> QED
  BY <1>7, <1>8, OrderFree

\* There is nothing to add.
LEMMA SigmaEmpty == ASSUME NEW f PROVE Sigma(f, {}) = 0
<1>1. Numbers(f, {})
  BY FS_EmptySet DEF Numbers
<1>2. PICK g : AddsUp(f, {}, g) /\ Sigma(f, {}) = g[{}]
  BY <1>1, SigmaIs
<1> QED
  BY <1>2 DEF AddsUp

\* Any member can be taken out of a sum.
LEMMA SigmaStep ==
  ASSUME NEW S, NEW f, Numbers(f, S), NEW x \in S
  PROVE  Sigma(f, S) = f[x] + Sigma(f, S \ {x})
<1>0. IsFiniteSet(S) /\ \A y \in S : f[y] \in Int
  BY DEF Numbers
<1> USE <1>0
<1>1. PICK g : AddsUp(f, S, g) /\ Sigma(f, S) = g[S]
  BY SigmaIs
<1> DEFINE B == S \ {x}
<1>2. IsFiniteSet(B) /\ Numbers(f, B)
  BY FS_Subset DEF Numbers
<1>3. PICK h : AddsUp(f, B, h) /\ Sigma(f, B) = h[B]
  BY <1>2, SigmaIs
<1>4. AddsUp(f, B, g)
  BY <1>1 DEF AddsUp
<1>5. g[B] = h[B]
  BY <1>2, <1>3, <1>4, OneSum
<1>6. g[S] = f[x] + g[B]
  BY <1>1 DEF AddsUp
<1> QED
  BY <1>1, <1>3, <1>5, <1>6

\* A sum of integers is one.
LEMMA SigmaInt ==
  ASSUME NEW S, NEW f, Numbers(f, S)
  PROVE  Sigma(f, S) \in Int
<1>1. PICK g : AddsUp(f, S, g) /\ Sigma(f, S) = g[S]
  BY SigmaIs
<1> QED
  BY <1>1 DEF AddsUp

\* What holds of the empty set, and of a set when it does without one of its members, holds of
\* a finite set.
LEMMA SetByStep ==
  ASSUME NEW S, IsFiniteSet(S), NEW T, {} \in T,
         \A A \in SUBSET S : \A x \in A : A \ {x} \in T => A \in T
  PROVE  S \in T
<1> SUFFICES ASSUME S \notin T PROVE FALSE
  OBVIOUS
<1> DEFINE U == {A \in SUBSET S : A \notin T}
<1>1. (\A A \in U : IsFiniteSet(A)) /\ U # {}
  BY FS_Subset
<1> HIDE DEF U
<1>2. PICK A \in U : \A B \in U : B \subseteq A => B = A
  BY <1>1, LeastSubset
<1>3. A \in SUBSET S /\ A \notin T
  BY DEF U
<1>4. PICK x \in A : TRUE
  BY <1>3
<1>5. A \ {x} \in SUBSET S /\ A \ {x} \notin U
  BY <1>2, <1>3, <1>4
<1> QED
  BY <1>3, <1>4, <1>5 DEF U

\* Fewer numbers are numbers.
LEMMA NumbersBelow ==
  ASSUME NEW f, NEW S, Numbers(f, S), NEW A \in SUBSET S
  PROVE  Numbers(f, A)
BY FS_Subset DEF Numbers

\* The sum depends on the values only.
LEMMA SigmaSame ==
  ASSUME NEW S, NEW f, Numbers(f, S), NEW h, \A x \in S : h[x] = f[x]
  PROVE  Sigma(h, S) = Sigma(f, S)
<1> DEFINE T == {A \in SUBSET S : Sigma(h, A) = Sigma(f, A)}
<1>1. {} \in T
  BY SigmaEmpty
<1>2. ASSUME NEW A \in SUBSET S, NEW x \in A, A \ {x} \in T PROVE A \in T
  <2>1. Numbers(f, A) /\ Numbers(h, A)
    BY NumbersBelow DEF Numbers
  <2>2. Sigma(f, A) = f[x] + Sigma(f, A \ {x}) /\ Sigma(h, A) = h[x] + Sigma(h, A \ {x})
    BY <2>1, SigmaStep
  <2> QED
    BY <1>2, <2>2
<1>3. S \in T
  <2> HIDE DEF T
  <2> QED
    BY <1>1, <1>2, SetByStep DEF Numbers
<1> QED
  BY <1>3

\* A sum of zeros.
LEMMA SigmaZero ==
  ASSUME NEW S, IsFiniteSet(S), NEW f, \A x \in S : f[x] = 0
  PROVE  Sigma(f, S) = 0
<1> DEFINE T == {A \in SUBSET S : Sigma(f, A) = 0}
<1>0. Numbers(f, S)
  BY DEF Numbers
<1>1. {} \in T
  BY SigmaEmpty
<1>2. ASSUME NEW A \in SUBSET S, NEW x \in A, A \ {x} \in T PROVE A \in T
  <2>1. Sigma(f, A) = f[x] + Sigma(f, A \ {x})
    BY <1>0, NumbersBelow, SigmaStep
  <2> QED
    BY <1>2, <2>1
<1>3. S \in T
  <2> HIDE DEF T
  <2> QED
    BY <1>1, <1>2, SetByStep
<1> QED
  BY <1>3

\* A sum of natural numbers, some of them positive.
LEMMA SigmaNat ==
  ASSUME NEW S, IsFiniteSet(S), NEW f, \A x \in S : f[x] \in Nat
  PROVE  /\ Numbers(f, S) /\ Sigma(f, S) \in Nat
         /\ (\E x \in S : f[x] > 0) => Sigma(f, S) > 0
<1> DEFINE T == {A \in SUBSET S : Sigma(f, A) \in Nat}
<1>1. Numbers(f, S)
  <2>1. \A x \in S : f[x] \in Int
    OBVIOUS
  <2> QED
    BY <2>1 DEF Numbers
<1>2. {} \in T
  BY SigmaEmpty
<1>3. ASSUME NEW A \in SUBSET S, NEW x \in A, A \ {x} \in T PROVE A \in T
  <2>1. Sigma(f, A) = f[x] + Sigma(f, A \ {x})
    BY <1>1, NumbersBelow, SigmaStep
  <2>2. f[x] \in Nat /\ Sigma(f, A \ {x}) \in Nat
    BY <1>3
  <2> QED
    BY <2>1, <2>2
<1>4. ASSUME NEW A \in SUBSET S PROVE A \in T
  <2>1. IsFiniteSet(A)
    BY FS_Subset
  <2>2. \A B \in SUBSET A : \A x \in B : B \ {x} \in T => B \in T
    <3> HIDE DEF T
    <3> QED
      BY <1>3
  <2> HIDE DEF T
  <2> QED
    BY <1>2, <2>1, <2>2, SetByStep
<1>5. ASSUME NEW x \in S, f[x] > 0 PROVE Sigma(f, S) > 0
  <2>1. Sigma(f, S) = f[x] + Sigma(f, S \ {x})
    BY <1>1, SigmaStep
  <2>2. S \ {x} \in SUBSET S
    OBVIOUS
  <2>3. Sigma(f, S \ {x}) \in Nat
    BY <1>4, <2>2
  <2> QED
    BY <1>5, <2>1, <2>3
<1>6. Sigma(f, S) \in Nat
  BY <1>4
<1> QED
  BY <1>1, <1>5, <1>6

\* A sum with one value besides zeros.
LEMMA SigmaOne ==
  ASSUME NEW S, NEW f, Numbers(f, S), NEW z \in S, \A x \in S : x # z => f[x] = 0
  PROVE  Sigma(f, S) = f[z]
<1>1. Sigma(f, S) = f[z] + Sigma(f, S \ {z})
  BY SigmaStep
<1>2. Sigma(f, S \ {z}) = 0
  <2>1. IsFiniteSet(S \ {z})
    BY FS_Subset DEF Numbers
  <2> QED
    BY <2>1, SigmaZero
<1>3. f[z] \in Int
  BY DEF Numbers
<1> QED
  BY <1>1, <1>2, <1>3

\* A factor can be taken out of a sum.
LEMMA SigmaTimes ==
  ASSUME NEW S, NEW f, Numbers(f, S), NEW c \in Int, NEW h, \A x \in S : h[x] = c * f[x]
  PROVE  Numbers(h, S) /\ Sigma(h, S) = c * Sigma(f, S)
<1> DEFINE T == {A \in SUBSET S : Sigma(h, A) = c * Sigma(f, A)}
<1>0. Numbers(h, S)
  <2>1. \A x \in S : c * f[x] \in Int
    BY DEF Numbers
  <2> QED
    BY <2>1 DEF Numbers
<1>1. {} \in T
  <2>1. Sigma(h, {}) = 0 /\ Sigma(f, {}) = 0
    BY SigmaEmpty
  <2> QED
    BY <2>1
<1>2. ASSUME NEW A \in SUBSET S, NEW x \in A, A \ {x} \in T PROVE A \in T
  <2>1. /\ Sigma(f, A) = f[x] + Sigma(f, A \ {x}) /\ Sigma(h, A) = h[x] + Sigma(h, A \ {x})
    BY <1>0, NumbersBelow, SigmaStep
  <2>2. f[x] \in Int /\ Sigma(f, A \ {x}) \in Int
    <3>1. Numbers(f, A \ {x})
      BY NumbersBelow
    <3> QED
      BY <3>1, SigmaInt DEF Numbers
  <2>3. h[x] = c * f[x] /\ Sigma(h, A \ {x}) = c * Sigma(f, A \ {x})
    BY <1>2
  <2>4. \A u, v \in Int : c * (u + v) = c * u + c * v
    OBVIOUS
  <2> QED
    BY <2>1, <2>2, <2>3, <2>4
<1>3. S \in T
  <2> HIDE DEF T
  <2> QED
    BY <1>1, <1>2, SetByStep DEF Numbers
<1> QED
  BY <1>0, <1>3

\* The sum of sums.
LEMMA SigmaPlus ==
  ASSUME NEW S, NEW f, NEW e, Numbers(f, S), Numbers(e, S), NEW h, \A x \in S : h[x] = f[x] + e[x]
  PROVE  Numbers(h, S) /\ Sigma(h, S) = Sigma(f, S) + Sigma(e, S)
<1> DEFINE T == {A \in SUBSET S : Sigma(h, A) = Sigma(f, A) + Sigma(e, A)}
<1>0. Numbers(h, S)
  BY DEF Numbers
<1>1. {} \in T
  <2>1. Sigma(h, {}) = 0 /\ Sigma(f, {}) = 0 /\ Sigma(e, {}) = 0
    BY SigmaEmpty
  <2> QED
    BY <2>1
<1>2. ASSUME NEW A \in SUBSET S, NEW x \in A, A \ {x} \in T PROVE A \in T
  <2>1. /\ Sigma(f, A) = f[x] + Sigma(f, A \ {x}) /\ Sigma(h, A) = h[x] + Sigma(h, A \ {x})
        /\ Sigma(e, A) = e[x] + Sigma(e, A \ {x})
    BY <1>0, NumbersBelow, SigmaStep
  <2>2. f[x] \in Int /\ Sigma(f, A \ {x}) \in Int /\ e[x] \in Int /\ Sigma(e, A \ {x}) \in Int
    <3>1. Numbers(f, A \ {x}) /\ Numbers(e, A \ {x})
      BY NumbersBelow
    <3> QED
      BY <3>1, SigmaInt DEF Numbers
  <2>3. h[x] = f[x] + e[x] /\ Sigma(h, A \ {x}) = Sigma(f, A \ {x}) + Sigma(e, A \ {x})
    BY <1>2
  <2> QED
    BY <2>1, <2>2, <2>3
<1>3. S \in T
  <2> HIDE DEF T
  <2> QED
    BY <1>1, <1>2, SetByStep DEF Numbers
<1> QED
  BY <1>0, <1>3
Apart(A, B) == A \cap B = {}

\* A sum over two sets that have nothing in common.
LEMMA SigmaUnion ==
  ASSUME NEW S, NEW f, Numbers(f, S), NEW A \in SUBSET S, NEW B \in SUBSET S, Apart(A, B)
  PROVE  Sigma(f, A \cup B) = Sigma(f, A) + Sigma(f, B)
<1> DEFINE T == {C \in SUBSET A : Sigma(f, C \cup B) = Sigma(f, C) + Sigma(f, B)}
<1>0. Sigma(f, B) \in Int
  BY NumbersBelow, SigmaInt
<1>1. {} \in T
  <2>1. Sigma(f, {}) = 0 /\ {} \cup B = B
    BY SigmaEmpty
  <2> QED
    BY <1>0, <2>1
<1>2. ASSUME NEW C \in SUBSET A, NEW x \in C, C \ {x} \in T PROVE C \in T
  <2>1. Numbers(f, C \cup B) /\ Numbers(f, C) /\ Numbers(f, C \ {x})
    <3>1. C \cup B \in SUBSET S /\ C \in SUBSET S /\ C \ {x} \in SUBSET S
      OBVIOUS
    <3> QED
      BY <3>1, NumbersBelow
  <2>2. Sigma(f, C \cup B) = f[x] + Sigma(f, (C \cup B) \ {x})
    BY <2>1, SigmaStep
  <2>3. Sigma(f, C) = f[x] + Sigma(f, C \ {x})
    BY <2>1, SigmaStep
  <2>4. (C \cup B) \ {x} = (C \ {x}) \cup B
    BY DEF Apart
  <2>5. f[x] \in Int /\ Sigma(f, C \ {x}) \in Int
    BY <2>1, SigmaInt DEF Numbers
  <2>6. Sigma(f, (C \ {x}) \cup B) = Sigma(f, C \ {x}) + Sigma(f, B)
    BY <1>2
  <2> DEFINE u == Sigma(f, C \ {x})
             v == Sigma(f, B)
  <2>7. Sigma(f, C \cup B) = f[x] + (u + v) /\ Sigma(f, C) = f[x] + u
    BY <2>2, <2>3, <2>4, <2>6
  <2>8. u \in Int /\ v \in Int
    BY <1>0, <2>5
  <2> HIDE DEF u
  <2>9. f[x] + (u + v) = (f[x] + u) + v
    <3> HIDE DEF v
    <3> QED
      BY <2>5, <2>8
  <2>10. Sigma(f, C \cup B) = Sigma(f, C) + Sigma(f, B)
    BY <2>7, <2>9
  <2> QED
    BY <2>10
<1>3. A \in T
  <2>1. IsFiniteSet(A)
    BY FS_Subset DEF Numbers
  <2> HIDE DEF T
  <2> QED
    BY <1>1, <1>2, <2>1, SetByStep
<1> QED
  BY <1>3

\* A sum does not change when what it is over gets other names.
LEMMA SigmaMap ==
  ASSUME NEW S, IsFiniteSet(S), NEW U, NEW f, Numbers(f, U), NEW e \in [S -> U],
         \A x, y \in S : e[x] = e[y] => x = y,
         \A u \in U : \E x \in S : u = e[x],
         NEW h, \A x \in S : h[x] = f[e[x]]
  PROVE  Numbers(h, S) /\ Sigma(h, S) = Sigma(f, U)
<1> DEFINE Image(A) == {e[x] : x \in A}
           T == {A \in SUBSET S : Sigma(h, A) = Sigma(f, Image(A))}
<1>0. Numbers(h, S)
  <2>1. \A x \in S : e[x] \in U
    OBVIOUS
  <2> QED
    BY <2>1 DEF Numbers
<1>1. {} \in T
  <2>1. Image({}) = {}
    OBVIOUS
  <2> QED
    BY <2>1, SigmaEmpty
<1>2. ASSUME NEW A \in SUBSET S, NEW x \in A, A \ {x} \in T PROVE A \in T
  <2>1. Image(A) \in SUBSET U /\ e[x] \in Image(A)
    OBVIOUS
  <2>2. Image(A) \ {e[x]} = Image(A \ {x})
    OBVIOUS
  <2>3. Sigma(h, A \ {x}) = Sigma(f, Image(A \ {x}))
    BY <1>2
  <2>4. h[x] = f[e[x]]
    OBVIOUS
  <2> HIDE DEF Image
  <2>5. Sigma(f, Image(A)) = f[e[x]] + Sigma(f, Image(A) \ {e[x]})
    BY <2>1, NumbersBelow, SigmaStep
  <2>6. Sigma(h, A) = h[x] + Sigma(h, A \ {x})
    BY <1>0, NumbersBelow, SigmaStep
  <2>7. Sigma(h, A) = Sigma(f, Image(A))
    BY <2>2, <2>3, <2>4, <2>5, <2>6
  <2> QED
    BY <2>7
<1>3. S \in T
  <2> HIDE DEF T
  <2> QED
    BY <1>1, <1>2, SetByStep
<1>4. Image(S) = U
  OBVIOUS
<1>5. Sigma(h, S) = Sigma(f, Image(S))
  BY <1>3
<1> QED
  BY <1>0, <1>4, <1>5

\* e gives the pairs of S and K the names in U, and h has the sums over K of what f has there.
Pairs(S, K, U, f, e, rows, h) ==
  /\ IsFiniteSet(S) /\ IsFiniteSet(K) /\ Numbers(f, U)
  /\ \A x \in S, k \in K : e[x][k] \in U
  /\ \A x, y \in S : \A k, l \in K : e[x][k] = e[y][l] => x = y /\ k = l
  /\ \A u \in U : \E x \in S, k \in K : u = e[x][k]
  /\ \A x \in S, k \in K : rows[x][k] = f[e[x][k]]
  /\ \A x \in S : h[x] = Sigma(rows[x], K)

\* A sum over pairs, in whatever names, is the sum of the sums over the second.
LEMMA SigmaPairs ==
  ASSUME NEW S, NEW K, NEW U, NEW f, NEW e, NEW rows, NEW h, Pairs(S, K, U, f, e, rows, h)
  PROVE  Numbers(h, S) /\ Sigma(h, S) = Sigma(f, U)
<1> USE DEF Pairs
<1> DEFINE Row(x) == {e[x][k] : k \in K}
           Image(A) == UNION {Row(x) : x \in A}
           T == {A \in SUBSET S : Sigma(h, A) = Sigma(f, Image(A))}
<1>0. ASSUME NEW x \in S PROVE h[x] = Sigma(f, Row(x)) /\ h[x] \in Int /\ Numbers(f, Row(x))
  <2>1. Row(x) \in SUBSET U
    OBVIOUS
  <2>2. Numbers(f, Row(x))
    <3> HIDE DEF Row
    <3> QED
      BY <2>1, NumbersBelow
  <2> DEFINE g == [k \in K |-> e[x][k]]
             q == rows[x]
  <2>3. g \in [K -> Row(x)]
    OBVIOUS
  <2>4. \A k, l \in K : g[k] = g[l] => k = l
    OBVIOUS
  <2>5. \A u \in Row(x) : \E k \in K : u = g[k]
    OBVIOUS
  <2>6. \A k \in K : q[k] = f[g[k]]
    OBVIOUS
  <2>8. h[x] = Sigma(q, K)
    OBVIOUS
  <2> HIDE DEF g, Row, q
  <2>7. Sigma(q, K) = Sigma(f, Row(x))
    BY <2>2, <2>3, <2>4, <2>5, <2>6, SigmaMap
  <2> QED
    BY <2>2, <2>7, <2>8, SigmaInt
<1> HIDE DEF Pairs
<1>10. \A x \in S : h[x] = Sigma(f, Row(x)) /\ h[x] \in Int
  <2> HIDE DEF Row
  <2> QED
    BY <1>0
<1> USE DEF Pairs
<1>1. Numbers(h, S)
  <2> HIDE DEF Row
  <2> QED
    BY <1>10 DEF Numbers
<1>2. {} \in T
  <2>1. Image({}) = {}
    OBVIOUS
  <2> QED
    BY <2>1, SigmaEmpty
<1>3. ASSUME NEW A \in SUBSET S, NEW x \in A, A \ {x} \in T PROVE A \in T
  <2>1. Image(A) = Row(x) \cup Image(A \ {x})
    OBVIOUS
  <2>2. Apart(Row(x), Image(A \ {x}))
    BY DEF Apart
  <2>3. Row(x) \in SUBSET U /\ Image(A \ {x}) \in SUBSET U
    OBVIOUS
  <2>4. Sigma(h, A \ {x}) = Sigma(f, Image(A \ {x}))
    BY <1>3
  <2>5. h[x] = Sigma(f, Row(x))
    <3>1. x \in S
      OBVIOUS
    <3> HIDE DEF Row, Pairs, T
    <3> QED
      BY <1>10, <3>1
  <2> HIDE DEF Image, Row
  <2>6. Sigma(f, Row(x) \cup Image(A \ {x})) = Sigma(f, Row(x)) + Sigma(f, Image(A \ {x}))
    <3>1. Numbers(f, U)
      OBVIOUS
    <3> HIDE DEF Pairs, T
    <3> QED
      BY <2>2, <2>3, <3>1, SigmaUnion
  <2>7. Sigma(h, A) = h[x] + Sigma(h, A \ {x})
    BY <1>1, NumbersBelow, SigmaStep
  <2>8. Sigma(h, A) = Sigma(f, Image(A))
    BY <2>1, <2>4, <2>5, <2>6, <2>7
  <2> QED
    BY <2>8
<1>4. S \in T
  <2> HIDE DEF T
  <2> QED
    BY <1>2, <1>3, SetByStep
<1>5. Image(S) = U
  OBVIOUS
<1>6. Sigma(h, S) = Sigma(f, Image(S))
  BY <1>4
<1> QED
  BY <1>1, <1>5, <1>6

\* Rows first or columns first.
Table(S, K, f, rows, turned, columns) ==
  /\ IsFiniteSet(S) /\ IsFiniteSet(K)
  /\ \A x \in S, k \in K : f[x][k] \in Int /\ turned[k][x] = f[x][k]
  /\ \A x \in S : rows[x] = Sigma(f[x], K)
  /\ \A k \in K : columns[k] = Sigma(turned[k], S)

\* Adding up rows or columns first comes to the same.
LEMMA SigmaSwap ==
  ASSUME NEW S, NEW K, NEW f, NEW rows, NEW turned, NEW columns,
         Table(S, K, f, rows, turned, columns)
  PROVE  /\ Numbers(rows, S) /\ Numbers(columns, K)
         /\ Sigma(rows, S) = Sigma(columns, K)
<1> USE DEF Table
<1> DEFINE U == S \X K
           all == [z \in U |-> f[z[1]][z[2]]]
           there == [x \in S |-> [k \in K |-> <<x, k>>]]
           back == [k \in K |-> [x \in S |-> <<x, k>>]]
<1>1. Numbers(all, U)
  <2>1. IsFiniteSet(U)
    BY FS_Product
  <2>2. \A z \in U : all[z] \in Int
    <3> SUFFICES ASSUME NEW z \in U PROVE f[z[1]][z[2]] \in Int
      OBVIOUS
    <3>1. z[1] \in S /\ z[2] \in K
      OBVIOUS
    <3> QED
      BY <3>1
  <2> HIDE DEF U, all
  <2> QED
    BY <2>1, <2>2 DEF Numbers
<1>2. /\ \A x \in S, k \in K : there[x][k] = <<x, k>> /\ there[x][k] \in U /\ f[x][k] = all[there[x][k]]
      /\ \A x \in S, k \in K : back[k][x] = <<x, k>> /\ back[k][x] \in U /\ turned[k][x] = all[back[k][x]]
  OBVIOUS
<1>3. \A u \in U : \E x \in S, k \in K : u = <<x, k>>
  OBVIOUS
<1> HIDE DEF U, all, there, back
<1>4. \A u \in U : \E x \in S, k \in K : u = there[x][k]
  BY <1>2, <1>3
<1>5. \A u \in U : \E k \in K, x \in S : u = back[k][x]
  BY <1>2, <1>3
<1>6. \A x, y \in S : \A k, l \in K : there[x][k] = there[y][l] => x = y /\ k = l
  BY <1>2
<1>7. \A k, l \in K : \A x, y \in S : back[k][x] = back[l][y] => k = l /\ x = y
  BY <1>2
<1>8. Numbers(rows, S) /\ Sigma(rows, S) = Sigma(all, U)
  <2>1. \A x \in S, k \in K : there[x][k] \in U
    BY <1>2
  <2>2. \A x \in S, k \in K : f[x][k] = all[there[x][k]]
    BY <1>2
  <2>3. Pairs(S, K, U, all, there, f, rows)
    BY <1>1, <2>1, <2>2, <1>4, <1>6 DEF Pairs
  <2> QED
    BY <2>3, SigmaPairs
<1>9. Numbers(columns, K) /\ Sigma(columns, K) = Sigma(all, U)
  <2>1. \A k \in K, x \in S : back[k][x] \in U
    BY <1>2
  <2>2. \A k \in K, x \in S : turned[k][x] = all[back[k][x]]
    BY <1>2
  <2>3. Pairs(K, S, U, all, back, turned, columns)
    BY <1>1, <2>1, <2>2, <1>5, <1>7 DEF Pairs
  <2> QED
    BY <2>3, SigmaPairs
<1> QED
  BY <1>8, <1>9
-----------------------------------------------------------------------------
(* Folds over sequences.                                                   *)

\* A function of a place in a sequence and what came of the fold before.
Steps(n, D, base, next) == n \in Nat /\ base \in D /\ next \in [(1 .. n) \X D -> D]

LeftTo(n, D, base, next, g) ==
  /\ g \in [SUBSET (1 .. n) -> D] /\ g[{}] = base
  /\ \A A \in SUBSET (1 .. n) : A # {} =>
       /\ Max(A) \in 1 .. n /\ g[A \ {Max(A)}] \in D
       /\ g[A] = next[<<Max(A), g[A \ {Max(A)}]>>]

\* A fold from the left exists.
LEMMA LeftFold ==
  ASSUME NEW n, NEW D, NEW base, NEW next, Steps(n, D, base, next)
  PROVE  \E g : LeftTo(n, D, base, next, g)
<1>0. n \in Nat /\ base \in D /\ next \in [(1 .. n) \X D -> D]
  BY DEF Steps
<1> USE <1>0
<1> DEFINE S == 1 .. n
           pick == [A \in SUBSET S |-> Max(A)]
<1>1. \A A \in SUBSET S : A # {} => pick[A] \in A /\ pick[A] = Max(A)
  BY MaxIs
<1>2. Foldable(S, D, pick, base, next)
  <2>1. IsFiniteSet(S)
    BY FS_Interval
  <2> HIDE DEF pick
  <2> QED
    BY <1>1, <2>1 DEF Foldable
<1>3. PICK g \in [SUBSET S -> D] : IsFold(S, pick, base, next, g)
  <2> HIDE DEF pick, S
  <2> QED
    BY <1>2, FoldExists
<1>4. g[{}] = base
  BY <1>3 DEF IsFold
<1>5. ASSUME NEW A \in SUBSET S, A # {}
      PROVE  /\ Max(A) \in S /\ g[A \ {Max(A)}] \in D
             /\ g[A] = next[<<Max(A), g[A \ {Max(A)}]>>]
  <2> HIDE DEF pick
  <2>1. g[A] = next[<<pick[A], g[A \ {pick[A]}]>>]
    BY <1>3, <1>5 DEF IsFold
  <2>2. pick[A] \in A /\ pick[A] = Max(A)
    BY <1>1, <1>5
  <2>3. A \ {Max(A)} \in SUBSET S
    OBVIOUS
  <2>4. g[A \ {Max(A)}] \in D
    BY <1>3, <2>3
  <2> QED
    BY <2>1, <2>2, <2>4
<1> QED
  BY <1>3, <1>4, <1>5 DEF LeftTo

RightTo(n, D, base, next, g) ==
  /\ g \in [SUBSET (1 .. n) -> D] /\ g[{}] = base
  /\ \A A \in SUBSET (1 .. n) : A # {} =>
       /\ Min(A) \in 1 .. n /\ g[A \ {Min(A)}] \in D
       /\ g[A] = next[<<Min(A), g[A \ {Min(A)}]>>]

\* A fold from the right exists.
LEMMA RightFold ==
  ASSUME NEW n, NEW D, NEW base, NEW next, Steps(n, D, base, next)
  PROVE  \E g : RightTo(n, D, base, next, g)
<1>0. n \in Nat /\ base \in D /\ next \in [(1 .. n) \X D -> D]
  BY DEF Steps
<1> USE <1>0
<1> DEFINE S == 1 .. n
           pick == [A \in SUBSET S |-> Min(A)]
<1>1. \A A \in SUBSET S : A # {} => pick[A] \in A /\ pick[A] = Min(A)
  BY MinIs
<1>2. Foldable(S, D, pick, base, next)
  <2>1. IsFiniteSet(S)
    BY FS_Interval
  <2> HIDE DEF pick
  <2> QED
    BY <1>1, <2>1 DEF Foldable
<1>3. PICK g \in [SUBSET S -> D] : IsFold(S, pick, base, next, g)
  <2> HIDE DEF pick, S
  <2> QED
    BY <1>2, FoldExists
<1>4. g[{}] = base
  BY <1>3 DEF IsFold
<1>5. ASSUME NEW A \in SUBSET S, A # {}
      PROVE  /\ Min(A) \in S /\ g[A \ {Min(A)}] \in D
             /\ g[A] = next[<<Min(A), g[A \ {Min(A)}]>>]
  <2> HIDE DEF pick
  <2>1. g[A] = next[<<pick[A], g[A \ {pick[A]}]>>]
    BY <1>3, <1>5 DEF IsFold
  <2>2. pick[A] \in A /\ pick[A] = Min(A)
    BY <1>1, <1>5
  <2>3. A \ {Min(A)} \in SUBSET S
    OBVIOUS
  <2>4. g[A \ {Min(A)}] \in D
    BY <1>3, <2>3
  <2> QED
    BY <2>1, <2>2, <2>4
<1> QED
  BY <1>3, <1>4, <1>5 DEF RightTo

\* The models' sums over sequences are sums over sets.
LEMMA TotalIs ==
  ASSUME NEW n \in Nat, NEW s \in [1 .. n -> Int]
  PROVE  Total(s) = Sigma(s, 1 .. n) /\ Numbers(s, 1 .. n)
<1> DEFINE S == 1 .. n
           next == [z \in S \X Int |-> z[2] + s[z[1]]]
           Iter(g) == [A \in SUBSET S |->
                         IF A = {} THEN 0 ELSE g[A \ {Max(A)}] + s[Max(A)]]
           R == CHOOSE g : g = Iter(g)
<1>1. next \in [S \X Int -> Int]
  <2> SUFFICES ASSUME NEW z \in S \X Int PROVE z[2] + s[z[1]] \in Int
    OBVIOUS
  <2>1. z[1] \in S /\ z[2] \in Int
    OBVIOUS
  <2> QED
    BY <2>1
<1>2. PICK g : LeftTo(n, Int, 0, next, g)
  <2>1. Steps(n, Int, 0, next)
    BY <1>1 DEF Steps
  <2> HIDE DEF next
  <2> QED
    BY <2>1, LeftFold
<1>3. /\ g \in [SUBSET S -> Int] /\ g[{}] = 0
      /\ \A A \in SUBSET S : A # {} =>
           g[A] = g[A \ {Max(A)}] + s[Max(A)] /\ Max(A) \in S /\ g[A \ {Max(A)}] \in Int
  BY <1>2 DEF LeftTo
<1>4. g = Iter(g)
  <2> HIDE DEF next
  <2> QED
    BY <1>3
<1>5. R = Iter(R)
  <2>1. \E h : h = Iter(h)
    BY <1>4
  <2> HIDE DEF Iter
  <2> QED
    BY <2>1
<1>6. Total(s) = R[S]
  BY DEF Total, FoldLeft, MapThenFoldSet
<1> HIDE DEF R
<1>7. R[{}] = 0 /\ \A A \in SUBSET S : A # {} => R[A] = R[A \ {Max(A)}] + s[Max(A)]
  BY <1>5
<1>13. R[S] = g[S]
  <2> DEFINE T == {A \in SUBSET S : R[A] = g[A]}
  <2>1. ASSUME NEW bad \in SUBSET S, bad \notin T PROVE FALSE
    <3> DEFINE U == {A \in SUBSET S : A \notin T}
    <3>1. U # {} /\ \A A \in U : IsFiniteSet(A)
      <4>1. IsFiniteSet(S)
        BY FS_Interval
      <4> QED
        BY <2>1, <4>1, FS_Subset
    <3>2. PICK A \in U : \A B \in U : B \subseteq A => B = A
      <4> HIDE DEF U
      <4> QED
        BY <3>1, LeastSubset
    <3>3. A # {}
      BY <1>3, <1>7
    <3>4. A \ {Max(A)} \in SUBSET S /\ Max(A) \in A
      BY <3>3, MaxIs
    <3>5. R[A \ {Max(A)}] = g[A \ {Max(A)}]
      BY <3>2, <3>4
    <3> QED
      BY <1>3, <1>7, <3>3, <3>5
  <2> QED
    BY <2>1
<1>8. Numbers(s, S)
  BY FS_Interval DEF Numbers
<1> DEFINE pick == [A \in SUBSET S |-> Max(A)]
<1>9. AddsPicked(s, S, pick, g)
  <2> SUFFICES ASSUME NEW A \in SUBSET S, A # {}
               PROVE  pick[A] \in A /\ g[A] = s[pick[A]] + g[A \ {pick[A]}]
    BY <1>3 DEF AddsPicked
  <2>1. pick[A] = Max(A) /\ Max(A) \in A
    BY MaxIs
  <2>2. g[A] = s[Max(A)] + g[A \ {Max(A)}]
    <3>1. g[A] = g[A \ {Max(A)}] + s[Max(A)] /\ Max(A) \in S /\ g[A \ {Max(A)}] \in Int
      BY <1>3
    <3> QED
      BY <3>1
  <2> QED
    BY <2>1, <2>2
<1>10. AddsUp(s, S, g)
  BY <1>8, <1>9, OrderFree DEF Numbers
<1>11. PICK h : AddsUp(s, S, h) /\ Sigma(s, S) = h[S]
  BY <1>8, SigmaIs
<1>12. g[S] = h[S]
  BY <1>8, <1>10, <1>11, OneSum DEF Numbers
<1> QED
  BY <1>6, <1>8, <1>11, <1>12, <1>13
-----------------------------------------------------------------------------
(* Sums over paths.                                                        *)

\* A path that goes on to k.
Longer(p, i, k) == [q \in 1 .. i + 1 |-> IF q = i + 1 THEN k ELSE p[q]]

\* W[i] weighs the paths over i places by F and the steps G; the columns V are computed from
\* the first on.
Sweep(K, N, F, G, W, V) ==
  /\ IsFiniteSet(K) /\ N \in Nat /\ F \in [K -> Int]
  /\ \A i \in 1 .. N : \A k, j \in K : G[i][k][j] \in Int
  /\ \A p \in [1 .. 1 -> K] : W[1][p] = F[p[1]]
  /\ \A i \in 1 .. N : \A p \in [1 .. i -> K] : \A k \in K :
       W[i + 1][Longer(p, i, k)] = W[i][p] * G[i][p[i]][k]
  /\ V[1] = F
  /\ \A i \in 1 .. N :
       V[i + 1] = [j \in K |-> Sigma([k \in K |-> V[i][k] * G[i][k][j]], K)]

\* A column says of each place where paths end what those weigh, in any sum.
Agree(K, W, V, i) ==
  /\ IsFiniteSet([1 .. i -> K])
  /\ \A p \in [1 .. i -> K] : W[i][p] \in Int
  /\ V[i] \in [K -> Int]
  /\ \A X \in [K -> Int] :
       Sigma([p \in [1 .. i -> K] |-> W[i][p] * X[p[i]]], [1 .. i -> K])
         = Sigma([j \in K |-> V[i][j] * X[j]], K)

\* Where a path has one place, the column is the weight itself.
LEMMA SweepFirst ==
  ASSUME NEW K, NEW N, NEW F, NEW G, NEW W, NEW V, Sweep(K, N, F, G, W, V)
  PROVE  Agree(K, W, V, 1)
<1> DEFINE P == [1 .. 1 -> K]
           e == [k \in K |-> [q \in 1 .. 1 |-> k]]
<1>1. /\ IsFiniteSet(K) /\ F \in [K -> Int] /\ V[1] = F
      /\ \A p \in P : W[1][p] = F[p[1]]
  BY DEF Sweep
<1>2. e \in [K -> P] /\ \A k \in K : e[k][1] = k
  OBVIOUS
<1>3. \A p \in P : p[1] \in K /\ p = e[p[1]]
  <2> SUFFICES ASSUME NEW p \in P PROVE p[1] \in K /\ p = [q \in 1 .. 1 |-> p[1]]
    OBVIOUS
  <2>1. \A q \in 1 .. 1 : q = 1
    OBVIOUS
  <2> QED
    BY <2>1
<1>4. \A k, l \in K : e[k] = e[l] => k = l
  BY <1>2
<1> HIDE DEF P, e
<1>5. IsFiniteSet(P)
  <2>1. e \in Surjection(K, P)
    BY <1>2, <1>3 DEF Surjection
  <2> QED
    BY <1>1, <2>1, FS_Surjection
<1>6. \A p \in P : W[1][p] \in Int
  BY <1>1, <1>3
<1>7. V[1] \in [K -> Int]
  BY <1>1
<1>8. ASSUME NEW X \in [K -> Int]
      PROVE  Sigma([p \in P |-> W[1][p] * X[p[1]]], P) = Sigma([j \in K |-> V[1][j] * X[j]], K)
  <2> DEFINE f == [p \in P |-> W[1][p] * X[p[1]]]
             h == [j \in K |-> V[1][j] * X[j]]
  <2>1. \A p \in P : f[p] \in Int
    <3> SUFFICES ASSUME NEW p \in P PROVE W[1][p] * X[p[1]] \in Int
      OBVIOUS
    <3>1. W[1][p] \in Int /\ X[p[1]] \in Int
      BY <1>3, <1>6
    <3> QED
      BY <3>1
  <2>2. \A k \in K : h[k] = f[e[k]]
    <3> SUFFICES ASSUME NEW k \in K PROVE V[1][k] * X[k] = f[e[k]]
      OBVIOUS
    <3>1. e[k] \in P /\ e[k][1] = k
      BY <1>2
    <3>2. W[1][e[k]] = V[1][k]
      BY <1>1, <3>1
    <3> QED
      BY <3>1, <3>2
  <2> HIDE DEF f, h
  <2>3. Numbers(f, P)
    BY <1>5, <2>1 DEF Numbers
  <2>4. Sigma(h, K) = Sigma(f, P)
    BY <1>1, <1>2, <1>3, <1>4, <2>2, <2>3, SigmaMap
  <2> QED
    BY <2>4 DEF f, h
<1> QED
  BY <1>5, <1>6, <1>7, <1>8 DEF Agree, P

\* Paths that are one longer: one for each path and each place to go on to.
GoOn(K, i, P, U) ==
  /\ IsFiniteSet(U)
  /\ \A p \in P : \A k \in K :
       /\ Longer(p, i, k) \in U /\ Longer(p, i, k)[i + 1] = k
       /\ \A q \in 1 .. i : Longer(p, i, k)[q] = p[q]
  /\ \A p, r \in P : \A k, l \in K : Longer(p, i, k) = Longer(r, i, l) => p = r /\ k = l
  /\ \A u \in U : \E p \in P, k \in K : u = Longer(p, i, k)

\* Paths of one more place are paths and a place.
LEMMA LongerPaths ==
  ASSUME NEW K, IsFiniteSet(K), NEW i \in Nat \ {0}, IsFiniteSet([1 .. i -> K])
  PROVE  GoOn(K, i, [1 .. i -> K], [1 .. i + 1 -> K])
<1> DEFINE P == [1 .. i -> K]
           U == [1 .. i + 1 -> K]
           e == [z \in P \X K |-> Longer(z[1], i, z[2])]
<1>1. ASSUME NEW p \in P, NEW k \in K
      PROVE  /\ Longer(p, i, k) \in U /\ Longer(p, i, k)[i + 1] = k
             /\ \A q \in 1 .. i : Longer(p, i, k)[q] = p[q]
  <2>1. \A q \in 1 .. i + 1 : q # i + 1 => q \in 1 .. i
    OBVIOUS
  <2>2. i + 1 \in 1 .. i + 1 /\ \A q \in 1 .. i : q \in 1 .. i + 1 /\ q # i + 1
    OBVIOUS
  <2> QED
    BY <2>1, <2>2 DEF Longer
<1>2. ASSUME NEW p \in P, NEW r \in P, NEW k \in K, NEW l \in K, Longer(p, i, k) = Longer(r, i, l)
      PROVE  p = r /\ k = l
  <2>1. \A q \in 1 .. i : p[q] = r[q]
    BY <1>1, <1>2
  <2>2. p = r
    BY <2>1
  <2> QED
    BY <1>1, <1>2, <2>2
<1>3. ASSUME NEW u \in U PROVE \E p \in P, k \in K : u = Longer(p, i, k)
  <2> DEFINE p == [q \in 1 .. i |-> u[q]]
  <2>1. i + 1 \in 1 .. i + 1 /\ \A q \in 1 .. i : q \in 1 .. i + 1
    OBVIOUS
  <2>2. p \in P /\ u[i + 1] \in K
    BY <2>1
  <2>3. u = Longer(p, i, u[i + 1])
    <3>1. \A q \in 1 .. i + 1 : u[q] = IF q = i + 1 THEN u[i + 1] ELSE p[q]
      OBVIOUS
    <3>2. u = [q \in 1 .. i + 1 |-> u[q]]
      OBVIOUS
    <3> HIDE DEF p
    <3> QED
      BY <3>1, <3>2 DEF Longer
  <2> HIDE DEF p
  <2> QED
    BY <2>2, <2>3
<1>4. e \in Surjection(P \X K, U)
  <2>1. \A z \in P \X K : Longer(z[1], i, z[2]) \in U
    <3> SUFFICES ASSUME NEW z \in P \X K PROVE Longer(z[1], i, z[2]) \in U
      OBVIOUS
    <3>1. z[1] \in P /\ z[2] \in K
      OBVIOUS
    <3> HIDE DEF P, U
    <3> QED
      BY <1>1, <3>1
  <2>2. \A u \in U : \E z \in P \X K : e[z] = u
    <3> SUFFICES ASSUME NEW u \in U PROVE \E z \in P \X K : e[z] = u
      OBVIOUS
    <3> HIDE DEF P, U
    <3>1. PICK p \in P, k \in K : u = Longer(p, i, k)
      BY <1>3
    <3>2. <<p, k>> \in P \X K /\ e[<<p, k>>] = u
      BY <3>1
    <3> QED
      BY <3>2
  <2> HIDE DEF P, U
  <2> QED
    BY <2>1, <2>2 DEF Surjection
<1>5. IsFiniteSet(U)
  <2> HIDE DEF U, e
  <2>1. IsFiniteSet(P \X K)
    <3> HIDE DEF P
    <3>1. IsFiniteSet(P)
      BY DEF P
    <3> QED
      BY <3>1, FS_Product
  <2> QED
    BY <1>4, <2>1, FS_Surjection
<1> QED
  <2> HIDE DEF P, U, e
  <2>1. /\ \A p, r \in P : \A k, l \in K : Longer(p, i, k) = Longer(r, i, l) => p = r /\ k = l
        /\ \A u \in U : \E p \in P, k \in K : u = Longer(p, i, k)
        /\ \A p \in P : \A k \in K :
              /\ Longer(p, i, k) \in U /\ Longer(p, i, k)[i + 1] = k
              /\ \A q \in 1 .. i : Longer(p, i, k)[q] = p[q]
    BY <1>1, <1>2, <1>3
  <2>2. GoOn(K, i, P, U)
    BY <1>5, <2>1 DEF GoOn
  <2> QED
    BY <2>2 DEF P, U

\* What holds of a column holds of the next.
LEMMA SweepNext ==
  ASSUME NEW K, NEW N, NEW F, NEW G, NEW W, NEW V, Sweep(K, N, F, G, W, V),
         NEW i \in 1 .. N, Agree(K, W, V, i)
  PROVE  Agree(K, W, V, i + 1)
<1> DEFINE P == [1 .. i -> K]
           U == [1 .. i + 1 -> K]
<1>1. /\ IsFiniteSet(K) /\ i \in Nat \ {0}
      /\ \A k, j \in K : G[i][k][j] \in Int
      /\ V[i + 1] = [j \in K |-> Sigma([k \in K |-> V[i][k] * G[i][k][j]], K)]
      /\ \A p \in P : \A k \in K : W[i + 1][Longer(p, i, k)] = W[i][p] * G[i][p[i]][k]
  <2>1. i \in Nat \ {0}
    BY DEF Sweep
  <2> QED
    BY <2>1 DEF Sweep
<1>2. /\ IsFiniteSet(P) /\ (\A p \in P : W[i][p] \in Int) /\ V[i] \in [K -> Int]
      /\ \A X \in [K -> Int] :
           Sigma([p \in P |-> W[i][p] * X[p[i]]], P) = Sigma([j \in K |-> V[i][j] * X[j]], K)
  BY DEF Agree
<1>3. /\ IsFiniteSet(U)
      /\ \A p \in P : \A k \in K : Longer(p, i, k) \in U /\ Longer(p, i, k)[i + 1] = k
      /\ \A p, r \in P : \A k, l \in K : Longer(p, i, k) = Longer(r, i, l) => p = r /\ k = l
      /\ \A u \in U : \E p \in P, k \in K : u = Longer(p, i, k)
  <2>1. IsFiniteSet(K) /\ i \in Nat \ {0} /\ IsFiniteSet([1 .. i -> K])
    BY <1>1, <1>2
  <2>2. GoOn(K, i, P, U)
    BY <2>1, LongerPaths
  <2> HIDE DEF P, U
  <2> QED
    BY <2>2 DEF GoOn
<1>4. \A p \in P : p[i] \in K
  BY <1>1
<1>4a. \A u \in U : u[i + 1] \in K
  BY <1>1
<1> HIDE DEF P, U
<1>5. ASSUME NEW u \in U PROVE W[i + 1][u] \in Int
  <2>1. PICK p \in P, k \in K : u = Longer(p, i, k)
    BY <1>3
  <2>2. W[i][p] \in Int /\ G[i][p[i]][k] \in Int
    BY <1>1, <1>2, <1>4
  <2> QED
    BY <1>1, <2>1, <2>2
<1>6. V[i + 1] \in [K -> Int]
  <2> SUFFICES ASSUME NEW j \in K PROVE Sigma([k \in K |-> V[i][k] * G[i][k][j]], K) \in Int
    BY <1>1
  <2> DEFINE f == [k \in K |-> V[i][k] * G[i][k][j]]
  <2>1. ASSUME NEW k \in K PROVE f[k] \in Int
    <3>1. V[i][k] \in Int /\ G[i][k][j] \in Int
      BY <1>1, <1>2
    <3> QED
      BY <3>1
  <2> HIDE DEF f
  <2>2. Numbers(f, K)
    BY <1>1, <2>1 DEF Numbers
  <2>3. Sigma(f, K) \in Int
    BY <2>2, SigmaInt
  <2> QED
    BY <2>3 DEF f
<1>7. ASSUME NEW X \in [K -> Int]
      PROVE  Sigma([u \in U |-> W[i + 1][u] * X[u[i + 1]]], U)
               = Sigma([j \in K |-> V[i + 1][j] * X[j]], K)
  <2> DEFINE f == [u \in U |-> W[i + 1][u] * X[u[i + 1]]]
             e == [p \in P |-> [k \in K |-> Longer(p, i, k)]]
             onward == [k \in K |-> [j \in K |-> G[i][k][j] * X[j]]]
             Y == [k \in K |-> Sigma(onward[k], K)]
             rows == [p \in P |-> [k \in K |-> f[e[p][k]]]]
             h == [p \in P |-> W[i][p] * Y[p[i]]]
  <2>1. \A u \in U : f[u] \in Int
    <3> SUFFICES ASSUME NEW u \in U PROVE W[i + 1][u] * X[u[i + 1]] \in Int
      OBVIOUS
    <3>1. W[i + 1][u] \in Int /\ X[u[i + 1]] \in Int
      BY <1>4a, <1>5
    <3> QED
      BY <3>1
  <2>2. \A p \in P : \A k \in K : e[p][k] = Longer(p, i, k)
    OBVIOUS
  <2>3. ASSUME NEW p \in P, NEW k \in K
        PROVE  rows[p][k] = f[e[p][k]] /\ rows[p][k] = W[i][p] * onward[p[i]][k]
    <3>1. rows[p][k] = f[e[p][k]]
      OBVIOUS
    <3>2. e[p][k] = Longer(p, i, k) /\ e[p][k] \in U /\ e[p][k][i + 1] = k
      BY <1>3, <2>2
    <3>3. f[e[p][k]] = W[i + 1][e[p][k]] * X[e[p][k][i + 1]]
      BY <3>2
    <3>4. W[i + 1][e[p][k]] = W[i][p] * G[i][p[i]][k]
      BY <1>1, <3>2
    <3>5. onward[p[i]][k] = G[i][p[i]][k] * X[k]
      BY <1>4
    <3>6. W[i][p] \in Int /\ G[i][p[i]][k] \in Int /\ X[k] \in Int
      BY <1>1, <1>2, <1>4
    <3>7. \A a, b, c \in Int : (a * b) * c = a * (b * c)
      OBVIOUS
    <3> HIDE DEF f, e, onward, rows
    <3>8. f[e[p][k]] = (W[i][p] * G[i][p[i]][k]) * X[k]
      BY <3>2, <3>3, <3>4
    <3>9. f[e[p][k]] = W[i][p] * (G[i][p[i]][k] * X[k])
      BY <3>6, <3>7, <3>8
    <3> QED
      BY <3>1, <3>5, <3>9
  <2>4. ASSUME NEW k \in K PROVE Numbers(onward[k], K) /\ Y[k] = Sigma(onward[k], K) /\ Y[k] \in Int
    <3>1. ASSUME NEW j \in K PROVE onward[k][j] \in Int
      <4>1. G[i][k][j] \in Int /\ X[j] \in Int
        BY <1>1
      <4> QED
        BY <4>1
    <3>2. Numbers(onward[k], K)
      <4> HIDE DEF onward
      <4> QED
        BY <1>1, <3>1 DEF Numbers
    <3>3. Y[k] = Sigma(onward[k], K)
      OBVIOUS
    <3> HIDE DEF Y, onward
    <3> QED
      BY <3>2, <3>3, SigmaInt
  <2>5. \A p \in P : h[p] = W[i][p] * Y[p[i]]
    OBVIOUS
  <2>6. Y \in [K -> Int]
    <3>1. Y = [k \in K |-> Y[k]]
      OBVIOUS
    <3> HIDE DEF Y, onward
    <3> QED
      BY <2>4, <3>1
  <2>6a. h = [p \in P |-> W[i][p] * Y[p[i]]]
    OBVIOUS
  <2>6b. \A k \in K : \A j \in K : onward[k][j] = G[i][k][j] * X[j]
    OBVIOUS
  <2>6c. f = [u \in U |-> W[i + 1][u] * X[u[i + 1]]]
    OBVIOUS
  <2> HIDE DEF f, e, onward, Y, rows, h
  <2>7. \A p \in P : h[p] = Sigma(rows[p], K)
    <3> SUFFICES ASSUME NEW p \in P PROVE h[p] = Sigma(rows[p], K)
      OBVIOUS
    <3>1. Numbers(onward[p[i]], K) /\ Y[p[i]] = Sigma(onward[p[i]], K)
      BY <1>4, <2>4
    <3>2. \A k \in K : rows[p][k] = W[i][p] * onward[p[i]][k]
      BY <2>3
    <3>3. W[i][p] \in Int
      BY <1>2
    <3> DEFINE row == rows[p]
               on == onward[p[i]]
               c == W[i][p]
    <3> HIDE DEF row, on, c
    <3>4. Sigma(row, K) = c * Sigma(on, K)
      <4>1. Numbers(on, K) /\ c \in Int /\ \A k \in K : row[k] = c * on[k]
        BY <3>1, <3>2, <3>3 DEF row, on, c
      <4> QED
        BY <4>1, SigmaTimes
    <3> QED
      BY <2>5, <3>1, <3>4 DEF row, on, c
  <2>8. Sigma(h, P) = Sigma(f, U)
    <3>1. Pairs(P, K, U, f, e, rows, h)
      <4>1. Numbers(f, U)
        BY <1>3, <2>1 DEF Numbers
      <4>2. \A p \in P, k \in K : e[p][k] \in U
        BY <1>3, <2>2
      <4>3. \A p, r \in P : \A k, l \in K : e[p][k] = e[r][l] => p = r /\ k = l
        BY <1>3, <2>2
      <4>4. \A u \in U : \E p \in P, k \in K : u = e[p][k]
        BY <1>3, <2>2
      <4> QED
        BY <1>1, <1>2, <2>3, <2>7, <4>1, <4>2, <4>3, <4>4 DEF Pairs
    <3> QED
      BY <3>1, SigmaPairs
  <2>9. Sigma(h, P) = Sigma([k \in K |-> V[i][k] * Y[k]], K)
    BY <1>2, <2>6, <2>6a
  <2> DEFINE both == [k \in K |-> [j \in K |-> V[i][k] * G[i][k][j] * X[j]]]
             turned == [j \in K |-> [k \in K |-> both[k][j]]]
             left == [k \in K |-> V[i][k] * Y[k]]
             right == [j \in K |-> V[i + 1][j] * X[j]]
             into == [j \in K |-> [k \in K |-> V[i][k] * G[i][k][j]]]
  <2>10. ASSUME NEW k \in K, NEW j \in K
         PROVE  /\ both[k][j] \in Int /\ turned[j][k] = both[k][j]
                /\ both[k][j] = V[i][k] * onward[k][j]
                /\ both[k][j] = X[j] * into[j][k] /\ into[j][k] \in Int
    <3>1. V[i][k] \in Int /\ G[i][k][j] \in Int /\ X[j] \in Int
      BY <1>1, <1>2
    <3>2. \A a, b, c \in Int : a * b \in Int /\ a * b * c \in Int /\ a * b * c = a * (b * c)
                               /\ a * b * c = c * (a * b)
      OBVIOUS
    <3>3. both[k][j] = V[i][k] * G[i][k][j] * X[j] /\ into[j][k] = V[i][k] * G[i][k][j]
          /\ turned[j][k] = both[k][j]
      OBVIOUS
    <3>4. onward[k][j] = G[i][k][j] * X[j]
      BY <2>6b
    <3> HIDE DEF both, turned, into
    <3> QED
      BY <3>1, <3>2, <3>3, <3>4
  <2>11. \A k \in K : left[k] = V[i][k] * Y[k]
    OBVIOUS
  <2>12. \A j \in K : right[j] = V[i + 1][j] * X[j] /\ V[i + 1][j] = Sigma(into[j], K)
    BY <1>1
  <2> HIDE DEF both, turned, left, right, into
  <2>13. \A k \in K : left[k] = Sigma(both[k], K)
    <3> SUFFICES ASSUME NEW k \in K PROVE left[k] = Sigma(both[k], K)
      OBVIOUS
    <3> DEFINE row == both[k]
               on == onward[k]
               c == V[i][k]
    <3>1. Numbers(on, K) /\ c \in Int /\ \A j \in K : row[j] = c * on[j]
      BY <1>2, <2>4, <2>10
    <3>2. left[k] = c * Sigma(on, K)
      BY <2>4, <2>11
    <3> HIDE DEF row, on, c
    <3>3. Sigma(row, K) = c * Sigma(on, K)
      BY <3>1, SigmaTimes
    <3> QED
      BY <3>2, <3>3 DEF row
  <2>14. \A j \in K : right[j] = Sigma(turned[j], K)
    <3> SUFFICES ASSUME NEW j \in K PROVE right[j] = Sigma(turned[j], K)
      OBVIOUS
    <3> DEFINE row == turned[j]
               on == into[j]
               c == X[j]
    <3>1. c \in Int /\ \A k \in K : row[k] = c * on[k] /\ on[k] \in Int
      BY <2>10
    <3>2. right[j] = Sigma(on, K) * c
      BY <2>12
    <3> HIDE DEF row, on, c
    <3>3. Numbers(on, K)
      BY <1>1, <3>1 DEF Numbers
    <3>4. Sigma(row, K) = c * Sigma(on, K)
      BY <3>1, <3>3, SigmaTimes
    <3>5. Sigma(on, K) \in Int
      BY <3>3, SigmaInt
    <3>6. Sigma(on, K) * c = c * Sigma(on, K)
      BY <3>1, <3>5
    <3> QED
      BY <3>2, <3>4, <3>6 DEF row
  <2>15. Sigma(left, K) = Sigma(right, K)
    <3>1. \A k \in K, j \in K : both[k][j] \in Int /\ turned[j][k] = both[k][j]
      BY <2>10
    <3>2. Table(K, K, both, left, turned, right)
      BY <1>1, <2>13, <2>14, <3>1 DEF Table
    <3> QED
      BY <3>2, SigmaSwap
  <2> QED
    BY <2>8, <2>9, <2>15, <2>6c DEF left, right
<1> QED
  BY <1>3, <1>5, <1>6, <1>7 DEF Agree, U

\* Summing over all paths, or column by column.
SameSums(K, N, P, W, V) ==
  Numbers(V[N + 1], K) /\ Sigma(W[N + 1], P) = Sigma(V[N + 1], K)

\* The last column adds up to the weights of all paths.
LEMMA SweepAll ==
  ASSUME NEW K, NEW N, NEW F, NEW G, NEW W, NEW V, Sweep(K, N, F, G, W, V)
  PROVE  SameSums(K, N, [1 .. N + 1 -> K], W, V)
<1> DEFINE T == {e \in 0 .. N : Agree(K, W, V, e + 1)}
<1>0. N \in Nat /\ IsFiniteSet(K)
  BY DEF Sweep
<1>1. 0 \in T
  <2>1. 0 \in 0 .. N /\ 0 + 1 = 1
    BY <1>0
  <2> QED
    BY <2>1, SweepFirst
<1>2. ASSUME NEW e \in 1 .. N, e - 1 \in T PROVE e \in T
  <2>1. e - 1 + 1 = e /\ e \in 0 .. N
    BY <1>0
  <2>2. Agree(K, W, V, e)
    BY <1>2, <2>1
  <2> QED
    BY <2>1, <2>2, SweepNext
<1>3. 0 .. N \subseteq T
  <2> HIDE DEF T
  <2> QED
    BY <1>0, <1>1, <1>2, Stepwise
<1>4. ASSUME NEW i \in 1 .. N + 1 PROVE Agree(K, W, V, i)
  <2>1. i - 1 \in 0 .. N /\ i - 1 + 1 = i
    BY <1>0
  <2> QED
    BY <1>3, <2>1
<1> HIDE DEF T
<1>5. \A i \in 1 .. N + 1 : V[i] \in [K -> Int]
  BY <1>4 DEF Agree
<1>6. N + 1 \in 1 .. N + 1
  BY <1>0
<1> DEFINE P == [1 .. N + 1 -> K]
           one == [k \in K |-> 1]
           f == [p \in P |-> W[N + 1][p] * one[p[N + 1]]]
           h == [j \in K |-> V[N + 1][j] * one[j]]
<1>7. IsFiniteSet(P) /\ (\A p \in P : W[N + 1][p] \in Int) /\ Sigma(f, P) = Sigma(h, K)
  <2>1. Agree(K, W, V, N + 1) /\ one \in [K -> Int]
    BY <1>4, <1>6
  <2> HIDE DEF one
  <2> QED
    BY <2>1 DEF Agree
<1>8. \A p \in P : W[N + 1][p] \in Int /\ f[p] = W[N + 1][p]
  <2> SUFFICES ASSUME NEW p \in P PROVE f[p] = W[N + 1][p]
    BY <1>7
  <2>1. p[N + 1] \in K
    BY <1>6
  <2>2. one[p[N + 1]] = 1
    BY <2>1
  <2>3. W[N + 1][p] \in Int
    BY <1>7
  <2>4. f[p] = W[N + 1][p] * one[p[N + 1]]
    OBVIOUS
  <2> HIDE DEF f, one, P
  <2> QED
    BY <2>2, <2>3, <2>4
<1>9. \A j \in K : V[N + 1][j] \in Int /\ h[j] = V[N + 1][j]
  BY <1>5, <1>6
<1> HIDE DEF P, f, h, one
<1>10. Numbers(W[N + 1], P) /\ Numbers(V[N + 1], K)
  BY <1>0, <1>7, <1>8, <1>9 DEF Numbers
<1>11. Sigma(f, P) = Sigma(W[N + 1], P) /\ Sigma(h, K) = Sigma(V[N + 1], K)
  BY <1>8, <1>9, <1>10, SigmaSame
<1> QED
  BY <1>7, <1>10, <1>11 DEF P, SameSums
-----------------------------------------------------------------------------
(* The columns of the discrete model.                                      *)

ColumnType == [StateNumbers -> Int]

\* The column after, and the column before, a given one.
Onward(m, s, column, i) ==
  [j \in StateNumbers |->
     m.emission[j][s[i]] * Total([k \in StateNumbers |-> m.transition[k][j] * column[k]])]
Backward(m, s, column, i) ==
  [j \in StateNumbers |->
     Total([k \in StateNumbers |-> column[k] * m.emission[k][s[i]] * m.transition[j][k]])]

\* A model and a sequence of n symbols.
Given(m, s, n) == n \in Nat /\ m \in Models /\ s \in [1 .. n -> Symbols]

\* The weights of a model are natural numbers.
LEMMA WeightsType ==
  ASSUME DiscreteAssumption, NEW m \in Models
  PROVE  /\ \A j \in StateNumbers : m.emission[j] \in [Symbols -> Nat] /\ m.initial[j] \in Nat
         /\ \A j, k \in StateNumbers : m.transition[j][k] \in Nat
<1>1. m \in [transition : [1 .. NumStates -> [1 .. NumStates -> Nat]],
            initial : [1 .. NumStates -> Nat], emission : [1 .. NumStates -> [Symbols -> Nat]]]
  BY DEF DiscreteAssumption
<1>2. /\ m.transition \in [1 .. NumStates -> [1 .. NumStates -> Nat]]
      /\ m.initial \in [1 .. NumStates -> Nat]
      /\ m.emission \in [1 .. NumStates -> [Symbols -> Nat]]
  BY <1>1
<1> QED
  BY <1>2 DEF StateNumbers

\* So are those of what its states emit.
LEMMA EmissionType ==
  ASSUME DiscreteAssumption, NEW m, NEW s, NEW n, Given(m, s, n), NEW i \in 1 .. n
  PROVE  \A j \in StateNumbers : m.emission[j][s[i]] \in Nat
<1>1. m \in Models /\ s[i] \in Symbols
  BY DEF Given
<1>2. \A j \in StateNumbers : m.emission[j] \in [Symbols -> Nat]
  BY <1>1, WeightsType
<1> QED
  BY <1>1, <1>2

\* What a column is computed from is a sum over the states.
LEMMA TotalOfStates ==
  ASSUME DiscreteAssumption, NEW f \in ColumnType
  PROVE  Total(f) = Sigma(f, StateNumbers) /\ Numbers(f, StateNumbers) /\ Total(f) \in Int
<1>1. NumStates \in Nat /\ f \in [1 .. NumStates -> Int]
  BY DEF DiscreteAssumption, StateNumbers, ColumnType
<1>2. Total(f) = Sigma(f, 1 .. NumStates) /\ Numbers(f, 1 .. NumStates)
  BY <1>1, TotalIs
<1> QED
  BY <1>2, SigmaInt DEF StateNumbers

\* A column computed from one of integers is one.
LEMMA OnwardType ==
  ASSUME DiscreteAssumption, NEW m, NEW s, NEW n, Given(m, s, n), NEW i \in 1 .. n,
         NEW column \in ColumnType
  PROVE  Onward(m, s, column, i) \in ColumnType
<1> SUFFICES ASSUME NEW j \in StateNumbers
             PROVE  m.emission[j][s[i]]
                      * Total([k \in StateNumbers |-> m.transition[k][j] * column[k]]) \in Int
  BY DEF Onward, ColumnType
<1> DEFINE f == [k \in StateNumbers |-> m.transition[k][j] * column[k]]
<1>1. f \in ColumnType
  <2> SUFFICES ASSUME NEW k \in StateNumbers PROVE m.transition[k][j] * column[k] \in Int
    BY DEF ColumnType
  <2>1. m.transition[k][j] \in Nat
    BY WeightsType DEF Given
  <2>2. column[k] \in Int
    BY DEF ColumnType
  <2> QED
    BY <2>1, <2>2
<1> HIDE DEF f
<1>2. Total(f) \in Int
  BY <1>1, TotalOfStates
<1>3. m.emission[j][s[i]] \in Int
  BY EmissionType
<1>4. m.emission[j][s[i]] * Total(f) \in Int
  BY <1>2, <1>3
<1> QED
  BY <1>4 DEF f

\* And so backwards.
LEMMA BackwardType ==
  ASSUME DiscreteAssumption, NEW m, NEW s, NEW n, Given(m, s, n), NEW i \in 1 .. n,
         NEW column \in ColumnType
  PROVE  Backward(m, s, column, i) \in ColumnType
<1> SUFFICES ASSUME NEW j \in StateNumbers
             PROVE  Total([k \in StateNumbers |->
                             column[k] * m.emission[k][s[i]] * m.transition[j][k]]) \in Int
  BY DEF Backward, ColumnType
<1> DEFINE f == [k \in StateNumbers |-> column[k] * m.emission[k][s[i]] * m.transition[j][k]]
<1>1. f \in ColumnType
  <2> SUFFICES ASSUME NEW k \in StateNumbers
               PROVE  column[k] * m.emission[k][s[i]] * m.transition[j][k] \in Int
    BY DEF ColumnType
  <2>1. m.transition[j][k] \in Nat
    BY WeightsType DEF Given
  <2>2. column[k] \in Int
    BY DEF ColumnType
  <2>3. m.emission[k][s[i]] \in Nat
    BY EmissionType
  <2> QED
    BY <2>1, <2>2, <2>3
<1> HIDE DEF f
<1>2. Total(f) \in Int
  BY <1>1, TotalOfStates
<1> QED
  BY <1>2 DEF f

\* The columns over s up to the symbol e.
ForwardTo(m, first, s, columns, e) ==
  /\ columns \in Seq(ColumnType) /\ Len(columns) = e + 1
  /\ columns[1] = first
  /\ \A i \in 1 .. e : columns[i + 1] = Onward(m, s, columns[i], i)

\* What forwardMatrix computes, column by column.
LEMMA ForwardIs ==
  ASSUME DiscreteAssumption, NEW s, NEW n, Given(parameters, s, n), NEW first \in ColumnType
  PROVE  ForwardTo(parameters, first, s, ForwardColumns(first, s), n)
<1> DEFINE ids == [i \in DOMAIN s |-> i]
           S == DOMAIN ids
           D == Seq(ColumnType) \ {<<>>}
           m == parameters
           next == [z \in (1 .. n) \X D |-> Append(z[2], Onward(m, s, Last(z[2]), z[1]))]
           Iter(g) == [A \in SUBSET S |->
                         IF A = {} THEN <<first>>
                         ELSE Append(g[A \ {Max(A)}],
                                     Onward(m, s, Last(g[A \ {Max(A)}]), ids[Max(A)]))]
           R == CHOOSE g : g = Iter(g)
<1>1. n \in Nat /\ S = 1 .. n /\ \A i \in 1 .. n : ids[i] = i
  BY DEF Given
<1>2. ASSUME NEW i \in 1 .. n, NEW columns \in D
      PROVE  Last(columns) \in ColumnType /\ Append(columns, Onward(m, s, Last(columns), i)) \in D
  <2>1. Last(columns) \in ColumnType
    BY DEF Last
  <2>2. Onward(m, s, Last(columns), i) \in ColumnType
    BY <2>1, OnwardType
  <2> QED
    BY <2>1, <2>2
<1>3. next \in [(1 .. n) \X D -> D]
  <2> SUFFICES ASSUME NEW z \in (1 .. n) \X D
               PROVE  Append(z[2], Onward(m, s, Last(z[2]), z[1])) \in D
    OBVIOUS
  <2>1. z[1] \in 1 .. n /\ z[2] \in D
    OBVIOUS
  <2> HIDE DEF D, m
  <2> QED
    BY <1>2, <2>1
<1>4. <<first>> \in D
  OBVIOUS
<1>5. PICK g : LeftTo(n, D, <<first>>, next, g)
  <2>1. Steps(n, D, <<first>>, next)
    BY <1>1, <1>3, <1>4 DEF Steps
  <2> HIDE DEF next, D
  <2> QED
    BY <2>1, LeftFold
<1>6. g = Iter(g)
  <2>1. /\ g = [A \in SUBSET (1 .. n) |-> g[A]] /\ g[{}] = <<first>>
        /\ \A A \in SUBSET (1 .. n) : A # {} =>
             /\ Max(A) \in 1 .. n /\ g[A \ {Max(A)}] \in D
             /\ g[A] = next[<<Max(A), g[A \ {Max(A)}]>>]
    BY <1>5 DEF LeftTo
  <2>2. \A i \in 1 .. n : \A columns \in D :
          next[<<i, columns>>] = Append(columns, Onward(m, s, Last(columns), i))
    OBVIOUS
  <2> DEFINE Step(A) == Append(g[A \ {Max(A)}],
                               Onward(m, s, Last(g[A \ {Max(A)}]), ids[Max(A)]))
  <2>3. ASSUME NEW A \in SUBSET (1 .. n), A # {} PROVE g[A] = Step(A)
    <3>1. /\ Max(A) \in 1 .. n /\ g[A \ {Max(A)}] \in D
          /\ g[A] = next[<<Max(A), g[A \ {Max(A)}]>>]
      BY <2>1, <2>3
    <3> HIDE DEF next, D, S, ids, m
    <3>2. ids[Max(A)] = Max(A)
      BY <1>1, <3>1
    <3> QED
      BY <2>2, <3>1, <3>2
  <2>4. Iter(g) = [A \in SUBSET (1 .. n) |-> IF A = {} THEN <<first>> ELSE Step(A)]
    <3> HIDE DEF ids, m
    <3> QED
      BY <1>1
  <2> HIDE DEF Step, Iter
  <2> QED
    BY <2>1, <2>3, <2>4
<1>7. R = Iter(R)
  <2>1. \E h : h = Iter(h)
    BY <1>6
  <2> HIDE DEF Iter
  <2> QED
    BY <2>1
<1>8. ForwardColumns(first, s) = R[S]
  BY DEF ForwardColumns, FoldLeft, MapThenFoldSet, Onward, SymbolOf
<1> HIDE DEF R, ids
<1>9. /\ R[{}] = <<first>>
      /\ \A A \in SUBSET (1 .. n) : A # {} =>
           R[A] = Append(R[A \ {Max(A)}], Onward(m, s, Last(R[A \ {Max(A)}]), ids[Max(A)]))
  BY <1>1, <1>7
<1> HIDE DEF S
<1> DEFINE T == {e \in 0 .. n : ForwardTo(m, first, s, R[1 .. e], e)}
<1>10. 0 \in T
  <2>1. 1 .. 0 = {} /\ 0 \in 0 .. n
    BY <1>1
  <2>2. ForwardTo(m, first, s, <<first>>, 0)
    BY DEF ForwardTo
  <2> QED
    BY <1>9, <2>1, <2>2
<1>11. ASSUME NEW e \in 1 .. n, e - 1 \in T PROVE e \in T
  <2>1. /\ 1 .. e \in SUBSET (1 .. n) /\ 1 .. e # {} /\ Max(1 .. e) = e
        /\ (1 .. e) \ {e} = 1 .. e - 1
    BY <1>1, TopOf
  <2> DEFINE c == R[1 .. e - 1]
             x == Onward(m, s, Last(c), e)
  <2>2. R[1 .. e] = Append(c, x)
    <3>1. ids[e] = e
      BY <1>1
    <3> HIDE DEF m
    <3> QED
      BY <1>9, <2>1, <3>1
  <2>9. ForwardTo(m, first, s, c, e - 1) /\ e - 1 + 1 = e
    BY <1>11
  <2> HIDE DEF c, m
  <2>3. /\ c \in Seq(ColumnType) /\ Len(c) = e /\ c[1] = first
        /\ \A i \in 1 .. e - 1 : c[i + 1] = Onward(m, s, c[i], i)
    BY <2>9 DEF ForwardTo
  <2> USE DEF m
  <2>4. Last(c) = c[e] /\ Last(c) \in ColumnType
    BY <2>3 DEF Last
  <2>5. x \in ColumnType /\ x = Onward(m, s, c[e], e)
    BY <2>4, OnwardType
  <2> HIDE DEF x, m
  <2>6. /\ Append(c, x) \in Seq(ColumnType) /\ Len(Append(c, x)) = e + 1
        /\ \A i \in 1 .. e : Append(c, x)[i] = c[i]
        /\ Append(c, x)[e + 1] = x
    BY <2>3, <2>5
  <2>7. ASSUME NEW i \in 1 .. e
        PROVE  Append(c, x)[i + 1] = Onward(m, s, Append(c, x)[i], i)
    <3>1. CASE i = e
      BY <2>5, <2>6, <3>1
    <3>2. CASE i # e
      <4>1. i \in 1 .. e - 1 /\ i + 1 \in 1 .. e
        BY <3>2
      <4> QED
        BY <2>3, <2>6, <4>1
    <3> QED
      BY <3>1, <3>2
  <2>8. ForwardTo(m, first, s, Append(c, x), e)
    <3>1. Append(c, x)[1] = first
      BY <2>3, <2>6
    <3> QED
      BY <2>6, <2>7, <3>1 DEF ForwardTo
  <2>10. ForwardTo(m, first, s, R[1 .. e], e)
    BY <2>2, <2>8 DEF x
  <2> HIDE DEF m
  <2> QED
    BY <2>10
<1>12. n \in T
  <2> HIDE DEF T
  <2> QED
    BY <1>1, <1>10, <1>11, Stepwise
<1> QED
  BY <1>1, <1>8, <1>12
Ones == [j \in StateNumbers |-> 1]

\* The columns from the symbol i on.
BackwardTo(m, s, n, columns, i) ==
  /\ columns \in Seq(ColumnType) /\ Len(columns) = n - i + 2
  /\ columns[n - i + 2] = Ones
  /\ \A q \in 1 .. n - i + 1 : columns[q] = Backward(m, s, columns[q + 1], i + q - 1)

\* What backwardMatrix computes, column by column.
LEMMA BackwardIs ==
  ASSUME DiscreteAssumption, NEW s, NEW n, Given(parameters, s, n)
  PROVE  BackwardTo(parameters, s, n, BackwardColumns(s), 1)
<1> DEFINE ids == [i \in DOMAIN s |-> i]
           S == DOMAIN ids
           D == Seq(ColumnType) \ {<<>>}
           m == parameters
           next == [z \in (1 .. n) \X D |-> <<Backward(m, s, Head(z[2]), z[1])>> \o z[2]]
           Iter(g) == [A \in SUBSET S |->
                         IF A = {} THEN <<Ones>>
                         ELSE <<Backward(m, s, Head(g[A \ {Min(A)}]), ids[Min(A)])>>
                                \o g[A \ {Min(A)}]]
           R == CHOOSE g : g = Iter(g)
<1>1. n \in Nat /\ S = 1 .. n /\ \A i \in 1 .. n : ids[i] = i
  BY DEF Given
<1>2. ASSUME NEW i \in 1 .. n, NEW columns \in D
      PROVE  Head(columns) \in ColumnType /\ <<Backward(m, s, Head(columns), i)>> \o columns \in D
  <2>1. Head(columns) \in ColumnType /\ Len(columns) > 0 /\ columns \in Seq(ColumnType)
    OBVIOUS
  <2>2. Backward(m, s, Head(columns), i) \in ColumnType
    BY <2>1, BackwardType
  <2> DEFINE x == Backward(m, s, Head(columns), i)
  <2> HIDE DEF x
  <2>3. <<x>> \in Seq(ColumnType) /\ Len(<<x>>) = 1
    BY <2>2 DEF x
  <2>4. <<x>> \o columns \in Seq(ColumnType) /\ Len(<<x>> \o columns) = 1 + Len(columns)
    BY <2>1, <2>3
  <2> QED
    BY <2>1, <2>4 DEF x
<1>3. next \in [(1 .. n) \X D -> D]
  <2> SUFFICES ASSUME NEW z \in (1 .. n) \X D
               PROVE  <<Backward(m, s, Head(z[2]), z[1])>> \o z[2] \in D
    OBVIOUS
  <2>1. z[1] \in 1 .. n /\ z[2] \in D
    OBVIOUS
  <2> HIDE DEF D, m
  <2> QED
    BY <1>2, <2>1
<1>4. <<Ones>> \in D
  BY DEF Ones, ColumnType
<1>5. PICK g : RightTo(n, D, <<Ones>>, next, g)
  <2>1. Steps(n, D, <<Ones>>, next)
    BY <1>1, <1>3, <1>4 DEF Steps
  <2> HIDE DEF next, D
  <2> QED
    BY <2>1, RightFold
<1>6. g = Iter(g)
  <2>1. /\ g = [A \in SUBSET (1 .. n) |-> g[A]] /\ g[{}] = <<Ones>>
        /\ \A A \in SUBSET (1 .. n) : A # {} =>
             /\ Min(A) \in 1 .. n /\ g[A \ {Min(A)}] \in D
             /\ g[A] = next[<<Min(A), g[A \ {Min(A)}]>>]
    BY <1>5 DEF RightTo
  <2>2. \A i \in 1 .. n : \A columns \in D :
          next[<<i, columns>>] = <<Backward(m, s, Head(columns), i)>> \o columns
    OBVIOUS
  <2> DEFINE Step(A) == <<Backward(m, s, Head(g[A \ {Min(A)}]), ids[Min(A)])>> \o g[A \ {Min(A)}]
  <2>3. ASSUME NEW A \in SUBSET (1 .. n), A # {} PROVE g[A] = Step(A)
    <3>1. /\ Min(A) \in 1 .. n /\ g[A \ {Min(A)}] \in D
          /\ g[A] = next[<<Min(A), g[A \ {Min(A)}]>>]
      BY <2>1, <2>3
    <3> HIDE DEF next, D, S, ids, m
    <3>2. ids[Min(A)] = Min(A)
      BY <1>1, <3>1
    <3> QED
      BY <2>2, <3>1, <3>2
  <2>4. Iter(g) = [A \in SUBSET (1 .. n) |-> IF A = {} THEN <<Ones>> ELSE Step(A)]
    <3> HIDE DEF ids, m
    <3> QED
      BY <1>1
  <2> HIDE DEF Step, Iter
  <2> QED
    BY <2>1, <2>3, <2>4
<1>7. R = Iter(R)
  <2>1. \E h : h = Iter(h)
    BY <1>6
  <2> HIDE DEF Iter
  <2> QED
    BY <2>1
<1>8. BackwardColumns(s) = R[S]
  BY DEF BackwardColumns, FoldRight, MapThenFoldSet, Backward, Ones
<1> HIDE DEF R, ids
<1>9. /\ R[{}] = <<Ones>>
      /\ \A A \in SUBSET (1 .. n) : A # {} =>
           R[A] = <<Backward(m, s, Head(R[A \ {Min(A)}]), ids[Min(A)])>> \o R[A \ {Min(A)}]
  BY <1>1, <1>7
<1> HIDE DEF S
<1> DEFINE T == {e \in 0 .. n : BackwardTo(m, s, n, R[n - e + 1 .. n], n - e + 1)}
<1>10. 0 \in T
  <2>1. n - 0 + 1 .. n = {} /\ 0 \in 0 .. n /\ n - 0 + 1 = n + 1
    BY <1>1
  <2>2. BackwardTo(m, s, n, <<Ones>>, n + 1)
    <3>1. n - (n + 1) + 2 = 1 /\ n - (n + 1) + 1 = 0
      BY <1>1
    <3>2. <<Ones>> \in Seq(ColumnType) /\ Len(<<Ones>>) = 1 /\ <<Ones>>[1] = Ones
      BY DEF Ones, ColumnType
    <3> QED
      BY <3>1, <3>2 DEF BackwardTo
  <2>3. R[n - 0 + 1 .. n] = <<Ones>>
    BY <1>9, <2>1
  <2> HIDE DEF m
  <2> QED
    BY <2>1, <2>2, <2>3
<1>11. ASSUME NEW e \in 1 .. n, e - 1 \in T PROVE e \in T
  <2> DEFINE i == n - e + 1
             c == R[i + 1 .. n]
             x == Backward(m, s, Head(c), i)
  <2>0. i \in 1 .. n /\ n - (e - 1) + 1 = i + 1 /\ n - (i + 1) + 2 = n - i + 1
        /\ n - (i + 1) + 1 = n - i /\ n - i \in Nat /\ n \in Nat
    BY <1>1
  <2>1. /\ i .. n \in SUBSET (1 .. n) /\ i .. n # {} /\ Min(i .. n) = i
        /\ (i .. n) \ {i} = i + 1 .. n
    <3> HIDE DEF i
    <3> QED
      BY <2>0, BottomOf
  <2>2. R[i .. n] = <<x>> \o c
    <3>1. ids[i] = i
      BY <1>1
    <3> HIDE DEF m, i
    <3> QED
      BY <1>9, <2>1, <3>1
  <2>9. BackwardTo(m, s, n, c, i + 1)
    <3> HIDE DEF i, m
    <3>1. BackwardTo(m, s, n, R[n - (e - 1) + 1 .. n], n - (e - 1) + 1)
      BY <1>11
    <3> QED
      BY <2>0, <3>1
  <2> HIDE DEF i, c, m
  <2>3. /\ c \in Seq(ColumnType) /\ Len(c) = n - i + 1 /\ c[n - i + 1] = Ones
        /\ \A q \in 1 .. n - i : c[q] = Backward(m, s, c[q + 1], i + 1 + q - 1)
    BY <2>0, <2>9 DEF BackwardTo
  <2> USE DEF m
  <2>4. Head(c) = c[1] /\ Head(c) \in ColumnType
    BY <2>0, <2>3
  <2>5. x \in ColumnType /\ x = Backward(m, s, c[1], i)
    BY <2>0, <2>4, BackwardType
  <2> HIDE DEF x, m
  <2> DEFINE d == <<x>> \o c
  <2>6. /\ d \in Seq(ColumnType) /\ Len(d) = n - i + 2
        /\ d[1] = x /\ \A q \in 1 .. n - i + 1 : d[q + 1] = c[q]
    <3>1. <<x>> \in Seq(ColumnType) /\ Len(<<x>>) = 1
      BY <2>5
    <3>2. Len(d) = 1 + Len(c) /\ d \in Seq(ColumnType)
      BY <2>3, <3>1
    <3>3. \A q \in 1 .. Len(c) : d[q + 1] = c[q]
      BY <2>3, <3>1
    <3>4. d[1] = x
      BY <2>0, <2>3, <3>1
    <3> HIDE DEF d
    <3> QED
      BY <2>0, <2>3, <3>2, <3>3, <3>4
  <2> HIDE DEF d
  <2>7. ASSUME NEW q \in 1 .. n - i + 1
        PROVE  d[q] = Backward(m, s, d[q + 1], i + q - 1)
    <3>1. CASE q = 1
      <4>1. d[q + 1] = c[1] /\ i + q - 1 = i
        BY <2>0, <2>6, <3>1
      <4> QED
        BY <2>5, <2>6, <3>1, <4>1
    <3>2. CASE q # 1
      <4> DEFINE r == q - 1
      <4>1. r \in 1 .. n - i /\ r + 1 = q /\ r \in 1 .. n - i + 1 /\ r + 1 \in 1 .. n - i + 1
            /\ i + 1 + r - 1 = i + q - 1
        BY <2>0, <3>2
      <4> HIDE DEF r
      <4>2. d[q] = c[r] /\ d[q + 1] = c[r + 1]
        BY <2>6, <4>1
      <4> QED
        BY <2>3, <4>1, <4>2
    <3> QED
      BY <3>1, <3>2
  <2>8. BackwardTo(m, s, n, d, i)
    <3>1. d[n - i + 2] = Ones
      <4>1. n - i + 1 \in 1 .. n - i + 1 /\ n - i + 1 + 1 = n - i + 2
        BY <2>0
      <4> QED
        BY <2>3, <2>6, <4>1
    <3> QED
      BY <2>6, <2>7, <3>1 DEF BackwardTo
  <2>10. BackwardTo(m, s, n, R[i .. n], i)
    BY <2>2, <2>8 DEF d
  <2> QED
    BY <2>10, <1>1 DEF i
<1>12. n \in T
  <2> HIDE DEF T
  <2> QED
    BY <1>1, <1>10, <1>11, Stepwise
<1>13. n - n + 1 = 1
  BY <1>1
<1> QED
  BY <1>1, <1>8, <1>12, <1>13
\* Columns of the two matrices for the model m, the sequence s of n symbols and first weights.
ForwardOf(m, first, s, n, a) ==
  /\ \A i \in 1 .. n + 1 : a[i] \in ColumnType
  /\ a[1] = first
  /\ \A i \in 1 .. n : a[i + 1] = Onward(m, s, a[i], i)
BackwardOf(m, s, n, b) ==
  /\ \A i \in 1 .. n + 1 : b[i] \in ColumnType
  /\ b[n + 1] = Ones
  /\ \A i \in 1 .. n : b[i] = Backward(m, s, b[i + 1], i)

Products(a, b, i) == [j \in StateNumbers |-> a[i][j] * b[i][j]]

\* The products of two columns that follow each other have the same sum.
LEMMA NeighboursMeet ==
  ASSUME DiscreteAssumption, NEW m, NEW s, NEW n, Given(m, s, n), NEW first, NEW a, NEW b,
         ForwardOf(m, first, s, n, a), BackwardOf(m, s, n, b), NEW i \in 1 .. n
  PROVE  Sigma(Products(a, b, i), StateNumbers) = Sigma(Products(a, b, i + 1), StateNumbers)
<1> DEFINE K == StateNumbers
           c == a[i]
           d == b[i + 1]
           f == [j \in K |-> [k \in K |-> m.transition[k][j] * c[k]]]
           g == [k \in K |-> [j \in K |-> d[j] * m.emission[j][s[i]] * m.transition[k][j]]]
           left == [j \in K |-> [k \in K |-> m.emission[j][s[i]] * d[j] * f[j][k]]]
           turned == [k \in K |-> [j \in K |-> c[k] * g[k][j]]]
           rows == Products(a, b, i + 1)
           columns == Products(a, b, i)
<1>1. n \in Nat /\ m \in Models /\ i \in 1 .. n + 1 /\ i + 1 \in 1 .. n + 1
  BY DEF Given
<1>2. c \in ColumnType /\ d \in ColumnType
  BY <1>1 DEF ForwardOf, BackwardOf
<1>3. \A j, k \in K : /\ m.emission[j][s[i]] \in Int /\ m.transition[k][j] \in Int
                      /\ c[k] \in Int /\ d[j] \in Int
  <2>1. \A j \in K : m.emission[j][s[i]] \in Nat
    BY EmissionType
  <2>2. \A j, k \in K : m.transition[k][j] \in Nat
    BY <1>1, WeightsType
  <2> QED
    BY <1>2, <2>1, <2>2 DEF ColumnType
<1>4. a[i + 1] = [j \in K |-> m.emission[j][s[i]] * Total(f[j])]
  BY DEF ForwardOf, Onward
<1>5. b[i] = [k \in K |-> Total(g[k])]
  BY DEF BackwardOf, Backward
<1>6. ASSUME NEW j \in K, NEW k \in K
      PROVE  /\ f[j][k] \in Int /\ g[k][j] \in Int
             /\ left[j][k] = (m.emission[j][s[i]] * d[j]) * f[j][k]
             /\ turned[k][j] = c[k] * g[k][j]
             /\ left[j][k] = turned[k][j] /\ left[j][k] \in Int
  <2> DEFINE t == m.transition[k][j]
             u == m.emission[j][s[i]]
             v == c[k]
             w == d[j]
  <2>1. t \in Int /\ u \in Int /\ v \in Int /\ w \in Int
    BY <1>3
  <2>2. /\ f[j][k] = t * v /\ g[k][j] = w * u * t
        /\ left[j][k] = u * w * f[j][k] /\ turned[k][j] = v * g[k][j]
    OBVIOUS
  <2> HIDE DEF t, u, v, w, f, g, left, turned
  <2>3. t * v \in Int /\ w * u * t \in Int /\ u * w * (t * v) \in Int
    BY <2>1
  <2>4. u * w * (t * v) = v * (w * u * t)
    BY <2>1
  <2> QED
    BY <2>2, <2>3, <2>4 DEF u, v, w
<1>7. /\ \A j \in K : rows[j] = a[i + 1][j] * d[j]
      /\ \A k \in K : columns[k] = c[k] * b[i][k]
  BY DEF Products
<1>8. \A j \in K : f[j] \in ColumnType /\ g[j] \in ColumnType
  <2>1. \A j \in K : f[j] = [k \in K |-> f[j][k]] /\ g[j] = [k \in K |-> g[j][k]]
    OBVIOUS
  <2> HIDE DEF f, g
  <2> QED
    BY <1>6, <2>1 DEF ColumnType
<1> HIDE DEF c, d, f, g, left, turned, rows, columns
<1>9. \A j \in K : rows[j] = Sigma(left[j], K)
  <2> SUFFICES ASSUME NEW j \in K PROVE rows[j] = Sigma(left[j], K)
    OBVIOUS
  <2> DEFINE on == f[j]
             row == left[j]
             u == m.emission[j][s[i]]
             w == d[j]
  <2>1. Total(on) = Sigma(on, K) /\ Numbers(on, K) /\ Sigma(on, K) \in Int
    BY <1>8, TotalOfStates
  <2>2. rows[j] = (u * Total(on)) * w
    BY <1>4, <1>7
  <2>3. u \in Int /\ w \in Int /\ \A k \in K : row[k] = (u * w) * on[k]
    BY <1>3, <1>6
  <2> HIDE DEF on, row, u, w
  <2>4. u * w \in Int
    BY <2>3
  <2> DEFINE x == u * w
  <2> HIDE DEF x
  <2>5. Sigma(row, K) = x * Sigma(on, K)
    <3>1. x \in Int /\ \A k \in K : row[k] = x * on[k]
      BY <2>3, <2>4 DEF x
    <3> QED
      BY <2>1, <3>1, SigmaTimes
  <2> DEFINE y == Sigma(on, K)
  <2>6. rows[j] = (u * y) * w /\ Sigma(row, K) = (u * w) * y /\ y \in Int
    BY <2>1, <2>2, <2>5 DEF x
  <2> HIDE DEF y
  <2>7. (u * y) * w = (u * w) * y
    BY <2>3, <2>6
  <2> QED
    BY <2>6, <2>7 DEF row
<1>10. \A k \in K : columns[k] = Sigma(turned[k], K)
  <2> SUFFICES ASSUME NEW k \in K PROVE columns[k] = Sigma(turned[k], K)
    OBVIOUS
  <2> DEFINE on == g[k]
             row == turned[k]
             v == c[k]
  <2>1. Total(on) = Sigma(on, K) /\ Numbers(on, K)
    BY <1>8, TotalOfStates
  <2>2. columns[k] = v * Total(on)
    BY <1>5, <1>7
  <2>3. v \in Int /\ \A j \in K : row[j] = v * on[j]
    BY <1>3, <1>6
  <2> HIDE DEF on, row, v
  <2>4. Sigma(row, K) = v * Sigma(on, K)
    BY <2>1, <2>3, SigmaTimes
  <2> QED
    BY <2>1, <2>2, <2>4 DEF row
<1>11. IsFiniteSet(K)
  BY FS_Interval DEF StateNumbers, DiscreteAssumption
<1>12. Table(K, K, left, rows, turned, columns)
  BY <1>6, <1>9, <1>10, <1>11 DEF Table
<1>13. Sigma(rows, K) = Sigma(columns, K)
  BY <1>12, SigmaSwap
<1> QED
  BY <1>13 DEF rows, columns

\* All columns of the two matrices have the sum of the last one.
LEMMA ColumnsMeet ==
  ASSUME DiscreteAssumption, NEW m, NEW s, NEW n, Given(m, s, n), NEW first, NEW a, NEW b,
         ForwardOf(m, first, s, n, a), BackwardOf(m, s, n, b), NEW i \in 1 .. n + 1
  PROVE  Total(Products(a, b, i)) = Sigma(a[n + 1], StateNumbers)
<1> DEFINE M(q) == Sigma(Products(a, b, q), StateNumbers)
           T == {e \in 0 .. n : M(n + 1 - e) = M(n + 1)}
<1>0. n \in Nat
  BY DEF Given
<1>1. 0 \in T
  BY <1>0
<1>2. ASSUME NEW e \in 1 .. n, e - 1 \in T PROVE e \in T
  <2> DEFINE q == n + 1 - e
  <2>1. q \in 1 .. n /\ q + 1 = n + 1 - (e - 1) /\ e \in 0 .. n
    BY <1>0
  <2>3. M(n + 1 - (e - 1)) = M(n + 1)
    BY <1>2
  <2> HIDE DEF q
  <2>2. M(q) = M(q + 1)
    BY <2>1, NeighboursMeet
  <2> HIDE DEF M
  <2> QED
    BY <2>1, <2>2, <2>3 DEF q
<1>3. 0 .. n \subseteq T
  <2> HIDE DEF T
  <2> QED
    BY <1>0, <1>1, <1>2, Stepwise
<1>4. M(i) = M(n + 1)
  <2> HIDE DEF M
  <2>1. n + 1 - i \in 0 .. n /\ n + 1 - (n + 1 - i) = i
    BY <1>0
  <2> QED
    BY <1>3, <2>1
<1>5. \A q \in 1 .. n + 1 : Products(a, b, q) \in ColumnType
  <2> SUFFICES ASSUME NEW q \in 1 .. n + 1, NEW j \in StateNumbers PROVE a[q][j] * b[q][j] \in Int
    BY DEF Products, ColumnType
  <2>1. a[q][j] \in Int /\ b[q][j] \in Int
    BY DEF ForwardOf, BackwardOf, ColumnType
  <2> QED
    BY <2>1
<1>6. Total(Products(a, b, i)) = M(i)
  BY <1>5, TotalOfStates
<1>7. M(n + 1) = Sigma(a[n + 1], StateNumbers)
  <2>1. a[n + 1] \in ColumnType /\ b[n + 1] = Ones
    BY <1>0 DEF ForwardOf, BackwardOf
  <2>2. \A j \in StateNumbers : Products(a, b, n + 1)[j] = a[n + 1][j]
    <3> SUFFICES ASSUME NEW j \in StateNumbers PROVE a[n + 1][j] * b[n + 1][j] = a[n + 1][j]
      BY DEF Products
    <3>1. a[n + 1][j] \in Int /\ b[n + 1][j] = 1
      BY <2>1 DEF Ones, ColumnType
    <3> QED
      BY <3>1
  <2> DEFINE x == a[n + 1]
             y == Products(a, b, n + 1)
  <2>3. Numbers(x, StateNumbers)
    BY <2>1, TotalOfStates
  <2>4. \A j \in StateNumbers : y[j] = x[j]
    BY <2>2
  <2> HIDE DEF x, y
  <2>5. Sigma(y, StateNumbers) = Sigma(x, StateNumbers)
    BY <2>3, <2>4, SigmaSame
  <2> QED
    BY <2>5 DEF x, y
<1> QED
  BY <1>4, <1>6, <1>7
\* A path's weight, place by place.
Walked(m, first, s, n, path, h) ==
  /\ h \in [0 .. n -> Int]
  /\ h[0] = first[path[1]] /\ WeightOfPath(m, first, path, s) = h[n]
  /\ \A e \in 1 .. n : h[e] = h[e - 1] * m.transition[path[e]][path[e + 1]]
                                * m.emission[path[e + 1]][s[e]]

\* A path's weight is a product over its places.
LEMMA PathProducts ==
  ASSUME DiscreteAssumption, NEW m, NEW s, NEW n, Given(m, s, n), NEW first \in ColumnType,
         NEW path \in [1 .. n + 1 -> StateNumbers]
  PROVE  \E h : Walked(m, first, s, n, path, h)
<1> DEFINE ids == [i \in DOMAIN s |-> i]
           S == DOMAIN ids
           Factor(w, i) == w * m.transition[path[i]][path[i + 1]] * m.emission[path[i + 1]][s[i]]
           base == first[path[1]]
           next == [z \in (1 .. n) \X Int |-> Factor(z[2], z[1])]
           Iter(g) == [A \in SUBSET S |->
                         IF A = {} THEN base ELSE Factor(g[A \ {Max(A)}], ids[Max(A)])]
           R == CHOOSE g : g = Iter(g)
<1>1. n \in Nat /\ S = 1 .. n /\ \A i \in 1 .. n : ids[i] = i
  BY DEF Given
<1>2. ASSUME NEW i \in 1 .. n, NEW w \in Int PROVE Factor(w, i) \in Int
  <2>1. i \in 1 .. n + 1 /\ i + 1 \in 1 .. n + 1
    BY <1>1
  <2>2. m.transition[path[i]][path[i + 1]] \in Int
    <3>1. path[i] \in StateNumbers /\ path[i + 1] \in StateNumbers
      BY <2>1
    <3>2. m.transition[path[i]][path[i + 1]] \in Nat
      BY <3>1, WeightsType DEF Given
    <3> QED
      BY <3>2
  <2>3. m.emission[path[i + 1]][s[i]] \in Int
    <3>1. path[i + 1] \in StateNumbers
      BY <2>1
    <3>2. m.emission[path[i + 1]][s[i]] \in Nat
      BY <3>1, EmissionType
    <3> QED
      BY <3>2
  <2> DEFINE x == m.transition[path[i]][path[i + 1]]
             y == m.emission[path[i + 1]][s[i]]
  <2>4. x \in Int /\ y \in Int /\ Factor(w, i) = w * x * y
    BY <2>2, <2>3
  <2> HIDE DEF x, y, Factor
  <2> QED
    BY <2>4
<1>3. next \in [(1 .. n) \X Int -> Int]
  <2> SUFFICES ASSUME NEW z \in (1 .. n) \X Int PROVE Factor(z[2], z[1]) \in Int
    OBVIOUS
  <2>1. z[1] \in 1 .. n /\ z[2] \in Int
    OBVIOUS
  <2> HIDE DEF Factor
  <2> QED
    BY <1>2, <2>1
<1>4. base \in Int
  <2>1. path[1] \in StateNumbers
    BY <1>1
  <2> QED
    BY <2>1 DEF ColumnType
<1>5. PICK g : LeftTo(n, Int, base, next, g)
  <2>1. Steps(n, Int, base, next)
    BY <1>1, <1>3, <1>4 DEF Steps
  <2> HIDE DEF next, base
  <2> QED
    BY <2>1, LeftFold
<1>6. g = Iter(g)
  <2>1. /\ g = [A \in SUBSET (1 .. n) |-> g[A]] /\ g[{}] = base
        /\ \A A \in SUBSET (1 .. n) : A # {} =>
             /\ Max(A) \in 1 .. n /\ g[A \ {Max(A)}] \in Int
             /\ g[A] = next[<<Max(A), g[A \ {Max(A)}]>>]
    BY <1>5 DEF LeftTo
  <2>2. \A i \in 1 .. n : \A w \in Int : next[<<i, w>>] = Factor(w, i)
    OBVIOUS
  <2> DEFINE Step(A) == Factor(g[A \ {Max(A)}], ids[Max(A)])
  <2>3. ASSUME NEW A \in SUBSET (1 .. n), A # {} PROVE g[A] = Step(A)
    <3>1. /\ Max(A) \in 1 .. n /\ g[A \ {Max(A)}] \in Int
          /\ g[A] = next[<<Max(A), g[A \ {Max(A)}]>>]
      BY <2>1, <2>3
    <3> HIDE DEF next, S, ids, Factor
    <3>2. ids[Max(A)] = Max(A)
      BY <1>1, <3>1
    <3> QED
      BY <2>2, <3>1, <3>2
  <2>4. Iter(g) = [A \in SUBSET (1 .. n) |-> IF A = {} THEN base ELSE Step(A)]
    <3> HIDE DEF ids, Factor
    <3> QED
      BY <1>1
  <2> HIDE DEF Step, Iter
  <2> QED
    BY <2>1, <2>3, <2>4
<1>7. R = Iter(R)
  <2>1. \E h : h = Iter(h)
    BY <1>6
  <2> HIDE DEF Iter
  <2> QED
    BY <2>1
<1>8. WeightOfPath(m, first, path, s) = R[S]
  BY DEF WeightOfPath, FoldLeft, MapThenFoldSet
<1> HIDE DEF R, ids
<1>9. /\ R[{}] = base
      /\ \A A \in SUBSET (1 .. n) : A # {} =>
           R[A] = Factor(R[A \ {Max(A)}], ids[Max(A)])
  BY <1>1, <1>7
<1> HIDE DEF S, base, Factor
<1> DEFINE h == [e \in 0 .. n |-> R[1 .. e]]
<1>10. h[0] = base
  BY <1>1, <1>9
<1>11. ASSUME NEW e \in 1 .. n PROVE h[e] = Factor(h[e - 1], e)
  <2>1. /\ 1 .. e \in SUBSET (1 .. n) /\ 1 .. e # {} /\ Max(1 .. e) = e
        /\ (1 .. e) \ {e} = 1 .. e - 1
    BY <1>1, TopOf
  <2>2. h[e] = R[1 .. e] /\ h[e - 1] = R[1 .. e - 1] /\ ids[e] = e
    BY <1>1
  <2> HIDE DEF h
  <2>3. R[1 .. e] = Factor(R[1 .. e - 1], ids[e])
    BY <1>9, <2>1
  <2> QED
    BY <2>2, <2>3
<1>12. h[n] = R[S]
  BY <1>1
<1>14. h = [e \in 0 .. n |-> h[e]]
  OBVIOUS
<1> HIDE DEF h
<1>13. \A e \in 0 .. n : h[e] \in Int
  <2> DEFINE T == {e \in 0 .. n : h[e] \in Int}
  <2>1. 0 \in T
    BY <1>1, <1>4, <1>10
  <2>2. ASSUME NEW e \in 1 .. n, e - 1 \in T PROVE e \in T
    <3>1. e \in 0 .. n /\ h[e - 1] \in Int
      BY <1>1, <2>2
    <3>2. h[e] \in Int
      BY <1>2, <1>11, <3>1
    <3> QED
      BY <3>1, <3>2
  <2>3. 0 .. n \subseteq T
    <3> HIDE DEF T
    <3> QED
      BY <1>1, <2>1, <2>2, Stepwise
  <2> QED
    BY <2>3
<1> QED
  <2>1. h \in [0 .. n -> Int]
    BY <1>13, <1>14
  <2>2. WeightOfPath(m, first, path, s) = h[n]
    BY <1>8, <1>12
  <2> QED
    BY <1>10, <1>11, <2>1, <2>2 DEF base, Factor, Walked

\* The symbols before e.
Cut(s, e) == [q \in 1 .. e - 1 |-> s[q]]

\* The weight of a longer path.
LEMMA WeightGoesOn ==
  ASSUME DiscreteAssumption, NEW m, NEW s, NEW n, Given(m, s, n), NEW first \in ColumnType,
         NEW i \in 1 .. n, NEW p \in [1 .. i -> StateNumbers], NEW k \in StateNumbers
  PROVE  WeightOfPath(m, first, Longer(p, i, k), Cut(s, i + 1))
           = WeightOfPath(m, first, p, Cut(s, i))
               * (m.transition[p[i]][k] * m.emission[k][s[i]])
<1> DEFINE u == Longer(p, i, k)
           now == Cut(s, i + 1)
           then == Cut(s, i)
<1>1. n \in Nat /\ i \in Nat /\ Given(m, now, i) /\ Given(m, then, i - 1)
  BY DEF Given, Cut
<1>2. /\ u \in [1 .. i + 1 -> StateNumbers] /\ u[i + 1] = k
      /\ \A q \in 1 .. i : u[q] = p[q]
  <2>1. \A q \in 1 .. i + 1 : q # i + 1 => q \in 1 .. i
    BY <1>1
  <2>2. i + 1 \in 1 .. i + 1 /\ \A q \in 1 .. i : q \in 1 .. i + 1 /\ q # i + 1
    BY <1>1
  <2> QED
    BY <2>1, <2>2 DEF Longer
<1>3. /\ \A e \in 1 .. i : now[e] = s[e]
      /\ \A e \in 1 .. i - 1 : then[e] = s[e]
  BY <1>1 DEF Cut
<1> HIDE DEF u, now, then
<1>4a. PICK h : Walked(m, first, now, i, u, h)
  BY <1>1, <1>2, PathProducts
<1>4. /\ h \in [0 .. i -> Int]
      /\ h[0] = first[u[1]] /\ WeightOfPath(m, first, u, now) = h[i]
      /\ \A e \in 1 .. i : h[e] = h[e - 1] * m.transition[u[e]][u[e + 1]]
                                    * m.emission[u[e + 1]][now[e]]
  BY <1>4a DEF Walked
<1>5a. PICK g : Walked(m, first, then, i - 1, p, g)
  <2>1. p \in [1 .. i - 1 + 1 -> StateNumbers]
    BY <1>1
  <2> DEFINE j == i - 1
  <2>2. Given(m, then, j) /\ p \in [1 .. j + 1 -> StateNumbers]
    BY <1>1, <2>1
  <2> HIDE DEF j
  <2>3. \E g : Walked(m, first, then, j, p, g)
    BY <2>2, PathProducts
  <2> QED
    BY <2>3 DEF j
<1>5. /\ g \in [0 .. i - 1 -> Int]
      /\ g[0] = first[p[1]] /\ WeightOfPath(m, first, p, then) = g[i - 1]
      /\ \A e \in 1 .. i - 1 : g[e] = g[e - 1] * m.transition[p[e]][p[e + 1]]
                                        * m.emission[p[e + 1]][then[e]]
  BY <1>5a DEF Walked
<1>6. 0 .. i - 1 \subseteq {e \in 0 .. i - 1 : h[e] = g[e]}
  <2> DEFINE T == {e \in 0 .. i - 1 : h[e] = g[e]}
  <2>1. 0 \in T
    BY <1>1, <1>2, <1>4, <1>5
  <2>2. ASSUME NEW e \in 1 .. i - 1, e - 1 \in T PROVE e \in T
    <3>1. e \in 1 .. i /\ e + 1 \in 1 .. i /\ e \in 0 .. i - 1
      BY <1>1
    <3>2. h[e] = h[e - 1] * m.transition[u[e]][u[e + 1]] * m.emission[u[e + 1]][now[e]]
      BY <1>4, <3>1
    <3>3. g[e] = g[e - 1] * m.transition[p[e]][p[e + 1]] * m.emission[p[e + 1]][then[e]]
      BY <1>5
    <3>4. u[e] = p[e] /\ u[e + 1] = p[e + 1] /\ now[e] = s[e] /\ then[e] = s[e]
      BY <1>2, <1>3, <3>1
    <3>5. h[e - 1] = g[e - 1]
      BY <2>2
    <3>6. h[e] = g[e]
      BY <3>2, <3>3, <3>4, <3>5
    <3> QED
      BY <3>1, <3>6
  <2> HIDE DEF T
  <2>3. i - 1 \in Nat
    BY <1>1
  <2>4. 0 .. i - 1 \subseteq T
    BY <2>1, <2>2, <2>3, Stepwise
  <2> QED
    BY <2>4 DEF T
<1>7. h[i - 1] = g[i - 1] /\ g[i - 1] \in Int
  <2>1. i - 1 \in 0 .. i - 1
    BY <1>1
  <2> QED
    BY <1>5, <1>6, <2>1
<1>8. h[i] = h[i - 1] * m.transition[p[i]][k] * m.emission[k][s[i]]
  <2>1. i \in 1 .. i
    BY <1>1
  <2> QED
    BY <1>2, <1>3, <1>4, <2>1
<1>9. m.transition[p[i]][k] \in Nat /\ m.emission[k][s[i]] \in Nat
  <2>1. p[i] \in StateNumbers /\ m \in Models
    BY <1>1 DEF Given
  <2>2. m.transition[p[i]][k] \in Nat
    BY <2>1, WeightsType
  <2>3. m.emission[k][s[i]] \in Nat
    BY EmissionType
  <2> QED
    BY <2>2, <2>3
<1>10. \A x \in Int : \A y, z \in Nat : x * y * z = x * (y * z)
  OBVIOUS
<1>11. h[i] = g[i - 1] * (m.transition[p[i]][k] * m.emission[k][s[i]])
  BY <1>7, <1>8, <1>9, <1>10
<1> QED
  BY <1>4, <1>5, <1>11 DEF u, now, then
\* The definition by all paths is the last column's sum.
PathWeights(m, first, s, P) == [p \in P |-> WeightOfPath(m, first, p, s)]

\* The definition is a sum over all paths.
LEMMA WeightIsSum ==
  ASSUME NEW m, NEW first, NEW n \in Nat, NEW s \in [1 .. n -> Symbols]
  PROVE  WeightFrom(m, first, s)
           = Sigma(PathWeights(m, first, s, [1 .. n + 1 -> StateNumbers]),
                   [1 .. n + 1 -> StateNumbers])
<1> DEFINE P == [1 .. n + 1 -> StateNumbers]
           f == [p \in P |-> WeightOfPath(m, first, p, s)]
           IterF(g) == [A \in SUBSET P |->
                          IF A = {} THEN 0
                          ELSE f[CHOOSE x \in A : TRUE] + g[A \ {CHOOSE x \in A : TRUE}]]
           IterW(g) == [A \in SUBSET P |->
                          IF A = {} THEN 0
                          ELSE WeightOfPath(m, first, CHOOSE x \in A : TRUE, s)
                                 + g[A \ {CHOOSE x \in A : TRUE}]]
<1>1. Len(s) = n
  OBVIOUS
<1>2. WeightFrom(m, first, s) = (CHOOSE g : g = IterW(g))[P]
  <2>1. [1 .. Len(s) + 1 -> StateNumbers] = P
    BY <1>1
  <2> HIDE DEF P
  <2> QED
    BY <2>1 DEF WeightFrom, MapThenSumSet, MapThenFoldSet
<1>3. Sigma(f, P) = (CHOOSE g : g = IterF(g))[P]
  <2> HIDE DEF P, f
  <2> QED
    BY DEF Sigma, MapThenSumSet, MapThenFoldSet
<1>4. ASSUME NEW g PROVE IterF(g) = IterW(g)
  <2>1. ASSUME NEW A \in SUBSET P, A # {}
        PROVE  f[CHOOSE x \in A : TRUE] = WeightOfPath(m, first, CHOOSE x \in A : TRUE, s)
    <3> DEFINE x == CHOOSE x \in A : TRUE
    <3>1. x \in A
      BY <2>1
    <3> HIDE DEF x
    <3>2. f[x] = WeightOfPath(m, first, x, s)
      BY <3>1
    <3> QED
      BY <3>2 DEF x
  <2> HIDE DEF P, f
  <2> QED
    BY <2>1
<1>5. (CHOOSE g : g = IterF(g)) = CHOOSE g : g = IterW(g)
  <2> HIDE DEF IterF, IterW
  <2> QED
    BY <1>4
<1> QED
  <2> HIDE DEF IterF, IterW, P, f
  <2>1. WeightFrom(m, first, s) = Sigma(f, P)
    BY <1>2, <1>3, <1>5
  <2> QED
    BY <2>1 DEF f, P, PathWeights

\* The weight of a sequence is the sum over the forward matrix's last column.
LEMMA WeightIs ==
  ASSUME DiscreteAssumption, NEW m, NEW s, NEW n, Given(m, s, n), NEW first \in ColumnType, NEW a,
         ForwardOf(m, first, s, n, a)
  PROVE  WeightFrom(m, first, s) = Sigma(a[n + 1], StateNumbers)
<1> DEFINE K == StateNumbers
           G == [i \in 1 .. n |-> [k \in K |-> [j \in K |-> m.transition[k][j] * m.emission[j][s[i]]]]]
           W == [i \in 1 .. n + 1 |-> [p \in [1 .. i -> K] |-> WeightOfPath(m, first, p, Cut(s, i))]]
           P == [1 .. n + 1 -> K]
<1>1. n \in Nat /\ s \in [1 .. n -> Symbols] /\ m \in Models
  BY DEF Given
<1>2. IsFiniteSet(K)
  BY FS_Interval DEF StateNumbers, DiscreteAssumption
<1>3. ASSUME NEW i \in 1 .. n, NEW k \in K, NEW j \in K
      PROVE  /\ m.transition[k][j] \in Nat /\ m.emission[j][s[i]] \in Nat /\ a[i][k] \in Int
             /\ G[i][k][j] = m.transition[k][j] * m.emission[j][s[i]] /\ G[i][k][j] \in Int
  <2>1. m.transition[k][j] \in Nat
    BY <1>1, WeightsType
  <2>2. m.emission[j][s[i]] \in Nat
    BY EmissionType
  <2>3. G[i][k][j] = m.transition[k][j] * m.emission[j][s[i]]
    OBVIOUS
  <2>4. a[i][k] \in Int
    <3>1. i \in 1 .. n + 1
      BY <1>1
    <3>2. a[i] \in ColumnType
      BY <3>1 DEF ForwardOf
    <3> QED
      BY <3>2 DEF ColumnType
  <2> HIDE DEF G
  <2> QED
    BY <2>1, <2>2, <2>3, <2>4
<1>4. \A p \in [1 .. 1 -> K] : W[1][p] = first[p[1]]
  <2> SUFFICES ASSUME NEW p \in [1 .. 1 -> K] PROVE W[1][p] = first[p[1]]
    OBVIOUS
  <2>1. W[1][p] = WeightOfPath(m, first, p, Cut(s, 1))
    BY <1>1
  <2>2. Given(m, Cut(s, 1), 0) /\ p \in [1 .. 0 + 1 -> StateNumbers]
    BY <1>1 DEF Given, Cut
  <2>3. PICK h : Walked(m, first, Cut(s, 1), 0, p, h)
    BY <2>2, PathProducts
  <2> QED
    BY <2>1, <2>3 DEF Walked
<1>5. ASSUME NEW i \in 1 .. n, NEW p \in [1 .. i -> K], NEW k \in K
      PROVE  W[i + 1][Longer(p, i, k)] = W[i][p] * G[i][p[i]][k]
  <2>1. i \in 1 .. n + 1 /\ i + 1 \in 1 .. n + 1 /\ i + 1 - 1 = i
    BY <1>1
  <2>2. Longer(p, i, k) \in [1 .. i + 1 -> K]
    <3>1. \A q \in 1 .. i + 1 : q # i + 1 => q \in 1 .. i
      BY <1>1
    <3> QED
      BY <3>1 DEF Longer
  <2>3. W[i + 1][Longer(p, i, k)] = WeightOfPath(m, first, Longer(p, i, k), Cut(s, i + 1))
    BY <2>1, <2>2
  <2>4. W[i][p] = WeightOfPath(m, first, p, Cut(s, i))
    BY <2>1
  <2>5. p[i] \in K
    BY <1>1
  <2> HIDE DEF W, G
  <2>6. WeightOfPath(m, first, Longer(p, i, k), Cut(s, i + 1))
          = WeightOfPath(m, first, p, Cut(s, i)) * (m.transition[p[i]][k] * m.emission[k][s[i]])
    BY WeightGoesOn
  <2>7. G[i][p[i]][k] = m.transition[p[i]][k] * m.emission[k][s[i]]
    BY <1>3, <2>5
  <2> QED
    BY <2>3, <2>4, <2>6, <2>7
<1>6. ASSUME NEW i \in 1 .. n
      PROVE  a[i + 1] = [j \in K |-> Sigma([k \in K |-> a[i][k] * G[i][k][j]], K)]
  <2>1. a[i + 1] = [j \in K |-> m.emission[j][s[i]]
                                  * Total([k \in K |-> m.transition[k][j] * a[i][k]])]
    BY DEF ForwardOf, Onward
  <2> SUFFICES ASSUME NEW j \in K
               PROVE  m.emission[j][s[i]] * Total([k \in K |-> m.transition[k][j] * a[i][k]])
                        = Sigma([k \in K |-> a[i][k] * G[i][k][j]], K)
    BY <2>1
  <2> DEFINE on == [k \in K |-> m.transition[k][j] * a[i][k]]
             row == [k \in K |-> a[i][k] * G[i][k][j]]
             u == m.emission[j][s[i]]
  <2>2. ASSUME NEW k \in K PROVE on[k] \in Int /\ row[k] = u * on[k]
    <3> DEFINE t == m.transition[k][j]
               v == a[i][k]
               w == G[i][k][j]
    <3>1. t \in Nat /\ u \in Nat /\ v \in Int /\ w = t * u
      BY <1>3
    <3>2. on[k] = t * v /\ row[k] = v * w
      OBVIOUS
    <3> HIDE DEF on, row, t, v, w, u
    <3>3. t * v \in Int /\ v * (t * u) = u * (t * v)
      BY <3>1
    <3> QED
      BY <3>1, <3>2, <3>3
  <2>3. on = [k \in K |-> on[k]]
    OBVIOUS
  <2>4. u \in Int
    <3>1. u \in Nat
      BY EmissionType
    <3> HIDE DEF u
    <3> QED
      BY <3>1
  <2> HIDE DEF on, row, u
  <2>5. on \in ColumnType
    BY <2>2, <2>3 DEF ColumnType
  <2>6. Total(on) = Sigma(on, K) /\ Numbers(on, K)
    BY <2>5, TotalOfStates
  <2>7. Sigma(row, K) = u * Sigma(on, K)
    BY <2>2, <2>4, <2>6, SigmaTimes
  <2>8. u * Total(on) = Sigma(row, K)
    BY <2>6, <2>7
  <2> QED
    BY <2>8 DEF on, row, u
<1>7. W[n + 1] = PathWeights(m, first, s, P)
  <2>1. n + 1 \in 1 .. n + 1
    BY <1>1
  <2>2. Cut(s, n + 1) = s
    BY <1>1 DEF Cut
  <2>3. W[n + 1] = PathWeights(m, first, Cut(s, n + 1), P)
    BY <2>1 DEF PathWeights
  <2> HIDE DEF W, P
  <2> QED
    BY <2>2, <2>3
<1>8. Sweep(K, n, first, G, W, a)
  <2>1. first \in [K -> Int] /\ a[1] = first
    BY DEF ColumnType, ForwardOf
  <2> HIDE DEF G, W, K
  <2> QED
    BY <1>1, <1>2, <1>3, <1>4, <1>5, <1>6, <2>1 DEF Sweep
<1>9. SameSums(K, n, P, W, a)
  <2> HIDE DEF G, W, K, P
  <2>1. SameSums(K, n, [1 .. n + 1 -> K], W, a)
    BY <1>8, SweepAll, Zenon
  <2> QED
    BY <2>1 DEF P
<1>10. WeightFrom(m, first, s) = Sigma(PathWeights(m, first, s, P), P)
  BY <1>1, WeightIsSum
<1>11. Sigma(W[n + 1], P) = Sigma(a[n + 1], K)
  <2> HIDE DEF W, K, P
  <2> QED
    BY <1>9 DEF SameSums
<1> HIDE DEF W, P, K
<1> QED
  BY <1>7, <1>10, <1>11 DEF K
-----------------------------------------------------------------------------
(* Columns of zeros.                                                       *)

Weights == [StateNumbers -> Nat]

\* No column is none.
LEMMA NoColumnApart == ASSUME DiscreteAssumption, NEW c \in ColumnType PROVE c # NoColumn
<1>1. 1 \in DOMAIN c
  BY DEF ColumnType, StateNumbers, DiscreteAssumption
<1>2. DOMAIN NoColumn = {}
  BY DEF NoColumn
<1> QED
  BY <1>1, <1>2

\* From natural numbers on, columns are of natural numbers; one of zeros leaves no weight.
LEMMA ZerosStay ==
  ASSUME DiscreteAssumption, NEW m, NEW s, NEW n, Given(m, s, n), NEW first \in Weights, NEW a,
         ForwardOf(m, first, s, n, a)
  PROVE  /\ \A i \in 1 .. n + 1 : Total(a[i]) \in Nat
         /\ \A i \in 1 .. n + 1 : Total(a[i]) = 0 => WeightFrom(m, first, s) = 0
         /\ Total(a[n + 1]) = WeightFrom(m, first, s)
<1> DEFINE K == StateNumbers
           T == {e \in 0 .. n : a[e + 1] \in Weights}
<1>0. n \in Nat /\ m \in Models /\ IsFiniteSet(K)
  BY FS_Interval DEF Given, StateNumbers, DiscreteAssumption
<1>1. 0 \in T
  BY <1>0 DEF ForwardOf
<1>2. ASSUME NEW e \in 1 .. n, e - 1 \in T PROVE e \in T
  <2>1. a[e] \in Weights /\ e \in 0 .. n
    BY <1>0, <1>2
  <2>2. a[e + 1] = Onward(m, s, a[e], e)
    BY DEF ForwardOf
  <2>3. ASSUME NEW j \in K
        PROVE  m.emission[j][s[e]] * Total([k \in K |-> m.transition[k][j] * a[e][k]]) \in Nat
    <3> DEFINE f == [k \in K |-> m.transition[k][j] * a[e][k]]
    <3>1. \A k \in K : f[k] \in Nat
      <4> SUFFICES ASSUME NEW k \in K PROVE m.transition[k][j] * a[e][k] \in Nat
        OBVIOUS
      <4>1. m.transition[k][j] \in Nat /\ a[e][k] \in Nat
        BY <1>0, <2>1, WeightsType DEF Weights
      <4> QED
        BY <4>1
    <3>2. f \in ColumnType
      BY <3>1 DEF ColumnType
    <3> HIDE DEF f
    <3>3. Total(f) \in Nat
      <4>1. Total(f) = Sigma(f, K)
        BY <3>2, TotalOfStates
      <4>2. Sigma(f, K) \in Nat
        BY <1>0, <3>1, SigmaNat
      <4> QED
        BY <4>1, <4>2
    <3>4. m.emission[j][s[e]] \in Nat
      BY EmissionType
    <3>5. m.emission[j][s[e]] * Total(f) \in Nat
      BY <3>3, <3>4
    <3> QED
      BY <3>5 DEF f
  <2>4. a[e + 1] \in Weights
    BY <2>2, <2>3 DEF Onward, Weights
  <2> QED
    BY <2>1, <2>4
<1>3. 0 .. n \subseteq T
  <2> HIDE DEF T
  <2> QED
    BY <1>0, <1>1, <1>2, Stepwise
<1>4. \A i \in 1 .. n + 1 : a[i] \in Weights
  <2> SUFFICES ASSUME NEW i \in 1 .. n + 1 PROVE a[i] \in Weights
    OBVIOUS
  <2>1. i - 1 \in 0 .. n /\ i - 1 + 1 = i
    BY <1>0
  <2> QED
    BY <1>3, <2>1
<1>5. ASSUME NEW i \in 1 .. n + 1
      PROVE  Total(a[i]) = Sigma(a[i], K) /\ Total(a[i]) \in Nat
  <2>1. a[i] \in ColumnType /\ \A k \in K : a[i][k] \in Nat
    BY <1>4 DEF Weights, ColumnType
  <2>2. Total(a[i]) = Sigma(a[i], K)
    BY <2>1, TotalOfStates
  <2>3. Sigma(a[i], K) \in Nat
    BY <1>0, <2>1, SigmaNat
  <2> QED
    BY <2>2, <2>3
<1>6. first \in ColumnType
  BY DEF Weights, ColumnType
<1>7. WeightFrom(m, first, s) = Sigma(a[n + 1], K)
  BY <1>6, WeightIs
<1>8. ASSUME NEW i \in 1 .. n + 1, Total(a[i]) = 0 PROVE WeightFrom(m, first, s) = 0
  <2> DEFINE r == n + 1 - i
             Z == {e \in 0 .. r : \A k \in K : a[i + e][k] = 0}
  <2>0. r \in Nat /\ i + r = n + 1 /\ i + 0 = i
    BY <1>0
  <2>1. 0 \in Z
    <3>1. \A k \in K : a[i][k] \in Nat
      BY <1>4 DEF Weights
    <3>2. \A k \in K : a[i][k] = 0
      <4>1. Sigma(a[i], K) = 0
        BY <1>5, <1>8
      <4>2. (\E k \in K : a[i][k] > 0) => Sigma(a[i], K) > 0
        BY <1>0, <3>1, SigmaNat
      <4> QED
        BY <3>1, <4>1, <4>2
    <3> QED
      BY <2>0, <3>2
  <2>2. ASSUME NEW e \in 1 .. r, e - 1 \in Z PROVE e \in Z
    <3> DEFINE q == i + (e - 1)
    <3>1. q \in 1 .. n /\ q + 1 = i + e /\ e \in 0 .. r
      BY <1>0, <2>0
    <3>2. \A k \in K : a[q][k] = 0
      BY <2>2
    <3> HIDE DEF q
    <3>3. a[q + 1] = Onward(m, s, a[q], q)
      BY <3>1 DEF ForwardOf
    <3>4. ASSUME NEW j \in K
          PROVE  m.emission[j][s[q]] * Total([k \in K |-> m.transition[k][j] * a[q][k]]) = 0
      <4> DEFINE f == [k \in K |-> m.transition[k][j] * a[q][k]]
      <4>1. \A k \in K : f[k] = 0
        <5> SUFFICES ASSUME NEW k \in K PROVE m.transition[k][j] * a[q][k] = 0
          OBVIOUS
        <5>1. m.transition[k][j] \in Nat /\ a[q][k] = 0
          BY <1>0, <3>2, WeightsType
        <5> QED
          BY <5>1
      <4>2. f \in ColumnType
        BY <4>1 DEF ColumnType
      <4> HIDE DEF f
      <4>3. Total(f) = 0
        BY <1>0, <4>1, <4>2, SigmaZero, TotalOfStates
      <4>4. m.emission[j][s[q]] \in Nat
        BY <3>1, EmissionType
      <4>5. m.emission[j][s[q]] * Total(f) = 0
        BY <4>3, <4>4
      <4> QED
        BY <4>5 DEF f
    <3>5. \A k \in K : a[q + 1][k] = 0
      BY <3>3, <3>4 DEF Onward
    <3> QED
      BY <3>1, <3>5
  <2>3. r \in Z
    <3> HIDE DEF Z, r
    <3>1. 0 .. r \subseteq Z
      BY <2>0, <2>1, <2>2, Stepwise
    <3> QED
      BY <2>0, <3>1
  <2>4. \A k \in K : a[n + 1][k] = 0
    BY <2>0, <2>3
  <2> QED
    BY <1>0, <1>7, <2>4, SigmaZero
<1>9. n + 1 \in 1 .. n + 1
  BY <1>0
<1> QED
  BY <1>5, <1>7, <1>8, <1>9
\* The weights of the first column.
FirstWeights(m, by, s) ==
  IF by = "forwardMatrix" THEN [j \in StateNumbers |-> m.emission[j][Head(s)] * m.initial[j]]
  ELSE FirstState

\* A column of a matrix, or none.
Shown == ColumnType \cup {NoColumn}
ShownOf(raw, i) == IF Total(raw[i]) = 0 THEN NoColumn ELSE raw[i]

\* The matrices are those of the model and the sequence they were computed for, as far as these
\* reach; and the backward one loses columns to factors of its own sequence only if that has no
\* weight.
Fore(f, a) ==
  /\ Given(f.model, f.of, Len(f.of)) /\ Len(f.of) > 0
  /\ \E raw : /\ ForwardOf(f.model, FirstWeights(f.model, f.by, f.of), f.of, Len(f.of), raw)
              /\ \A i \in 1 .. Len(f.of) + 1 : a[i] = ShownOf(raw, i)
Aft(b, c) ==
  /\ Given(b.model, b.of, Len(b.of)) /\ Len(b.of) > 0 /\ DOMAIN c = 1 .. Len(b.of) + 1
  /\ \E raw : /\ BackwardOf(b.model, b.of, Len(b.of), raw)
              /\ \A i \in 1 .. Len(b.of) + 1 : c[i] \in {NoColumn, raw[i]}
Fits(b, c) ==
  b.scaled.model = b.model /\ b.scaled.of = b.of =>
    \A i \in 1 .. Len(b.of) + 1 : c[i] = NoColumn => Weight(b.scaled) = 0

HmmInv ==
  /\ parameters \in Models /\ alpha \in Seq(Shown)
  /\ forward # Nobody => Fore(forward, alpha)
  /\ backward # Nobody => Aft(backward, beta) /\ Fits(backward, beta)

\* What forwardMatrix and forwardMatrixI start from are weights.
LEMMA FirstType ==
  ASSUME DiscreteAssumption, NEW m, NEW s, Given(m, s, Len(s)), Len(s) > 0, NEW by
  PROVE  FirstWeights(m, by, s) \in Weights /\ FirstWeights(m, by, s) \in ColumnType
<1>1. Len(s) \in Nat /\ m \in Models /\ s \in [1 .. Len(s) -> Symbols] /\ 1 \in 1 .. Len(s)
  BY DEF Given
<1>2. Head(s) = s[1]
  OBVIOUS
<1>3. \A j \in StateNumbers : m.emission[j][s[1]] * m.initial[j] \in Nat
  <2> SUFFICES ASSUME NEW j \in StateNumbers PROVE m.emission[j][s[1]] * m.initial[j] \in Nat
    OBVIOUS
  <2>1. m.emission[j][s[1]] \in Nat
    BY <1>1, EmissionType
  <2>2. m.initial[j] \in Nat
    BY <1>1, WeightsType
  <2> QED
    BY <2>1, <2>2
<1>4. FirstWeights(m, by, s) \in Weights
  BY <1>2, <1>3 DEF FirstWeights, FirstState, Weights
<1> QED
  BY <1>4 DEF Weights, ColumnType

\* The weight of a record is the sum over all paths from its first weights on.
LEMMA WeightOf ==
  ASSUME NEW f, Given(f.model, f.of, Len(f.of)), Len(f.of) > 0
  PROVE  Weight(f) = WeightFrom(f.model, FirstWeights(f.model, f.by, f.of), f.of)
<1> DEFINE s == f.of
           t == <<Head(s)>> \o s
<1>1. s \in Seq(Symbols) /\ Len(s) \in Nat /\ Len(s) > 0
  BY DEF Given
<1>2. Head(t) = Head(s) /\ Tail(t) = s
  <2> HIDE DEF s
  <2>1. Head(s) \in Symbols
    BY <1>1
  <2> DEFINE h == Head(s)
  <2> HIDE DEF h
  <2>2. Head(<<h>> \o s) = h /\ Tail(<<h>> \o s) = s
    BY <1>1, <2>1 DEF h
  <2> QED
    BY <2>2 DEF h
<1>3. WeightOfSequence(f.model, t)
        = WeightFrom(f.model, [j \in StateNumbers |-> f.model.emission[j][Head(s)] * f.model.initial[j]], s)
  <2> HIDE DEF t, s
  <2> QED
    BY <1>2 DEF WeightOfSequence
<1> QED
  BY <1>3 DEF Weight, FirstWeights

\* What forward columns say of the weight.
LEMMA ForeMeans ==
  ASSUME DiscreteAssumption, NEW f, NEW a, Fore(f, a)
  PROVE  /\ \A k \in 1 .. Len(f.of) + 1 : a[k] = NoColumn => Weight(f) = 0
         /\ Weight(f) = 0 => a[Len(f.of) + 1] = NoColumn
<1> DEFINE m == f.model
           s == f.of
           n == Len(s)
           first == FirstWeights(m, f.by, s)
<1>1. Given(m, s, n) /\ n > 0 /\ n \in Nat
  BY DEF Fore, Given
<1>2. PICK raw : ForwardOf(m, first, s, n, raw) /\ \A i \in 1 .. n + 1 : a[i] = ShownOf(raw, i)
  BY DEF Fore
<1>3. first \in Weights
  BY <1>1, FirstType
<1>4. Weight(f) = WeightFrom(m, first, s)
  BY <1>1, WeightOf
<1> HIDE DEF m, s, n, first
<1>5. /\ \A i \in 1 .. n + 1 : Total(raw[i]) = 0 => WeightFrom(m, first, s) = 0
      /\ Total(raw[n + 1]) = WeightFrom(m, first, s)
  BY <1>1, <1>2, <1>3, ZerosStay
<1>6. \A i \in 1 .. n + 1 : raw[i] # NoColumn
  BY <1>2, NoColumnApart DEF ForwardOf
<1>7. n + 1 \in 1 .. n + 1
  BY <1>1
<1>8. \A k \in 1 .. n + 1 : a[k] = NoColumn => Weight(f) = 0
  BY <1>2, <1>4, <1>5, <1>6 DEF ShownOf
<1>9. Weight(f) = 0 => a[n + 1] = NoColumn
  BY <1>2, <1>4, <1>5, <1>7 DEF ShownOf
<1> QED
  BY <1>8, <1>9 DEF n, s

\* What forwardMatrix and backwardMatrix are given.
LEMMA SequencesType ==
  ASSUME DiscreteAssumption, parameters \in Models, NEW s \in Sequences
  PROVE  /\ Given(parameters, s, Len(s)) /\ Len(s) \in Nat \ {0}
         /\ FirstAlpha(s) = FirstWeights(parameters, "forwardMatrix", s)
         /\ FirstState = FirstWeights(parameters, "forwardMatrixI", s)
<1>1. PICK n \in 1 .. MaxLength : s \in [1 .. n -> Symbols]
  BY DEF Sequences
<1>2. n \in Nat \ {0} /\ Len(s) = n
  BY <1>1 DEF DiscreteAssumption
<1>3. Given(parameters, s, Len(s))
  BY <1>1, <1>2 DEF Given
<1>4. Head(s) = s[1]
  OBVIOUS
<1> QED
  BY <1>2, <1>3, <1>4 DEF FirstAlpha, FirstWeights

\* What the calls write.
LEMMA ForwardWritten ==
  ASSUME DiscreteAssumption, NEW s, Given(parameters, s, Len(s)), Len(s) > 0, NEW by,
         NEW rest \in Seq(Shown), NEW first, first = FirstWeights(parameters, by, s)
  PROVE  /\ Scaled(ForwardColumns(first, s)) \o rest \in Seq(Shown)
         /\ Scaled(ForwardColumns(first, s)) \in Seq(Shown)
         /\ \A f : f = [model |-> parameters, of |-> s, by |-> by] =>
              /\ Fore(f, Scaled(ForwardColumns(first, s)) \o rest)
              /\ Fore(f, Scaled(ForwardColumns(first, s)))
<1> DEFINE c == ForwardColumns(first, s)
           d == Scaled(c)
           n == Len(s)
<1>0. n \in Nat /\ first \in ColumnType
  BY FirstType DEF Given
<1>1. /\ c \in Seq(ColumnType) /\ Len(c) = n + 1 /\ DOMAIN c = 1 .. n + 1
      /\ c[1] = first
      /\ \A i \in 1 .. n : c[i + 1] = Onward(parameters, s, c[i], i)
  <2>1. ForwardTo(parameters, first, s, c, n)
    BY <1>0, ForwardIs
  <2> HIDE DEF c, n
  <2> QED
    BY <2>1 DEF ForwardTo
<1> HIDE DEF c
<1>2. \A i \in 1 .. n + 1 : c[i] \in ColumnType
  BY <1>0, <1>1
<1>3. ForwardOf(parameters, first, s, n, c)
  BY <1>1, <1>2 DEF ForwardOf
<1>4. d \in [1 .. n + 1 -> Shown] /\ \A i \in 1 .. n + 1 : d[i] = ShownOf(c, i)
  BY <1>1, <1>2 DEF Scaled, Shown, ShownOf
<1> HIDE DEF d
<1>5. d \in Seq(Shown) /\ Len(d) = n + 1
  BY <1>0, <1>4
<1>6. d \o rest \in Seq(Shown) /\ \A i \in 1 .. n + 1 : (d \o rest)[i] = ShownOf(c, i)
  BY <1>0, <1>4, <1>5
<1> DEFINE x == d \o rest
<1> HIDE DEF x
<1>7. ASSUME NEW f, f = [model |-> parameters, of |-> s, by |-> by]
      PROVE  Fore(f, x) /\ Fore(f, d)
  <2>1. f.model = parameters /\ f.of = s /\ f.by = by
    BY <1>7
  <2>2. \A i \in 1 .. n + 1 : x[i] = ShownOf(c, i) /\ d[i] = ShownOf(c, i)
    BY <1>4, <1>6 DEF x
  <2> QED
    BY <1>3, <2>1, <2>2 DEF Fore
<1> QED
  BY <1>5, <1>6, <1>7 DEF c, d, x

\* What backwardMatrix writes, with the factors of a forward matrix.
LEMMA BackwardWritten ==
  ASSUME DiscreteAssumption, NEW s, Given(parameters, s, Len(s)), Len(s) > 0, NEW f, NEW a,
         f # Nobody => Fore(f, a)
  PROVE  \A b : b = [model |-> parameters, of |-> s, scaled |-> f] =>
           Aft(b, Rescaled(BackwardColumns(s), a)) /\ Fits(b, Rescaled(BackwardColumns(s), a))
<1> DEFINE c == BackwardColumns(s)
           d == Rescaled(c, a)
           n == Len(s)
<1>0. n \in Nat /\ n - 1 + 2 = n + 1 /\ n - 1 + 1 = n
  BY DEF Given
<1>6. BackwardTo(parameters, s, n, c, 1)
  BY BackwardIs
<1> HIDE DEF c
<1>1. /\ c \in Seq(ColumnType) /\ Len(c) = n + 1 /\ c[n + 1] = Ones
      /\ \A q \in 1 .. n : c[q] = Backward(parameters, s, c[q + 1], 1 + q - 1)
  BY <1>0, <1>6 DEF BackwardTo
<1>2. \A q \in 1 .. n : 1 + q - 1 = q
  BY <1>0
<1>3. \A q \in 1 .. n : c[q] = Backward(parameters, s, c[q + 1], q)
  BY <1>1, <1>2
<1>4. DOMAIN c = 1 .. n + 1 /\ \A i \in 1 .. n + 1 : c[i] \in ColumnType
  BY <1>1
<1>5. BackwardOf(parameters, s, n, c)
  BY <1>1, <1>3, <1>4 DEF BackwardOf
<1>7. /\ DOMAIN d = 1 .. n + 1
      /\ \A i \in 1 .. n + 1 :
           d[i] = IF \E k \in i + 1 .. n + 1 : a[k] = NoColumn THEN NoColumn ELSE c[i]
  BY <1>1, <1>4 DEF Rescaled
<1> HIDE DEF d
<1> SUFFICES ASSUME NEW b, b = [model |-> parameters, of |-> s, scaled |-> f]
             PROVE  Aft(b, d) /\ Fits(b, d)
  BY DEF c, d
<1>8. b.model = parameters /\ b.of = s /\ b.scaled = f
  OBVIOUS
<1>9. Aft(b, d)
  <2>1. \A i \in 1 .. n + 1 : d[i] \in {NoColumn, c[i]}
    BY <1>7
  <2> QED
    BY <1>5, <1>7, <1>8, <2>1 DEF Aft
<1>10. Fits(b, d)
  <2> SUFFICES ASSUME f.model = parameters, f.of = s, NEW i \in 1 .. n + 1, d[i] = NoColumn
               PROVE  Weight(f) = 0
    BY <1>8 DEF Fits
  <2>1. f # Nobody
    <3>1. s # <<>>
      BY DEF Given
    <3> QED
      BY <3>1 DEF Nobody
  <2>2. Fore(f, a)
    BY <2>1
  <2>3. c[i] # NoColumn
    BY <1>4, NoColumnApart
  <2>4. PICK k \in i + 1 .. n + 1 : a[k] = NoColumn
    BY <1>7, <2>3
  <2>5. k \in 1 .. n + 1
    BY <1>0
  <2> QED
    BY <2>2, <2>4, <2>5, ForeMeans
<1> QED
  BY <1>9, <1>10

\* Every call keeps the invariant of the matrices.
LEMMA HmmStep ==
  ASSUME DiscreteAssumption, HmmInv, HmmNext
  PROVE  HmmInv'
<1>0. /\ parameters \in Models /\ alpha \in Seq(Shown)
      /\ forward # Nobody => Fore(forward, alpha)
      /\ backward # Nobody => Aft(backward, beta) /\ Fits(backward, beta)
  BY DEF HmmInv
<1>1. CASE SetData
  BY <1>0, <1>1 DEF SetData, HmmInv
<1> SUFFICES ASSUME NEW s \in Sequences,
                    ForwardMatrix(s) \/ ForwardMatrixI(s) \/ BackwardMatrix(s) \/ Likelyhood(s)
             PROVE  HmmInv'
  BY <1>1 DEF HmmNext
<1> DEFINE n == Len(s)
           was == [model |-> parameters, of |-> s, by |-> "forwardMatrix"]
           wasI == [model |-> parameters, of |-> s, by |-> "forwardMatrixI"]
<1>2. /\ Given(parameters, s, n) /\ n \in Nat \ {0}
      /\ FirstAlpha(s) = FirstWeights(parameters, "forwardMatrix", s)
      /\ FirstState = FirstWeights(parameters, "forwardMatrixI", s)
  BY <1>0, SequencesType
<1>3. << >> \in Seq(Shown)
  OBVIOUS
<1>7. Given(parameters, s, Len(s)) /\ Len(s) > 0
  BY <1>2
<1>4. /\ Scaled(ForwardColumns(FirstAlpha(s), s)) \in Seq(Shown)
      /\ Fore(was, Scaled(ForwardColumns(FirstAlpha(s), s)))
  <2> DEFINE c == ForwardColumns(FirstAlpha(s), s)
  <2>1. /\ Scaled(c) \in Seq(Shown)
        /\ \A f : f = [model |-> parameters, of |-> s, by |-> "forwardMatrix"] => Fore(f, Scaled(c))
    BY <1>2, <1>3, <1>7, ForwardWritten, Zenon
  <2> HIDE DEF c
  <2> QED
    BY <2>1 DEF c
<1>5. \A rest \in Seq(Shown) :
        /\ Scaled(ForwardColumns(FirstState, s)) \o rest \in Seq(Shown)
        /\ Fore(wasI, Scaled(ForwardColumns(FirstState, s)) \o rest)
  <2> SUFFICES ASSUME NEW rest \in Seq(Shown)
               PROVE  /\ Scaled(ForwardColumns(FirstState, s)) \o rest \in Seq(Shown)
                      /\ Fore(wasI, Scaled(ForwardColumns(FirstState, s)) \o rest)
    OBVIOUS
  <2> DEFINE c == ForwardColumns(FirstState, s)
  <2>1. /\ Scaled(c) \o rest \in Seq(Shown)
        /\ \A f : f = [model |-> parameters, of |-> s, by |-> "forwardMatrixI"] =>
             Fore(f, Scaled(c) \o rest)
    BY <1>2, <1>7, ForwardWritten, Zenon
  <2> HIDE DEF c
  <2> QED
    BY <2>1 DEF c
<1> HIDE DEF was, wasI
<1>6. HmmInv' <=> /\ parameters' \in Models /\ alpha' \in Seq(Shown)
                  /\ forward' # Nobody => Fore(forward', alpha')
                  /\ backward' # Nobody => Aft(backward', beta') /\ Fits(backward', beta')
  BY DEF HmmInv, Nobody, Shown, ColumnType, NoColumn, StateNumbers
<1>12. CASE ForwardMatrix(s)
  <2>1. /\ alpha' = Scaled(ForwardColumns(FirstAlpha(s), s)) /\ forward' = was
        /\ UNCHANGED <<parameters, beta, backward>>
    BY <1>12 DEF ForwardMatrix, was
  <2> QED
    BY <1>0, <1>4, <1>6, <2>1
<1>13. CASE ForwardMatrixI(s)
  <2>1. UNCHANGED <<parameters, beta, backward>>
    BY <1>13 DEF ForwardMatrixI
  <2>2. CASE Len(alpha) > Len(s)
    <3> DEFINE rest == SubSeq(alpha, Len(s) + 2, Len(alpha))
    <3>1. alpha' = Scaled(ForwardColumns(FirstState, s)) \o rest /\ forward' = wasI
      BY <1>13, <2>2 DEF ForwardMatrixI, wasI
    <3>2. rest \in Seq(Shown)
      BY <1>0, <1>2, <2>2
    <3> HIDE DEF rest
    <3>3. alpha' \in Seq(Shown) /\ Fore(wasI, alpha')
      BY <1>5, <3>1, <3>2
    <3> QED
      BY <1>0, <1>6, <2>1, <3>1, <3>3
  <2>3. CASE ~(Len(alpha) > Len(s))
    <3>1. UNCHANGED <<alpha, forward>>
      BY <1>13, <2>3 DEF ForwardMatrixI
    <3> QED
      BY <1>0, <1>6, <2>1, <3>1
  <2> QED
    BY <2>2, <2>3
<1>14. CASE BackwardMatrix(s)
  <2>1. UNCHANGED <<parameters, alpha, forward>>
    BY <1>14 DEF BackwardMatrix
  <2>2. CASE Len(alpha) > Len(s)
    <3> DEFINE back == [model |-> parameters, of |-> s, scaled |-> forward]
    <3>1. beta' = Rescaled(BackwardColumns(s), alpha) /\ backward' = back
      BY <1>14, <2>2 DEF BackwardMatrix
    <3>2. \A b : b = [model |-> parameters, of |-> s, scaled |-> forward] =>
            /\ Aft(b, Rescaled(BackwardColumns(s), alpha))
            /\ Fits(b, Rescaled(BackwardColumns(s), alpha))
      BY <1>0, <1>7, BackwardWritten, Zenon
    <3>3. Aft(back, beta') /\ Fits(back, beta')
      BY <3>1, <3>2
    <3> HIDE DEF back
    <3> QED
      BY <1>0, <1>6, <2>1, <3>1, <3>3
  <2>3. CASE ~(Len(alpha) > Len(s))
    <3>1. UNCHANGED <<beta, backward>>
      BY <1>14, <2>3 DEF BackwardMatrix
    <3> QED
      BY <1>0, <1>6, <2>1, <3>1
  <2> QED
    BY <2>2, <2>3
<1>15. CASE Likelyhood(s)
  <2> DEFINE back == [model |-> parameters, of |-> s, scaled |-> was]
             a == Scaled(ForwardColumns(FirstAlpha(s), s))
  <2>1. /\ alpha' = a /\ forward' = was
        /\ beta' = Rescaled(BackwardColumns(s), a) /\ backward' = back
        /\ parameters' = parameters
    BY <1>15 DEF Likelyhood, was
  <2> HIDE DEF a
  <2>2. a \in Seq(Shown) /\ Fore(was, a)
    BY <1>4 DEF a
  <2>4. \A b : b = [model |-> parameters, of |-> s, scaled |-> was] =>
          Aft(b, Rescaled(BackwardColumns(s), a)) /\ Fits(b, Rescaled(BackwardColumns(s), a))
    BY <1>7, <2>2, BackwardWritten, Zenon
  <2>3. Aft(back, beta') /\ Fits(back, beta')
    BY <2>1, <2>4
  <2> HIDE DEF back
  <2> QED
    BY <1>0, <1>6, <2>1, <2>2, <2>3
<1> QED
  BY <1>12, <1>13, <1>14, <1>15

\* Matrices that satisfy it fit each other.
LEMMA HmmMeets == ASSUME DiscreteAssumption, HmmInv PROVE ForwardMeetsBackward
<1> SUFFICES ASSUME backward # Nobody, forward.model = backward.model, forward.of = backward.of
             PROVE  /\ \A i \in DOMAIN beta :
                         NoColumn \notin {alpha[i], beta[i]} =>
                           Total(Products(alpha, beta, i)) = Weight(forward)
                    /\ backward.scaled = forward =>
                         ((\E i \in DOMAIN beta : NoColumn \in {alpha[i], beta[i]})
                            <=> Weight(forward) = 0)
  BY DEF ForwardMeetsBackward, Products
<1> DEFINE m == backward.model
           s == backward.of
           n == Len(s)
           first == FirstWeights(m, forward.by, s)
<1>1. /\ Aft(backward, beta) /\ Fits(backward, beta)
      /\ Given(m, s, n) /\ n > 0 /\ n \in Nat /\ DOMAIN beta = 1 .. n + 1
  BY DEF HmmInv, Aft, Given
<1>2. forward # Nobody
  <2>1. s # <<>>
    BY <1>1
  <2> QED
    BY <2>1 DEF Nobody
<1>3. Fore(forward, alpha)
  BY <1>2 DEF HmmInv
<1>4. forward.model = m /\ forward.of = s
  OBVIOUS
<1>5. PICK a : ForwardOf(m, first, s, n, a) /\ \A i \in 1 .. n + 1 : alpha[i] = ShownOf(a, i)
  BY <1>3, <1>4 DEF Fore
<1>6. PICK b : BackwardOf(m, s, n, b) /\ \A i \in 1 .. n + 1 : beta[i] \in {NoColumn, b[i]}
  BY <1>1 DEF Aft
<1>7. first \in ColumnType
  BY <1>1, FirstType
<1>8. Weight(forward) = WeightFrom(m, first, s)
  BY <1>1, <1>4, WeightOf
<1>9. /\ \A k \in 1 .. n + 1 : alpha[k] = NoColumn => Weight(forward) = 0
      /\ Weight(forward) = 0 => alpha[n + 1] = NoColumn
  BY <1>3, <1>4, ForeMeans
<1>10. ASSUME NEW i \in 1 .. n + 1, NoColumn \notin {alpha[i], beta[i]}
       PROVE  Total(Products(alpha, beta, i)) = Weight(forward)
  <2>1. alpha[i] = a[i] /\ beta[i] = b[i]
    BY <1>5, <1>6, <1>10 DEF ShownOf
  <2>2. Products(alpha, beta, i) = Products(a, b, i)
    BY <2>1 DEF Products
  <2> HIDE DEF m, s, n, first
  <2>3. Total(Products(a, b, i)) = Sigma(a[n + 1], StateNumbers)
    BY <1>1, <1>5, <1>6, ColumnsMeet
  <2>4. WeightFrom(m, first, s) = Sigma(a[n + 1], StateNumbers)
    BY <1>1, <1>5, <1>7, WeightIs
  <2> QED
    BY <1>8, <2>2, <2>3, <2>4
<1>11. ASSUME backward.scaled = forward
       PROVE  (\E i \in 1 .. n + 1 : NoColumn \in {alpha[i], beta[i]}) <=> Weight(forward) = 0
  <2>1. \A i \in 1 .. n + 1 : beta[i] = NoColumn => Weight(forward) = 0
    BY <1>1, <1>11 DEF Fits
  <2>2. n + 1 \in 1 .. n + 1
    BY <1>1
  <2> HIDE DEF n
  <2> QED
    BY <1>9, <2>1, <2>2
<1> HIDE DEF m, s, n, first
<1> QED
  BY <1>1, <1>10, <1>11

\* The matrices are always what they were computed to be, for any model and any calls.
THEOREM ForwardBackward == HmmSpec => []HmmInv
<1> USE DiscreteAssumption
<1>1. HmmInit => HmmInv
  BY DEF HmmInit, HmmInv
<1>2. HmmInv /\ [HmmNext]_hmmVars => HmmInv'
  <2> SUFFICES ASSUME HmmInv, [HmmNext]_hmmVars PROVE HmmInv'
    OBVIOUS
  <2>1. CASE HmmNext
    BY <2>1, HmmStep
  <2>2. CASE UNCHANGED hmmVars
    BY <2>2 DEF hmmVars, HmmInv
  <2> QED
    BY <2>1, <2>2
<1> QED
  BY <1>1, <1>2, PTL DEF HmmSpec

\* The columns of the forward and the backward matrix fit as long as they are numbers, and give
\* the sum over all paths: of the sequence with its first symbol twice after forwardMatrix, and of
\* the sequence after a silent start in the first state after forwardMatrixI.  With the factors of
\* the sequence itself all of them are numbers unless that sum is zero, for any weights, zeros
\* among them (DHMM.forwardMatrix, forwardMatrixI, backwardMatrix, likelyhood).
THEOREM MatricesMeet == HmmSpec => []ForwardMeetsBackward
<1>1. HmmInv => ForwardMeetsBackward
  BY DiscreteAssumption, HmmMeets
<1> QED
  BY <1>1, ForwardBackward, PTL
-----------------------------------------------------------------------------
(* The Markov chain.                                                       *)

\* The sum over the first i of a row.
UpTo(row, i) == Sigma(row, 1 .. i)

\* Sums over the beginnings of a row, and its whole.
LEMMA UpToIs ==
  ASSUME NEW n \in Nat, NEW row \in [1 .. n -> Int]
  PROVE  /\ UpTo(row, 0) = 0
         /\ \A i \in 0 .. n : UpTo(row, i) \in Int
         /\ \A i \in 1 .. n : UpTo(row, i) = row[i] + UpTo(row, i - 1)
         /\ RowSum(row) = UpTo(row, n)
<1>1. Numbers(row, 1 .. n)
  BY TotalIs
<1>2. 1 .. 0 = {}
  OBVIOUS
<1>3. UpTo(row, 0) = 0
  BY <1>2, SigmaEmpty DEF UpTo
<1>4. ASSUME NEW i \in 0 .. n PROVE UpTo(row, i) \in Int
  <2>1. 1 .. i \in SUBSET (1 .. n)
    OBVIOUS
  <2> QED
    BY <1>1, <2>1, NumbersBelow, SigmaInt DEF UpTo
<1>5. ASSUME NEW i \in 1 .. n PROVE UpTo(row, i) = row[i] + UpTo(row, i - 1)
  <2>1. 1 .. i \in SUBSET (1 .. n) /\ i \in 1 .. i /\ (1 .. i) \ {i} = 1 .. i - 1
    BY TopOf
  <2> QED
    BY <1>1, <2>1, NumbersBelow, SigmaStep DEF UpTo
<1>6. RowSum(row) = Total(row)
  BY DEF RowSum, Total
<1> QED
  BY <1>3, <1>4, <1>5, <1>6, TotalIs DEF UpTo

\* The sum from the second on.
LEMMA RestOfRow ==
  ASSUME ChainAssumption, NEW row \in Rows, NEW i \in ChainNumbers
  PROVE  RowSum(SubSeq(row, 2, i)) = UpTo(row, i) - row[1] /\ UpTo(row, i) \in Int
<1>0. ChainStates \in Nat \ {0} /\ row \in [1 .. ChainStates -> Int] /\ i \in 1 .. ChainStates
      /\ row[1] \in Int
  BY DEF ChainAssumption, Rows, ChainNumbers
<1>1. /\ \A e \in 0 .. ChainStates : UpTo(row, e) \in Int
      /\ \A e \in 1 .. ChainStates : UpTo(row, e) = row[e] + UpTo(row, e - 1)
      /\ UpTo(row, 0) = 0
  BY <1>0, UpToIs
<1> DEFINE part == SubSeq(row, 2, i)
           n == i - 1
<1>2. n \in Nat /\ part \in [1 .. n -> Int] /\ \A q \in 1 .. n : part[q] = row[q + 1]
  <2>1. row \in Seq(Int) /\ Len(row) = ChainStates
    BY <1>0
  <2>2. n \in Nat /\ \A q \in 1 .. n : q + 1 \in 1 .. ChainStates
    BY <1>0
  <2>3. part = [q \in 1 .. n |-> row[q + 1]]
    <3>1. part = [q \in 1 .. (i - 2 + 1) |-> row[2 + q - 1]]
      BY <1>0, <2>1
    <3>2. i - 2 + 1 = i - 1 /\ \A q \in 1 .. n : 2 + q - 1 = q + 1
      BY <1>0
    <3> QED
      BY <3>1, <3>2
  <2> HIDE DEF part, n
  <2> QED
    BY <1>0, <2>2, <2>3
<1> HIDE DEF part
<1>3. /\ UpTo(part, 0) = 0 /\ RowSum(part) = UpTo(part, n)
      /\ \A e \in 0 .. n : UpTo(part, e) \in Int
      /\ \A e \in 1 .. n : UpTo(part, e) = part[e] + UpTo(part, e - 1)
  BY <1>2, UpToIs
<1> DEFINE T == {e \in 0 .. n : UpTo(part, e) = UpTo(row, e + 1) - row[1]}
<1>4. 0 \in T
  <2>1. UpTo(row, 1) = row[1] + UpTo(row, 0)
    BY <1>0, <1>1
  <2> QED
    BY <1>0, <1>1, <1>3, <2>1
<1>5. ASSUME NEW e \in 1 .. n, e - 1 \in T PROVE e \in T
  <2>1. e + 1 \in 1 .. ChainStates /\ e \in 0 .. ChainStates /\ e \in 0 .. n /\ e - 1 \in 0 .. n
    BY <1>0
  <2>2. UpTo(row, e + 1) = row[e + 1] + UpTo(row, e + 1 - 1) /\ e + 1 - 1 = e /\ e - 1 + 1 = e
    BY <1>1, <2>1
  <2>3. UpTo(part, e) = row[e + 1] + UpTo(part, e - 1)
    BY <1>2, <1>3
  <2>4. UpTo(part, e - 1) = UpTo(row, e) - row[1]
    BY <1>5, <2>2
  <2>5. row[e + 1] \in Int /\ UpTo(row, e) \in Int
    BY <1>0, <1>1, <2>1
  <2>6. UpTo(row, e + 1) = row[e + 1] + UpTo(row, e)
    BY <2>2
  <2> DEFINE x == UpTo(row, e)
             y == UpTo(row, e + 1)
             z == UpTo(part, e)
             v == UpTo(part, e - 1)
  <2>7. z = y - row[1]
    <3>1. z = row[e + 1] + v /\ v = x - row[1] /\ y = row[e + 1] + x /\ x \in Int /\ row[e + 1] \in Int
      BY <2>3, <2>4, <2>5, <2>6
    <3> HIDE DEF x, y, z, v
    <3> QED
      BY <1>0, <3>1
  <2> QED
    BY <2>1, <2>7
<1>6. n \in T
  <2> HIDE DEF T
  <2>1. 0 .. n \subseteq T
    BY <1>2, <1>4, <1>5, Stepwise
  <2> QED
    BY <1>2, <2>1
<1>7. n + 1 = i
  BY <1>0
<1>8. UpTo(row, i) \in Int
  BY <1>0, <1>1
<1> QED
  BY <1>3, <1>6, <1>7, <1>8 DEF part

\* What is drawn from a row: outside, if the corner is too small; else a possible state or the
\* first, and that by a zero or by the corner.
LEMMA Drawn ==
  ASSUME ChainAssumption, NEW row \in Rows, NEW corner \in 0 .. Denominator, NEW u \in 0 .. Denominator
  PROVE  /\ InitialRand(corner, row, u) \in 1 .. ChainStates + 1
         /\ InitialRand(corner, row, u) > ChainStates => row[1] > corner
         /\ InitialRand(corner, row, u) <= ChainStates =>
              \/ row[InitialRand(corner, row, u)] > 0
              \/ InitialRand(corner, row, u) = 1 /\ (u = 0 \/ corner > 0)
<1>0. /\ ChainStates \in Nat \ {0} /\ Denominator \in Nat \ {0}
      /\ row \in [1 .. ChainStates -> 0 .. Denominator] /\ RowSum(row) = Denominator
      /\ row \in [1 .. ChainStates -> Int]
  BY DEF ChainAssumption, Rows, ChainNumbers
<1> DEFINE sum(i) == corner + RowSum(SubSeq(row, 2, i))
           d == InitialRand(corner, row, u)
<1>1. \A i \in ChainNumbers : sum(i) = corner + (UpTo(row, i) - row[1]) /\ UpTo(row, i) \in Int
  BY RestOfRow
<1>2. /\ \A i \in 1 .. ChainStates : UpTo(row, i) = row[i] + UpTo(row, i - 1)
      /\ UpTo(row, 0) = 0 /\ UpTo(row, ChainStates) = Denominator
  BY <1>0, UpToIs
<1>3. d = IF \A i \in ChainNumbers : u > sum(i) THEN ChainStates + 1
          ELSE CHOOSE i \in ChainNumbers : ~(u > sum(i)) /\ \A j \in 1 .. i - 1 : u > sum(j)
  BY DEF InitialRand, Passes
<1> HIDE DEF sum, d
<1>4. \A i \in ChainNumbers : sum(i) \in Int /\ row[i] \in 0 .. Denominator
  BY <1>0, <1>1 DEF ChainNumbers
<1>5. CASE \A i \in ChainNumbers : u > sum(i)
  <2>1. d = ChainStates + 1
    BY <1>3, <1>5
  <2>2. ChainStates \in ChainNumbers /\ 1 \in ChainNumbers
    BY <1>0 DEF ChainNumbers
  <2>3. u > corner + (Denominator - row[1])
    BY <1>1, <1>2, <1>5, <2>2
  <2>4. row[1] > corner
    BY <1>0, <1>4, <2>2, <2>3
  <2> QED
    BY <1>0, <2>1, <2>4 DEF d
<1>6. CASE ~ \A i \in ChainNumbers : u > sum(i)
  <2>1. \E i \in ChainNumbers : ~(u > sum(i)) /\ \A j \in 1 .. i - 1 : u > sum(j)
    <3> DEFINE T == {i \in ChainNumbers : ~(u > sum(i))}
    <3>1. T \in SUBSET Nat /\ T # {}
      BY <1>6 DEF ChainNumbers
    <3>2. PICK i \in T : \A j \in T : i <= j
      <4> HIDE DEF T
      <4> QED
        BY <3>1, NatMin
    <3>3. \A j \in 1 .. i - 1 : j \in ChainNumbers /\ j < i
      BY <1>0 DEF ChainNumbers
    <3>4. ASSUME NEW j \in 1 .. i - 1, ~(u > sum(j)) PROVE FALSE
      <4>1. j \in T
        BY <3>3, <3>4
      <4>2. i <= j /\ j < i /\ i \in Nat /\ j \in Nat
        <5>1. i \in Nat
          BY <3>1
        <5> HIDE DEF T
        <5> QED
          BY <3>2, <3>3, <4>1, <5>1
      <4> HIDE DEF T
      <4> QED
        BY <4>2
    <3>5. i \in ChainNumbers /\ ~(u > sum(i))
      OBVIOUS
    <3> HIDE DEF T
    <3> QED
      BY <3>4, <3>5
  <2>2. d \in ChainNumbers /\ ~(u > sum(d)) /\ \A j \in 1 .. d - 1 : u > sum(j)
    BY <1>3, <1>6, <2>1
  <2>3. d \in 1 .. ChainStates /\ sum(d) \in Int /\ row[d] \in Int /\ u <= sum(d)
    BY <1>0, <1>4, <2>2 DEF ChainNumbers
  <2>4. CASE d = 1
    <3>1. sum(1) = corner
      BY <1>0, <1>1, <1>2, <2>2, <2>4
    <3>2. u = 0 \/ corner > 0
      BY <2>3, <2>4, <3>1
    <3> QED
      BY <1>0, <2>3, <2>4, <3>2 DEF d
  <2>5. CASE d # 1
    <3>1. d - 1 \in 1 .. d - 1 /\ d - 1 \in ChainNumbers
      BY <1>0, <2>3, <2>5 DEF ChainNumbers
    <3>2. sum(d - 1) = corner + (UpTo(row, d - 1) - row[1]) /\ UpTo(row, d - 1) \in Int
      BY <1>1, <3>1
    <3>3. sum(d) = corner + ((row[d] + UpTo(row, d - 1)) - row[1])
      <4>1. sum(d) = corner + (UpTo(row, d) - row[1])
        BY <1>1, <2>2
      <4>2. UpTo(row, d) = row[d] + UpTo(row, d - 1)
        BY <1>2, <2>3
      <4>3. UpTo(row, d) - row[1] = (row[d] + UpTo(row, d - 1)) - row[1]
        BY <4>2, Zenon
      <4> QED
        BY <4>1, <4>3, Zenon
    <3>4. u > sum(d - 1)
      BY <2>2, <3>1
    <3>5. row[1] \in Int
      BY <1>0
    <3>6. row[d] > 0
      BY <2>3, <3>2, <3>3, <3>4, <3>5
    <3> QED
      BY <1>0, <2>3, <3>6 DEF d
  <2> QED
    BY <2>4, <2>5
<1> QED
  BY <1>5, <1>6
\* A sequence as it may be drawn, with a zero among the numbers or none: only its last state may
\* be outside, and that if some row starts with more than the first; the others have weight, but
\* for the first state.
Drawing(s, zero) ==
  /\ \A q \in 1 .. Len(s) - 1 : s[q] <= ChainStates
  /\ \A q \in 1 .. Len(s) : s[q] > ChainStates =>
       \E i \in ChainNumbers : transition[i][1] > transition[1][1]
  /\ Len(s) > 0 =>
       /\ s[1] <= ChainStates
       /\ initial[s[1]] > 0 \/ (s[1] = 1 /\ zero)
  /\ \A q \in 1 .. Len(s) - 1 :
       s[q + 1] <= ChainStates =>
         \/ transition[s[q]][s[q + 1]] > 0
         \/ s[q + 1] = 1 /\ (zero \/ transition[1][1] > 0)
Drawings(zero) == {s \in Seq(1 .. ChainStates + 1) : Drawing(s, zero)}

\* One step of the loop of generateSequence.
Draw(s, u) ==
  IF s = <<>> THEN <<InitialRand(initial[1], initial, u)>>
  ELSE IF Last(s) > ChainStates THEN s
  ELSE Append(s, InitialRand(transition[1][1], transition[Last(s)], u))

ChainType == transition \in [ChainNumbers -> Rows] /\ initial \in Rows

\* The corners that sums start from are among the weights.
LEMMA Corners ==
  ASSUME ChainAssumption, ChainType
  PROVE  /\ initial[1] \in 0 .. Denominator
         /\ \A i \in ChainNumbers : transition[i] \in Rows /\ transition[i][1] \in 0 .. Denominator
         /\ transition[1][1] \in 0 .. Denominator
  BY DEF ChainAssumption, ChainType, Rows, ChainNumbers

\* One step of the loop draws what may be drawn.
LEMMA DrawGoesOn ==
  ASSUME ChainAssumption, ChainType, NEW zero \in BOOLEAN, NEW s \in Drawings(zero),
         NEW u \in 0 .. Denominator, u = 0 => zero
  PROVE  Draw(s, u) \in Drawings(zero)
<1>0. ChainStates \in Nat \ {0} /\ s \in Seq(1 .. ChainStates + 1) /\ Drawing(s, zero)
  BY DEF ChainAssumption, Drawings
<1>1. CASE s = <<>>
  <2> DEFINE d == InitialRand(initial[1], initial, u)
  <2>1. /\ d \in 1 .. ChainStates + 1 /\ ~(d > ChainStates)
        /\ initial[d] > 0 \/ (d = 1 /\ zero)
    <3>1. initial \in Rows /\ initial[1] \in 0 .. Denominator
      BY Corners DEF ChainType
    <3>2. /\ d \in 1 .. ChainStates + 1 /\ (d > ChainStates => initial[1] > initial[1])
          /\ (d <= ChainStates => initial[d] > 0 \/ (d = 1 /\ (u = 0 \/ initial[1] > 0)))
      BY <3>1, Drawn
    <3> HIDE DEF d
    <3> QED
      BY <1>0, <3>1, <3>2
  <2>2. Draw(s, u) = <<d>>
    BY <1>1 DEF Draw
  <2> HIDE DEF d
  <2> QED
    BY <1>0, <2>1, <2>2 DEF Drawings, Drawing
<1>2. CASE s # <<>> /\ Last(s) > ChainStates
  BY <1>2 DEF Draw
<1>3. CASE s # <<>> /\ ~(Last(s) > ChainStates)
  <2> DEFINE n == Len(s)
             r == s[n]
             d == InitialRand(transition[1][1], transition[r], u)
             t == Append(s, d)
  <2>1. n \in Nat \ {0} /\ r \in 1 .. ChainStates /\ r = Last(s)
    BY <1>0, <1>3 DEF Last
  <2>2. r \in ChainNumbers
    BY <2>1 DEF ChainNumbers
  <2>3. /\ d \in 1 .. ChainStates + 1
        /\ d > ChainStates => transition[r][1] > transition[1][1]
        /\ d <= ChainStates =>
             transition[r][d] > 0 \/ (d = 1 /\ (zero \/ transition[1][1] > 0))
    <3>1. transition[r] \in Rows /\ transition[1][1] \in 0 .. Denominator
      BY <2>2, Corners
    <3> HIDE DEF r
    <3> QED
      BY <3>1, Drawn
  <2>4. Draw(s, u) = t
    BY <1>3, <2>1 DEF Draw
  <2> HIDE DEF d
  <2>5. /\ t \in Seq(1 .. ChainStates + 1) /\ Len(t) = n + 1 /\ t[n + 1] = d
        /\ \A q \in 1 .. n : t[q] = s[q]
    BY <1>0, <2>3
  <2> HIDE DEF t
  <2>14. /\ \A q \in 1 .. n - 1 : s[q] <= ChainStates
         /\ \A q \in 1 .. n - 1 :
              s[q + 1] <= ChainStates =>
                \/ transition[s[q]][s[q + 1]] > 0
                \/ s[q + 1] = 1 /\ (zero \/ transition[1][1] > 0)
    BY <1>0 DEF Drawing
  <2>15. s[n] <= ChainStates
    BY <2>1
  <2>6. \A q \in 1 .. n : t[q] <= ChainStates
    <3> SUFFICES ASSUME NEW q \in 1 .. n PROVE s[q] <= ChainStates
      BY <2>5
    <3>1. q \in 1 .. n - 1 \/ q = n
      BY <2>1
    <3> HIDE DEF n
    <3> QED
      BY <2>14, <2>15, <3>1
  <2>7. \A q \in 1 .. n + 1 : t[q] > ChainStates =>
          \E i \in ChainNumbers : transition[i][1] > transition[1][1]
    <3> SUFFICES ASSUME NEW q \in 1 .. n + 1, t[q] > ChainStates
                 PROVE  \E i \in ChainNumbers : transition[i][1] > transition[1][1]
      OBVIOUS
    <3>1. q = n + 1
      <4>1. q \in 1 .. n => t[q] \in Int /\ t[q] <= ChainStates
        BY <1>0, <2>5, <2>6
      <4> QED
        BY <1>0, <2>1, <4>1
    <3> QED
      BY <2>2, <2>3, <2>5, <3>1
  <2>8. t[1] <= ChainStates /\ (initial[t[1]] > 0 \/ (t[1] = 1 /\ zero))
    <3>1. 1 \in 1 .. n /\ n > 0
      BY <2>1
    <3> QED
      BY <1>0, <2>5, <3>1 DEF Drawing
  <2>9. ASSUME NEW q \in 1 .. n, t[q + 1] <= ChainStates
        PROVE  \/ transition[t[q]][t[q + 1]] > 0
               \/ t[q + 1] = 1 /\ (zero \/ transition[1][1] > 0)
    <3>1. CASE q = n
      BY <2>3, <2>5, <2>9, <3>1 DEF r
    <3>2. CASE q \in 1 .. n - 1
      <4>1. q + 1 \in 1 .. n
        BY <2>1, <3>2
      <4>2. t[q] = s[q] /\ t[q + 1] = s[q + 1]
        BY <2>5, <4>1
      <4> HIDE DEF n
      <4> QED
        BY <2>9, <2>14, <3>2, <4>2
    <3> QED
      BY <2>1, <3>1, <3>2
  <2>10. n + 1 - 1 = n /\ n + 1 > 0
    BY <2>1
  <2> HIDE DEF n, r
  <2>11. Len(t) - 1 = n /\ Len(t) = n + 1
    BY <2>1, <2>5
  <2>12. \A q \in 1 .. n :
           t[q + 1] <= ChainStates =>
             \/ transition[t[q]][t[q + 1]] > 0
             \/ t[q + 1] = 1 /\ (zero \/ transition[1][1] > 0)
    BY <2>9
  <2>13. Drawing(t, zero)
    BY <2>6, <2>7, <2>8, <2>11, <2>12 DEF Drawing
  <2> QED
    BY <2>4, <2>5, <2>13 DEF Drawings
<1> QED
  BY <1>1, <1>2, <1>3

\* What generateSequence leaves.
Generated(us) ==
  FoldLeft(LAMBDA s, u :
             IF s = <<>> THEN <<InitialRand(initial[1], initial, u)>>
             ELSE IF Last(s) > ChainStates THEN s
             ELSE Append(s, InitialRand(transition[1][1], transition[Last(s)], u)),
           <<>>, us)

\* The loop of generateSequence leaves what may be drawn.
LEMMA GeneratedDrawing ==
  ASSUME ChainAssumption, ChainType, NEW n \in Nat, NEW us \in [1 .. n -> 0 .. Denominator],
         NEW zero \in BOOLEAN, \A i \in 1 .. n : us[i] = 0 => zero
  PROVE  Generated(us) \in Drawings(zero)
<1> DEFINE S == DOMAIN us
           D == Drawings(zero)
           base == << >>
           next == [z \in (1 .. n) \X D |-> Draw(z[2], us[z[1]])]
           Iter(g) == [A \in SUBSET S |->
                         IF A = {} THEN base ELSE Draw(g[A \ {Max(A)}], us[Max(A)])]
           R == CHOOSE g : g = Iter(g)
<1>1. S = 1 .. n
  OBVIOUS
<1>2. ASSUME NEW i \in 1 .. n, NEW w \in D PROVE Draw(w, us[i]) \in D
  <2>1. us[i] \in 0 .. Denominator /\ (us[i] = 0 => zero)
    OBVIOUS
  <2> QED
    BY <2>1, DrawGoesOn
<1>3. next \in [(1 .. n) \X D -> D]
  <2> SUFFICES ASSUME NEW z \in (1 .. n) \X D PROVE Draw(z[2], us[z[1]]) \in D
    OBVIOUS
  <2>1. z[1] \in 1 .. n /\ z[2] \in D
    OBVIOUS
  <2> QED
    BY <1>2, <2>1
<1>4. base \in D
  BY DEF Drawings, Drawing, ChainAssumption
<1>5. PICK g : LeftTo(n, D, base, next, g)
  <2>1. Steps(n, D, base, next)
    BY <1>3, <1>4 DEF Steps
  <2> HIDE DEF next, base, D
  <2> QED
    BY <2>1, LeftFold
<1>6. g = Iter(g)
  <2>1. /\ g = [A \in SUBSET (1 .. n) |-> g[A]] /\ g[{}] = base
        /\ \A A \in SUBSET (1 .. n) : A # {} =>
             /\ Max(A) \in 1 .. n /\ g[A \ {Max(A)}] \in D
             /\ g[A] = next[<<Max(A), g[A \ {Max(A)}]>>]
    BY <1>5 DEF LeftTo
  <2>2. \A i \in 1 .. n : \A w \in D : next[<<i, w>>] = Draw(w, us[i])
    OBVIOUS
  <2> DEFINE Step(A) == Draw(g[A \ {Max(A)}], us[Max(A)])
  <2>3. ASSUME NEW A \in SUBSET (1 .. n), A # {} PROVE g[A] = Step(A)
    <3>1. /\ Max(A) \in 1 .. n /\ g[A \ {Max(A)}] \in D
          /\ g[A] = next[<<Max(A), g[A \ {Max(A)}]>>]
      BY <2>1, <2>3
    <3> HIDE DEF next, D
    <3> QED
      BY <2>2, <3>1
  <2>4. Iter(g) = [A \in SUBSET (1 .. n) |-> IF A = {} THEN base ELSE Step(A)]
    BY <1>1
  <2> HIDE DEF Step, Iter
  <2> QED
    BY <2>1, <2>3, <2>4
<1>7. R = Iter(R)
  <2>1. \E h : h = Iter(h)
    BY <1>6
  <2> HIDE DEF Iter
  <2> QED
    BY <2>1
<1>8. Generated(us) = R[S]
  BY DEF Generated, FoldLeft, MapThenFoldSet, Draw
<1> HIDE DEF R
<1>9. /\ R[{}] = base
      /\ \A A \in SUBSET (1 .. n) : A # {} =>
           R[A] = Draw(R[A \ {Max(A)}], us[Max(A)])
  BY <1>1, <1>7
<1> HIDE DEF S, base, D
<1> DEFINE T == {e \in 0 .. n : R[1 .. e] \in D}
<1>10. 0 \in T
  <2>1. 1 .. 0 = {}
    OBVIOUS
  <2> QED
    BY <1>4, <1>9, <2>1
<1>11. ASSUME NEW e \in 1 .. n, e - 1 \in T PROVE e \in T
  <2>1. /\ 1 .. e \in SUBSET (1 .. n) /\ 1 .. e # {} /\ Max(1 .. e) = e
        /\ (1 .. e) \ {e} = 1 .. e - 1
    BY TopOf
  <2>2. R[1 .. e] = Draw(R[1 .. e - 1], us[e])
    BY <1>9, <2>1
  <2>3. R[1 .. e - 1] \in D
    BY <1>11
  <2> QED
    BY <1>2, <2>2, <2>3
<1>12. n \in T
  <2> HIDE DEF T
  <2>1. 0 .. n \subseteq T
    BY <1>10, <1>11, Stepwise
  <2> QED
    BY <2>1
<1> QED
  BY <1>1, <1>8, <1>12 DEF D

\* A sequence of states with weights has a probability.
LEMMA DrawingIsPossible ==
  ASSUME ChainAssumption, ChainType, NEW s \in Seq(1 .. ChainStates + 1), s # <<>>,
         \A q \in DOMAIN s : ~(s[q] > ChainStates),
         initial[s[1]] > 0, \A q \in 1 .. Len(s) - 1 : transition[s[q]][s[q + 1]] > 0
  PROVE  Probability(s) > 0
<1> DEFINE n == Len(s) - 1
           ids == [i \in 1 .. Len(s) - 1 |-> i]
           S == DOMAIN ids
           D == Nat \ {0}
           base == initial[s[1]]
           Factor(w, i) == w * transition[s[i]][s[i + 1]]
           next == [z \in (1 .. n) \X D |-> Factor(z[2], z[1])]
           Iter(g) == [A \in SUBSET S |->
                         IF A = {} THEN base ELSE Factor(g[A \ {Max(A)}], ids[Max(A)])]
           R == CHOOSE g : g = Iter(g)
<1>0. ChainStates \in Nat \ {0} /\ s \in Seq(1 .. ChainStates + 1)
  BY DEF ChainAssumption
<1>1. n \in Nat /\ S = 1 .. n /\ \A i \in 1 .. n : ids[i] = i
  BY <1>0
<1>01. \A q \in 1 .. n + 1 : s[q] \in ChainNumbers
  BY <1>0 DEF ChainNumbers
<1>2. ASSUME NEW i \in 1 .. n, NEW w \in D PROVE Factor(w, i) \in D
  <2> DEFINE x == transition[s[i]][s[i + 1]]
  <2>1. s[i] \in ChainNumbers /\ s[i + 1] \in ChainNumbers
    BY <1>1, <1>01
  <2>2. x \in Nat
    BY <2>1 DEF ChainType, Rows
  <2>3. x > 0
    OBVIOUS
  <2>4. Factor(w, i) = w * x
    OBVIOUS
  <2> HIDE DEF x, Factor
  <2> QED
    BY <2>2, <2>3, <2>4
<1>3. next \in [(1 .. n) \X D -> D]
  <2> SUFFICES ASSUME NEW z \in (1 .. n) \X D PROVE Factor(z[2], z[1]) \in D
    OBVIOUS
  <2>1. z[1] \in 1 .. n /\ z[2] \in D
    OBVIOUS
  <2> HIDE DEF Factor
  <2> QED
    BY <1>2, <2>1
<1>4. base \in D
  <2>1. Len(s) > 0 /\ 1 \in 1 .. n + 1
    BY <1>0, <1>1
  <2>2. initial[s[1]] > 0 /\ initial[s[1]] \in Nat
    BY <1>0, <1>01, <2>1 DEF ChainType, Rows
  <2> QED
    BY <2>2
<1>5. PICK g : LeftTo(n, D, base, next, g)
  <2>1. Steps(n, D, base, next)
    BY <1>1, <1>3, <1>4 DEF Steps
  <2> HIDE DEF next, base, D, n
  <2> QED
    BY <2>1, LeftFold
<1>6. g = Iter(g)
  <2>1. /\ g = [A \in SUBSET (1 .. n) |-> g[A]] /\ g[{}] = base
        /\ \A A \in SUBSET (1 .. n) : A # {} =>
             /\ Max(A) \in 1 .. n /\ g[A \ {Max(A)}] \in D
             /\ g[A] = next[<<Max(A), g[A \ {Max(A)}]>>]
    BY <1>5 DEF LeftTo
  <2>2. \A i \in 1 .. n : \A w \in D : next[<<i, w>>] = Factor(w, i)
    OBVIOUS
  <2> DEFINE Step(A) == Factor(g[A \ {Max(A)}], ids[Max(A)])
  <2>3. ASSUME NEW A \in SUBSET (1 .. n), A # {} PROVE g[A] = Step(A)
    <3>1. /\ Max(A) \in 1 .. n /\ g[A \ {Max(A)}] \in D
          /\ g[A] = next[<<Max(A), g[A \ {Max(A)}]>>]
      BY <2>1, <2>3
    <3> HIDE DEF next, S, ids, Factor, D, n
    <3>2. ids[Max(A)] = Max(A)
      BY <1>1, <3>1
    <3> QED
      BY <2>2, <3>1, <3>2
  <2>4. Iter(g) = [A \in SUBSET (1 .. n) |-> IF A = {} THEN base ELSE Step(A)]
    <3> HIDE DEF ids, Factor, n
    <3> QED
      BY <1>1
  <2> HIDE DEF Step, Iter
  <2> QED
    BY <2>1, <2>3, <2>4
<1>7. R = Iter(R)
  <2>1. \E h : h = Iter(h)
    BY <1>6
  <2> HIDE DEF Iter
  <2> QED
    BY <2>1
<1>8. Probability(s) = R[S]
  BY DEF Probability, FoldLeft, MapThenFoldSet
<1> HIDE DEF R, ids, n
<1>9. /\ R[{}] = base
      /\ \A A \in SUBSET (1 .. n) : A # {} =>
           R[A] = Factor(R[A \ {Max(A)}], ids[Max(A)])
  BY <1>1, <1>7
<1> HIDE DEF S, base, D, Factor
<1> DEFINE T == {e \in 0 .. n : R[1 .. e] \in D}
<1>10. 0 \in T
  <2>1. 1 .. 0 = {}
    OBVIOUS
  <2> QED
    BY <1>1, <1>4, <1>9, <2>1
<1>11. ASSUME NEW e \in 1 .. n, e - 1 \in T PROVE e \in T
  <2>1. /\ 1 .. e \in SUBSET (1 .. n) /\ 1 .. e # {} /\ Max(1 .. e) = e
        /\ (1 .. e) \ {e} = 1 .. e - 1
    BY <1>1, TopOf
  <2>2. R[1 .. e] = Factor(R[1 .. e - 1], e)
    BY <1>1, <1>9, <2>1
  <2>3. R[1 .. e - 1] \in D
    BY <1>11
  <2> QED
    BY <1>2, <2>2, <2>3
<1>12. n \in T
  <2> HIDE DEF T
  <2>1. 0 .. n \subseteq T
    BY <1>1, <1>10, <1>11, Stepwise
  <2> QED
    BY <1>1, <2>1
<1>13. R[1 .. n] \in Nat \ {0}
  BY <1>12 DEF D
<1> QED
  BY <1>1, <1>8, <1>13

\* What was generated could be drawn.
ChainInv ==
  /\ ChainType
  /\ zeroDrawn \in BOOLEAN
  /\ result \in Drawings(zeroDrawn)
  /\ outside = (\E i \in DOMAIN result : result[i] > ChainStates)

\* A new chain satisfies the invariant.
LEMMA ChainStarts == ASSUME ChainAssumption, ChainInit PROVE ChainInv
<1>1. ChainType /\ result = <<>> /\ outside = FALSE /\ zeroDrawn = FALSE
  BY DEF ChainInit, ChainType
<1>2. DOMAIN result = {} /\ Len(result) = 0 /\ result \in Seq(1 .. ChainStates + 1)
  BY <1>1
<1>3. 1 .. Len(result) = {} /\ 1 .. Len(result) - 1 = {} /\ ~(Len(result) > 0)
  BY <1>2
<1>4. Drawing(result, zeroDrawn)
  BY <1>3 DEF Drawing
<1>5. result \in Drawings(zeroDrawn)
  BY <1>2, <1>4 DEF Drawings
<1>6. outside = (\E i \in DOMAIN result : result[i] > ChainStates)
  BY <1>1, <1>2
<1> QED
  BY <1>1, <1>5, <1>6 DEF ChainInv

\* Every call keeps the invariant of the chain.
LEMMA ChainStep ==
  ASSUME ChainAssumption, ChainInv, ChainNext
  PROVE  ChainInv'
<1>1. CASE SetModel
  <2>1. ChainType' /\ result' = <<>> /\ zeroDrawn' = FALSE
    BY <1>1 DEF SetModel, ChainType, ChainNumbers, Rows
  <2>2. (result \in Drawings(zeroDrawn))'
    BY <2>1 DEF Drawings, Drawing, ChainAssumption
  <2>3. outside' = FALSE
    BY <1>1 DEF SetModel, ChainInv
  <2>4. DOMAIN result' = {}
    BY <2>1
  <2>5. outside' = (\E i \in DOMAIN result' : result'[i] > ChainStates)
    BY <2>3, <2>4
  <2> QED
    BY <2>1, <2>2, <2>5 DEF ChainInv
<1>2. ASSUME NEW n \in 1 .. ChainLength, Generate(n) PROVE ChainInv'
  <2>1. PICK us \in [1 .. n -> 0 .. Denominator] :
          result' = Generated(us) /\ zeroDrawn' = (\E i \in 1 .. n : us[i] = 0)
    BY <1>2 DEF Generate, Generated
  <2>2. n \in Nat /\ ChainType
    BY DEF ChainAssumption, ChainInv
  <2>3. zeroDrawn' \in BOOLEAN /\ result' \in Drawings(zeroDrawn')
    <3>1. zeroDrawn' \in BOOLEAN /\ \A i \in 1 .. n : us[i] = 0 => zeroDrawn'
      BY <2>1
    <3> QED
      BY <2>1, <2>2, <3>1, GeneratedDrawing
  <2>4. UNCHANGED <<transition, initial>>
    BY <1>2 DEF Generate
  <2>5. ChainType'
    BY <2>2, <2>4 DEF ChainType, Rows, ChainNumbers
  <2>6. (result \in Drawings(zeroDrawn))'
    BY <2>3, <2>4 DEF Drawings, Drawing, ChainNumbers
  <2>7. outside' = (\E i \in DOMAIN result' : result'[i] > ChainStates)
    BY <1>2 DEF Generate
  <2> QED
    BY <2>3, <2>5, <2>6, <2>7 DEF ChainInv
<1> QED
  BY <1>1, <1>2 DEF ChainNext

\* A chain that satisfies it generates what is possible.
LEMMA ChainMeans == ASSUME ChainAssumption, ChainInv PROVE GeneratedIsPossible
<1>1. result \in Seq(1 .. ChainStates + 1) /\ Drawing(result, zeroDrawn) /\ ChainType
  BY DEF ChainInv, Drawings
<1>2. outside => \E i \in ChainNumbers : transition[i][1] > transition[1][1]
  <2>1. DOMAIN result = 1 .. Len(result)
    BY <1>1
  <2>2. outside = \E q \in 1 .. Len(result) : result[q] > ChainStates
    BY <2>1 DEF ChainInv
  <2> QED
    BY <1>1, <2>2 DEF Drawing
<1>3. ASSUME result # <<>>, ~outside, Probability(result) = 0
      PROVE  \E q \in DOMAIN result :
               /\ WeightDrawn(q) = 0 /\ result[q] = 1
               /\ zeroDrawn \/ (q > 1 /\ transition[1][1] > 0)
  <2> DEFINE n == Len(result) - 1
  <2>1. /\ n \in Nat /\ Len(result) > 0 /\ DOMAIN result = 1 .. n + 1
        /\ \A q \in 1 .. n + 1 : result[q] \in 1 .. ChainStates /\ result[q] <= ChainStates
    BY <1>1, <1>3 DEF ChainInv, ChainAssumption
  <2>2. \/ initial[result[1]] = 0
        \/ \E q \in 1 .. n : transition[result[q]][result[q + 1]] = 0
    <3>1. \/ ~(initial[result[1]] > 0)
          \/ \E q \in 1 .. Len(result) - 1 : ~(transition[result[q]][result[q + 1]] > 0)
      BY <1>1, <1>3, DrawingIsPossible DEF ChainInv
    <3>2. initial[result[1]] \in Nat
      BY <1>1, <2>1 DEF ChainType, Rows, ChainNumbers
    <3>3. \A a, b \in 1 .. ChainStates : transition[a][b] \in Nat
      <4> SUFFICES ASSUME NEW a \in 1 .. ChainStates, NEW b \in 1 .. ChainStates
                   PROVE  transition[a][b] \in Nat
        OBVIOUS
      <4>1. transition[a] \in [1 .. ChainStates -> 0 .. Denominator]
        BY <1>1 DEF ChainType, Rows, ChainNumbers
      <4> QED
        BY <4>1 DEF ChainAssumption
    <3>4. \A q \in 1 .. n : transition[result[q]][result[q + 1]] \in Nat
      <4> SUFFICES ASSUME NEW q \in 1 .. n PROVE transition[result[q]][result[q + 1]] \in Nat
        OBVIOUS
      <4>1. q \in 1 .. n + 1 /\ q + 1 \in 1 .. n + 1
        BY <2>1
      <4> QED
        BY <2>1, <3>3, <4>1
    <3> HIDE DEF n
    <3>5. \A q \in 1 .. n : transition[result[q]][result[q + 1]] > 0
            \/ transition[result[q]][result[q + 1]] = 0
      BY <3>4
    <3>6. initial[result[1]] > 0 \/ initial[result[1]] = 0
      BY <3>2
    <3> QED
      BY <3>1, <3>5, <3>6 DEF n
  <2>3. CASE initial[result[1]] = 0
    <3>1. WeightDrawn(1) = 0 /\ result[1] = 1 /\ zeroDrawn
      BY <1>1, <2>1, <2>3 DEF Drawing, WeightDrawn
    <3> QED
      BY <2>1, <3>1
  <2>4. CASE \E q \in 1 .. n : transition[result[q]][result[q + 1]] = 0
    <3>1. PICK q \in 1 .. n : transition[result[q]][result[q + 1]] = 0
      BY <2>4
    <3>2. q + 1 \in 1 .. n + 1 /\ q + 1 > 1 /\ q + 1 # 1 /\ q + 1 - 1 = q
      BY <2>1
    <3>3. result[q + 1] = 1 /\ (zeroDrawn \/ transition[1][1] > 0)
      BY <1>1, <2>1, <3>1, <3>2 DEF Drawing
    <3>4. WeightDrawn(q + 1) = 0
      BY <3>1, <3>2 DEF WeightDrawn
    <3> QED
      BY <2>1, <3>2, <3>3, <3>4
  <2> QED
    BY <2>2, <2>3, <2>4
<1> QED
  BY <1>2, <1>3 DEF GeneratedIsPossible

\* Whatever numbers are drawn, zero and one among them: the chain generates no state without a
\* weight but the first one, and that by a zero or by the corner that stands in for the row's own
\* weight; and it draws a state it does not have only when a row starts with more than the first
\* (markovChain.initialRand, generateSequence, computeProbability).
THEOREM SequencesArePossible == ChainSpec => []GeneratedIsPossible
<1> USE ChainAssumption
<1>1. ChainInit => ChainInv
  BY ChainStarts
<1>2. ChainInv /\ [ChainNext]_chainVars => ChainInv'
  <2> SUFFICES ASSUME ChainInv, [ChainNext]_chainVars PROVE ChainInv'
    OBVIOUS
  <2>1. CASE ChainNext
    BY <2>1, ChainStep
  <2>2. CASE UNCHANGED chainVars
    BY <2>2 DEF chainVars, ChainInv, ChainType, Drawings, Drawing
  <2> QED
    BY <2>1, <2>2
<1>3. ChainInv => GeneratedIsPossible
  BY ChainMeans
<1> QED
  BY <1>1, <1>2, <1>3, PTL DEF ChainSpec
-----------------------------------------------------------------------------
(* The classifier.                                                         *)

\* What is added in a loop is the sum.
LEMMA SumOfIs ==
  ASSUME NEW n \in Nat, NEW s \in [1 .. n -> Int]
  PROVE  SumOf(s) = Sigma(s, 1 .. n) /\ Numbers(s, 1 .. n)
<1>1. SumOf(s) = Total(s)
  BY DEF SumOf, Total
<1> QED
  BY <1>1, TotalIs

\* What a sum of logarithms may be: what it should, or no number, and that only if one of them is
\* none or all are minus infinity.
SumOrOdd(x, f, S) ==
  \/ x = Odd /\ ((\E s \in S : f[s] = Odd) \/ \A s \in S : f[s] = 0)
  \/ x = Sigma(f, S) /\ x \in Nat /\ x > 0 /\ \A s \in S : f[s] \in Nat

\* logsumexp is the sum, or no number.
LEMMA LogSumIs ==
  ASSUME NEW n \in Nat, NEW s \in [1 .. n -> Nat \cup {Odd}]
  PROVE  SumOrOdd(LogSumExp(s), s, 1 .. n)
<1>1. CASE (\E i \in DOMAIN s : s[i] = Odd) \/ (\A i \in DOMAIN s : s[i] = 0)
  BY <1>1 DEF LogSumExp, SumOrOdd
<1>2. CASE ~((\E i \in DOMAIN s : s[i] = Odd) \/ (\A i \in DOMAIN s : s[i] = 0))
  <2>1. LogSumExp(s) = SumOf(s)
    BY <1>2 DEF LogSumExp
  <2>2. \A i \in 1 .. n : s[i] \in Nat
    BY <1>2
  <2>3. \E i \in 1 .. n : s[i] > 0
    BY <1>2, <2>2
  <2>4. s \in [1 .. n -> Int]
    BY <2>2
  <2>5. IsFiniteSet(1 .. n)
    BY FS_Interval
  <2>6. Sigma(s, 1 .. n) \in Nat /\ Sigma(s, 1 .. n) > 0
    BY <2>2, <2>3, <2>5, SigmaNat
  <2> QED
    BY <2>1, <2>2, <2>4, <2>6, SumOfIs DEF SumOrOdd
<1> QED
  BY <1>1, <1>2

\* The states in order are the states, each once.
LEMMA OrderIs ==
  ASSUME SequencesAssumption
  PROVE  LET n == Len(InOrder)
         IN  /\ n \in Nat /\ InOrder \in [1 .. n -> States]
             /\ \A i, j \in 1 .. n : InOrder[i] = InOrder[j] => i = j
             /\ \A s \in States : \E i \in 1 .. n : s = InOrder[i]
<1> DEFINE c == Cardinality(States)
<1>1. IsFiniteSet(States)
  BY DEF SequencesAssumption
<1>2. c \in Nat /\ ExistsBijection(1 .. c, States)
  BY <1>1, FS_CardinalityType
<1> HIDE DEF c
<1>3. \E f \in [1 .. c -> States] : IsInjective(f)
  BY <1>2 DEF ExistsBijection, Bijection, Injection
<1>4. InOrder \in [1 .. c -> States] /\ IsInjective(InOrder)
  BY <1>3 DEF InOrder, SetToSeq, c
<1>5. InOrder \in Injection(1 .. c, States)
  BY <1>4 DEF Injection
<1>6. Cardinality(1 .. c) = c
  BY <1>2, FS_Interval
<1>7. InOrder \in Surjection(1 .. c, States)
  BY <1>1, <1>5, <1>6, FS_Injection DEF c
<1>8. \A s \in States : \E i \in 1 .. c : s = InOrder[i]
  BY <1>7 DEF Surjection
<1>9. Len(InOrder) = c
  BY <1>2, <1>4
<1>10. \A i, j \in 1 .. c : InOrder[i] = InOrder[j] => i = j
  BY <1>4 DEF IsInjective
<1> QED
  BY <1>2, <1>4, <1>8, <1>9, <1>10

\* logsumexp over the states in order is the sum over the states, or no number.
LEMMA LogSumOver ==
  ASSUME SequencesAssumption, NEW f \in [States -> Nat \cup {Odd}]
  PROVE  SumOrOdd(LogSumExp(Over(f)), f, States)
<1> DEFINE n == Len(InOrder)
           x == LogSumExp(Over(f))
<1>1. /\ n \in Nat /\ InOrder \in [1 .. n -> States]
      /\ \A i, j \in 1 .. n : InOrder[i] = InOrder[j] => i = j
      /\ \A s \in States : \E i \in 1 .. n : s = InOrder[i]
  BY OrderIs
<1>2. Over(f) = [i \in 1 .. n |-> f[InOrder[i]]]
  BY DEF Over
<1>3. Over(f) \in [1 .. n -> Nat \cup {Odd}]
  BY <1>1, <1>2
<1>4. \A i \in 1 .. n : Over(f)[i] = f[InOrder[i]]
  BY <1>2
<1>5. SumOrOdd(x, Over(f), 1 .. n)
  BY <1>1, <1>3, LogSumIs
<1> HIDE DEF n, x
<1>6. CASE x = Odd /\ ((\E i \in 1 .. n : Over(f)[i] = Odd) \/ \A i \in 1 .. n : Over(f)[i] = 0)
  BY <1>1, <1>4, <1>6 DEF SumOrOdd, x
<1>7. CASE x = Sigma(Over(f), 1 .. n) /\ x \in Nat /\ x > 0 /\ \A i \in 1 .. n : Over(f)[i] \in Nat
  <2>1. \A s \in States : f[s] \in Nat
    BY <1>1, <1>4, <1>7
  <2>2. IsFiniteSet(1 .. n) /\ IsFiniteSet(States)
    BY <1>1, FS_Interval DEF SequencesAssumption
  <2>3. Numbers(f, States)
    BY <2>1, <2>2, SigmaNat
  <2>4. Sigma(Over(f), 1 .. n) = Sigma(f, States)
    <3> DEFINE S == 1 .. n
               e == InOrder
               h == Over(f)
    <3>1. /\ IsFiniteSet(S) /\ Numbers(f, States) /\ e \in [S -> States]
          /\ \A i, j \in S : e[i] = e[j] => i = j
          /\ \A u \in States : \E i \in S : u = e[i]
          /\ \A i \in S : h[i] = f[e[i]]
      BY <1>1, <1>4, <2>2, <2>3
    <3> HIDE DEF S, e, h
    <3>2. Sigma(h, S) = Sigma(f, States)
      BY <3>1, SigmaMap
    <3> QED
      BY <3>2 DEF S, h
  <2> QED
    BY <1>7, <2>1, <2>4 DEF SumOrOdd, x
<1> QED
  BY <1>5, <1>6, <1>7 DEF SumOrOdd

\* A mixture that was made for some Gaussians holds them all.
LEMMA MixtureIs ==
  ASSUME NEW X, NEW gaussians \in Seq(X)
  PROVE  MixtureOf(gaussians) = [index |-> Len(gaussians), components |-> gaussians]
<1> DEFINE n == Len(gaussians)
           S == DOMAIN gaussians
           D == [index : Nat, components : [1 .. n -> X \cup {Unset}]]
           base == SetNMix(EmptyMixture, Len(gaussians))
           next == [z \in (1 .. n) \X D |-> SetGaussian(z[2], gaussians[z[1]])]
           Iter(g) == [A \in SUBSET S |->
                         IF A = {} THEN base
                         ELSE SetGaussian(g[A \ {Max(A)}], gaussians[Max(A)])]
           R == CHOOSE g : g = Iter(g)
<1>1. n \in Nat /\ S = 1 .. n /\ \A i \in 1 .. n : gaussians[i] \in X
  OBVIOUS
<1>2. ASSUME NEW i \in 1 .. n, NEW w \in D
      PROVE  /\ SetGaussian(w, gaussians[i]) \in D
             /\ SetGaussian(w, gaussians[i]).index = w.index + 1
             /\ w.index < n =>
                  SetGaussian(w, gaussians[i]).components
                    = [w.components EXCEPT ![w.index + 1] = gaussians[i]]
  <2>1. gaussians[i] \in X /\ w.index \in Nat /\ w.components \in [1 .. n -> X \cup {Unset}]
    BY <1>1
  <2>2. Len(w.components) = n
    BY <1>1, <2>1
  <2> HIDE DEF n
  <2> QED
    BY <1>1, <2>1, <2>2 DEF SetGaussian
<1>3. next \in [(1 .. n) \X D -> D]
  <2> SUFFICES ASSUME NEW z \in (1 .. n) \X D PROVE SetGaussian(z[2], gaussians[z[1]]) \in D
    OBVIOUS
  <2>1. z[1] \in 1 .. n /\ z[2] \in D
    OBVIOUS
  <2> HIDE DEF n, D
  <2> QED
    BY <1>2, <2>1
<1>4. base \in D /\ base.index = 0
  <2>1. base = [index |-> 0, components |-> [k \in 1 .. n |-> Unset]]
    <3>1. \A k \in 1 .. n : ~(k <= Len(<< >>))
      BY <1>1
    <3>2. EmptyMixture.components = << >> /\ EmptyMixture.index = 0
      BY DEF EmptyMixture
    <3> HIDE DEF n
    <3> DEFINE fitting(old) == [k \in 1 .. n |-> IF k <= Len(old) THEN old[k] ELSE Unset]
    <3>4. fitting(<< >>) = [k \in 1 .. n |-> Unset]
      BY <3>1
    <3>5. SetNMix(EmptyMixture, n)
            = [EmptyMixture EXCEPT !.components = fitting(EmptyMixture.components)]
      BY DEF SetNMix
    <3>6. fitting(EmptyMixture.components) = [k \in 1 .. n |-> Unset]
      BY <3>2, <3>4
    <3> HIDE DEF fitting
    <3>3. SetNMix(EmptyMixture, n) = [index |-> 0, components |-> [k \in 1 .. n |-> Unset]]
      BY <3>5, <3>6 DEF EmptyMixture
    <3> QED
      BY <3>3 DEF n
  <2> HIDE DEF base, n
  <2> QED
    BY <2>1
<1>5. PICK g : LeftTo(n, D, base, next, g)
  <2>1. Steps(n, D, base, next)
    BY <1>1, <1>3, <1>4 DEF Steps
  <2> HIDE DEF next, base, D, n
  <2> QED
    BY <2>1, LeftFold
<1>6. g = Iter(g)
  <2>1. /\ g = [A \in SUBSET (1 .. n) |-> g[A]] /\ g[{}] = base
        /\ \A A \in SUBSET (1 .. n) : A # {} =>
             /\ Max(A) \in 1 .. n /\ g[A \ {Max(A)}] \in D
             /\ g[A] = next[<<Max(A), g[A \ {Max(A)}]>>]
    <3> HIDE DEF n, D, base, next
    <3> QED
      BY <1>5 DEF LeftTo
  <2>2. \A i \in 1 .. n : \A w \in D : next[<<i, w>>] = SetGaussian(w, gaussians[i])
    <3> HIDE DEF n, D
    <3> QED
      OBVIOUS
  <2> DEFINE Step(A) == SetGaussian(g[A \ {Max(A)}], gaussians[Max(A)])
  <2>3. ASSUME NEW A \in SUBSET (1 .. n), A # {} PROVE g[A] = Step(A)
    <3> HIDE DEF next, S, D, n, base
    <3>1. /\ Max(A) \in 1 .. n /\ g[A \ {Max(A)}] \in D
          /\ g[A] = next[<<Max(A), g[A \ {Max(A)}]>>]
      BY <2>1, <2>3
    <3> QED
      BY <2>2, <3>1
  <2>4. Iter(g) = [A \in SUBSET (1 .. n) |-> IF A = {} THEN base ELSE Step(A)]
    <3> HIDE DEF n
    <3> QED
      BY <1>1
  <2> HIDE DEF Step, Iter, n, D, base, next
  <2> QED
    BY <2>1, <2>3, <2>4
<1>7. R = Iter(R)
  <2>1. \E h : h = Iter(h)
    BY <1>6
  <2> HIDE DEF Iter
  <2> QED
    BY <2>1
<1>8. MixtureOf(gaussians) = R[S]
  BY DEF MixtureOf, FoldLeft, MapThenFoldSet
<1> HIDE DEF R, n, base
<1>9. /\ R[{}] = base
      /\ \A A \in SUBSET (1 .. n) : A # {} =>
           R[A] = SetGaussian(R[A \ {Max(A)}], gaussians[Max(A)])
  BY <1>1, <1>7
<1> HIDE DEF S
<1> DEFINE Good(w, e) == /\ w \in D /\ w.index = e
                         /\ \A k \in 1 .. e : w.components[k] = gaussians[k]
           T == {e \in 0 .. n : Good(R[1 .. e], e)}
<1>10. 0 \in T
  <2>1. 1 .. 0 = {}
    OBVIOUS
  <2>2. Good(base, 0)
    BY <1>4
  <2> HIDE DEF Good
  <2> QED
    BY <1>1, <1>9, <2>1, <2>2
<1>11. ASSUME NEW e \in 1 .. n, e - 1 \in T PROVE e \in T
  <2>1. /\ 1 .. e \in SUBSET (1 .. n) /\ 1 .. e # {} /\ Max(1 .. e) = e
        /\ (1 .. e) \ {e} = 1 .. e - 1
    BY <1>1, TopOf
  <2>2. R[1 .. e] = SetGaussian(R[1 .. e - 1], gaussians[e])
    BY <1>9, <2>1
  <2> DEFINE w == R[1 .. e - 1]
             v == R[1 .. e]
  <2>3. Good(w, e - 1)
    BY <1>11
  <2>4. v = SetGaussian(w, gaussians[e])
    BY <2>2
  <2> HIDE DEF w, v, D
  <2>5. w.index < n /\ w.index + 1 = e /\ w \in D
    BY <1>1, <2>3
  <2>6. v \in D /\ v.index = e /\ v.components = [w.components EXCEPT ![e] = gaussians[e]]
    BY <1>2, <2>4, <2>5
  <2>7. w.components \in [1 .. n -> X \cup {Unset}]
    BY <2>5 DEF D
  <2>8. \A k \in 1 .. e : v.components[k] = gaussians[k]
    <3> SUFFICES ASSUME NEW k \in 1 .. e PROVE v.components[k] = gaussians[k]
      OBVIOUS
    <3>1. k \in 1 .. n /\ e \in 1 .. n
      BY <1>1
    <3>2. CASE k = e
      BY <2>6, <2>7, <3>1, <3>2
    <3>3. CASE k # e
      <4>1. k \in 1 .. e - 1
        BY <1>1, <3>3
      <4> QED
        BY <2>3, <2>6, <2>7, <3>1, <3>3, <4>1
    <3> QED
      BY <3>2, <3>3
  <2>9. Good(v, e)
    BY <2>6, <2>8
  <2> HIDE DEF Good
  <2> QED
    BY <2>9 DEF v
<1>12. Good(R[1 .. n], n)
  <2> HIDE DEF Good
  <2>1. 0 .. n \subseteq T
    <3> HIDE DEF T
    <3> QED
      BY <1>1, <1>10, <1>11, Stepwise
  <2> QED
    BY <1>1, <2>1
<1> DEFINE r == R[1 .. n]
<1>13. r = [index |-> r.index, components |-> r.components] /\ r.index = n
  <2>1. r \in D /\ r.index = n
    BY <1>12
  <2> HIDE DEF r
  <2> QED
    BY <2>1
<1>14. r.components = gaussians
  <2>1. r.components \in [1 .. n -> X \cup {Unset}] /\ \A k \in 1 .. n : r.components[k] = gaussians[k]
    BY <1>12
  <2>2. gaussians = [k \in 1 .. n |-> gaussians[k]]
    BY DEF n
  <2> HIDE DEF r
  <2> QED
    BY <2>1, <2>2
<1> HIDE DEF r
<1> QED
  BY <1>1, <1>8, <1>13, <1>14 DEF n, r

\* The models there are before something is missing.
LEMMA AvailableIs ==
  ASSUME SequencesAssumption, NEW c \in Configurations
  PROVE  Available(c) \in Nat /\ 1 .. Available(c) \subseteq Whole(c)
<1> DEFINE T == {n \in Nat : n = c.nclasses \/ n + 1 \notin Whole(c)}
<1>1. c.nclasses \in Nat
  BY DEF SequencesAssumption
<1>2. T \in SUBSET Nat /\ T # {}
  BY <1>1
<1>3. PICK n \in T : \A y \in T : n <= y
  <2> HIDE DEF T
  <2> QED
    BY <1>2, NatMin
<1>4. n \in 0 .. c.nclasses /\ (n = c.nclasses \/ n + 1 \notin Whole(c))
  <2>1. c.nclasses \in T /\ n \in Nat
    BY <1>1, <1>3
  <2>2. n <= c.nclasses
    BY <1>3, <2>1
  <2> QED
    BY <1>1, <1>3, <2>1, <2>2
<1>5. 1 .. n \subseteq Whole(c)
  <2> SUFFICES ASSUME NEW q \in 1 .. n, q \notin Whole(c) PROVE FALSE
    OBVIOUS
  <2>1. q - 1 \in Nat /\ q - 1 + 1 = q
    BY <1>4
  <2>2. q - 1 \in T
    BY <2>1
  <2>3. n <= q - 1
    BY <1>3, <2>2
  <2> QED
    BY <1>4, <2>3
<1>6. \E k \in 0 .. c.nclasses : 1 .. k \subseteq Whole(c) /\ (k = c.nclasses \/ k + 1 \notin Whole(c))
  BY <1>4, <1>5
<1> HIDE DEF T
<1>7. Available(c) \in 0 .. c.nclasses /\ 1 .. Available(c) \subseteq Whole(c)
  BY <1>6 DEF Available
<1> QED
  BY <1>1, <1>7
\* A number, or what is none.
Magnitudes == Nat \cup {Odd}
WeightColumns == [States -> Magnitudes]
Gaussians == [Observations -> Nat]
Mixtures == [index : Nat, components : Seq(Gaussians)]
LoadedModels ==
  [transition : [States -> [States -> Nat]], initial : [States -> Nat],
   emission : [States -> Mixtures],
   alpha : [0 .. MaxSeqLen - 1 -> WeightColumns],
   scale : [0 .. MaxSeqLen - 1 -> Magnitudes], count : 0 .. MaxSeqLen]

\* The sum of two logarithms.
LEMMA TimesIs ==
  ASSUME NEW a \in Magnitudes, NEW b \in Magnitudes
  PROVE  /\ Times(a, b) \in Magnitudes
         /\ a = Odd \/ b = Odd => Times(a, b) = Odd
         /\ a # Odd /\ b # Odd => a \in Nat /\ b \in Nat /\ Times(a, b) = a * b
<1>1. CASE a = Odd \/ b = Odd
  BY <1>1 DEF Times, Magnitudes
<1>2. CASE a # Odd /\ b # Odd
  <2>1. a \in Nat /\ b \in Nat
    BY <1>2 DEF Magnitudes
  <2>2. a * b \in Nat
    BY <2>1
  <2> QED
    BY <1>2, <2>1, <2>2 DEF Times, Magnitudes
<1> QED
  BY <1>1, <1>2

\* What a mixture gives to an observation is what it emits, or no number if that is nothing.
LEMMA EmittedIs ==
  ASSUME NEW m \in LoadedModels, NEW s \in States, NEW o \in Observations
  PROVE  /\ Emitted(m, s, o) \in Nat /\ Prob(m.emission[s], o) \in Magnitudes
         /\ \/ Prob(m.emission[s], o) = Odd /\ Emitted(m, s, o) = 0
            \/ Prob(m.emission[s], o) = Emitted(m, s, o) /\ Emitted(m, s, o) > 0
<1> DEFINE g == m.emission[s]
           n == Len(g.components)
           f == [k \in 1 .. n |-> g.components[k][o]]
<1>1. g.components \in Seq(Gaussians)
  <2>1. m.emission \in [States -> Mixtures]
    BY DEF LoadedModels
  <2>2. g \in Mixtures
    BY <2>1
  <2> HIDE DEF g
  <2> QED
    BY <2>2 DEF Mixtures
<1>2. n \in Nat /\ \A k \in 1 .. n : g.components[k] \in Gaussians
  BY <1>1
<1>3. \A k \in 1 .. n : f[k] \in Nat
  BY <1>2 DEF Gaussians
<1>4. Emitted(m, s, o) = SumOf(f)
  BY DEF Emitted
<1>5. Prob(m.emission[s], o) = LogSumExp(f)
  BY DEF Prob
<1>6. f = [k \in 1 .. n |-> f[k]]
  OBVIOUS
<1> HIDE DEF f, n, g
<1>7. f \in [1 .. n -> Nat \cup {Odd}] /\ f \in [1 .. n -> Int]
  BY <1>3, <1>6
<1>8. SumOrOdd(LogSumExp(f), f, 1 .. n)
  BY <1>2, <1>7, LogSumIs
<1>9. SumOf(f) = Sigma(f, 1 .. n)
  BY <1>2, <1>7, SumOfIs
<1>10. IsFiniteSet(1 .. n)
  BY <1>2, FS_Interval
<1>11. Sigma(f, 1 .. n) \in Nat
  BY <1>3, <1>10, SigmaNat
<1>12. CASE LogSumExp(f) = Odd /\ \A k \in 1 .. n : f[k] = 0
  <2>1. Sigma(f, 1 .. n) = 0
    BY <1>10, <1>12, SigmaZero
  <2> QED
    BY <1>4, <1>5, <1>9, <1>12, <2>1 DEF Magnitudes
<1>13. CASE LogSumExp(f) = Sigma(f, 1 .. n) /\ LogSumExp(f) > 0
  BY <1>4, <1>5, <1>9, <1>11, <1>13 DEF Magnitudes
<1>14. \A k \in 1 .. n : f[k] # Odd
  BY <1>3 DEF Odd
<1> QED
  BY <1>8, <1>12, <1>13, <1>14 DEF SumOrOdd

\* The weights of paths to each state, after the first observation and after another.
FirstOf(m, o) == [s \in States |-> m.initial[s] * Emitted(m, s, o)]
StepTo(m, o) == [r \in States |-> [s \in States |-> m.transition[r][s] * Emitted(m, s, o)]]
NextOf(m, o, v) ==
  [s \in States |-> Sigma([r \in States |-> v[r] * StepTo(m, o)[r][s]], States)]

\* A column of logarithms stands for one of weights.
StandsFor(m, column, v) ==
  /\ column \in WeightColumns /\ v \in [States -> Nat]
  /\ \A s \in States : column[s] = Odd \/ column[s] = v[s]
  /\ IsPositive(m) => \A s \in States : column[s] \in Nat /\ column[s] > 0

\* The weight of one more step.
LEMMA StepToIs ==
  ASSUME NEW m \in LoadedModels, NEW o \in Observations, NEW r \in States, NEW s \in States
  PROVE  /\ m.transition[r][s] \in Nat /\ Emitted(m, s, o) \in Nat
         /\ StepTo(m, o)[r][s] = m.transition[r][s] * Emitted(m, s, o)
         /\ StepTo(m, o)[r][s] \in Nat
<1>1. m.transition[r][s] \in Nat
  BY DEF LoadedModels
<1>2. Emitted(m, s, o) \in Nat
  BY EmittedIs
<1>3. StepTo(m, o)[r][s] = m.transition[r][s] * Emitted(m, s, o)
  BY DEF StepTo
<1> DEFINE x == m.transition[r][s]
           y == Emitted(m, s, o)
<1>4. x * y \in Nat
  <2>1. x \in Nat /\ y \in Nat
    BY <1>1, <1>2
  <2> HIDE DEF x, y
  <2> QED
    BY <2>1
<1> QED
  BY <1>1, <1>2, <1>3, <1>4

\* The first column stands for the weights after the first observation.
LEMMA FirstStands ==
  ASSUME NEW m \in LoadedModels, NEW o \in Observations
  PROVE  StandsFor(m, FirstColumn(m, o), FirstOf(m, o))
<1> DEFINE column == FirstColumn(m, o)
           v == FirstOf(m, o)
<1>1. ASSUME NEW s \in States
      PROVE  /\ column[s] \in Magnitudes /\ v[s] \in Nat /\ (column[s] = Odd \/ column[s] = v[s])
             /\ IsPositive(m) => column[s] \in Nat /\ column[s] > 0
  <2> DEFINE p == Prob(m.emission[s], o)
             e == Emitted(m, s, o)
             w == m.initial[s]
  <2>1. /\ e \in Nat /\ p \in Magnitudes
        /\ (p = Odd /\ e = 0) \/ (p = e /\ e > 0)
    BY EmittedIs
  <2>2. w \in Nat
    BY DEF LoadedModels
  <2>3. column[s] = Times(p, w) /\ v[s] = w * e
    BY DEF FirstColumn, FirstOf
  <2>4. IsPositive(m) => e > 0 /\ w > 0
    BY DEF IsPositive
  <2>5. w \in Magnitudes /\ w # Odd /\ e # Odd
    BY <2>1, <2>2 DEF Magnitudes, Odd
  <2> HIDE DEF column, v, p, e, w
  <2>6. /\ Times(p, w) \in Magnitudes
        /\ p = Odd => Times(p, w) = Odd
        /\ p # Odd => Times(p, w) = p * w
    BY <2>1, <2>5, TimesIs
  <2>7. w * e \in Nat /\ e * w = w * e /\ (w > 0 /\ e > 0 => w * e > 0)
    BY <2>1, <2>2
  <2> QED
    BY <2>1, <2>3, <2>4, <2>5, <2>6, <2>7
<1>2. column = [s \in States |-> column[s]] /\ v = [s \in States |-> v[s]]
  BY DEF FirstColumn, FirstOf
<1> HIDE DEF column, v
<1>3. StandsFor(m, column, v)
  BY <1>1, <1>2 DEF StandsFor, WeightColumns
<1> QED
  BY <1>3 DEF column, v

\* The sum over a column stands for the sum over its weights.
LEMMA SumStands ==
  ASSUME SequencesAssumption, NEW m \in LoadedModels, NEW column, NEW v, StandsFor(m, column, v)
  PROVE  LET x == LogSumExp(Over(column))
         IN  /\ x \in Magnitudes
             /\ x = Odd \/ x = Sigma(v, States)
             /\ IsPositive(m) => x # Odd
<1> DEFINE x == LogSumExp(Over(column))
<1>1. /\ column \in [States -> Nat \cup {Odd}] /\ v \in [States -> Nat]
      /\ \A s \in States : column[s] = Odd \/ column[s] = v[s]
      /\ IsPositive(m) => \A s \in States : column[s] \in Nat /\ column[s] > 0
  BY DEF StandsFor, WeightColumns, Magnitudes
<1>2. SumOrOdd(x, column, States)
  BY <1>1, LogSumOver
<1> HIDE DEF x
<1>3. States # {} /\ IsFiniteSet(States)
  BY DEF SequencesAssumption
<1>4. CASE x = Odd /\ ((\E s \in States : column[s] = Odd) \/ \A s \in States : column[s] = 0)
  <2>1. ~IsPositive(m)
    BY <1>1, <1>3, <1>4 DEF Odd
  <2> QED
    BY <1>4, <2>1 DEF Magnitudes, x
<1>5. CASE x = Sigma(column, States) /\ x \in Nat /\ \A s \in States : column[s] \in Nat
  <2>1. \A s \in States : column[s] = v[s]
    BY <1>1, <1>5 DEF Odd
  <2>2. Numbers(v, States)
    BY <1>1, <1>3, SigmaNat
  <2>3. Sigma(column, States) = Sigma(v, States)
    BY <2>1, <2>2, SigmaSame
  <2>4. x # Odd
    BY <1>5 DEF Odd
  <2> QED
    BY <1>5, <2>3, <2>4 DEF Magnitudes, x
<1> QED
  BY <1>2, <1>4, <1>5 DEF SumOrOdd

\* The sum inside a step, of logarithms and of weights.
LEMMA InnerSum ==
  ASSUME SequencesAssumption, NEW m \in LoadedModels, NEW s \in States, NEW column, NEW v,
         StandsFor(m, column, v)
  PROVE  LET x == LogSumExp(Over([r \in States |-> Times(m.transition[r][s], column[r])]))
             y == Sigma([r \in States |-> m.transition[r][s] * v[r]], States)
         IN  /\ x \in Magnitudes /\ y \in Nat
             /\ Numbers([r \in States |-> m.transition[r][s] * v[r]], States)
             /\ x = Odd \/ x = y
             /\ IsPositive(m) => x \in Nat /\ x > 0
<1> DEFINE c == [r \in States |-> Times(m.transition[r][s], column[r])]
           f == [r \in States |-> m.transition[r][s] * v[r]]
           x == LogSumExp(Over(c))
           y == Sigma(f, States)
<1>1. /\ column \in [States -> Magnitudes] /\ v \in [States -> Nat]
      /\ \A r \in States : column[r] = Odd \/ column[r] = v[r]
      /\ IsPositive(m) => \A r \in States : column[r] \in Nat /\ column[r] > 0
  BY DEF StandsFor, WeightColumns
<1>2. ASSUME NEW r \in States
      PROVE  /\ c[r] \in Magnitudes /\ f[r] \in Nat /\ (c[r] = Odd \/ c[r] = f[r])
             /\ IsPositive(m) => c[r] \in Nat /\ c[r] > 0
  <2> DEFINE t == m.transition[r][s]
             a == column[r]
             b == v[r]
  <2>1. t \in Nat /\ a \in Magnitudes /\ b \in Nat /\ (a = Odd \/ a = b)
    BY <1>1 DEF LoadedModels
  <2>2. t \in Magnitudes /\ t # Odd
    BY <2>1 DEF Magnitudes, Odd
  <2>3. IsPositive(m) => t > 0 /\ a \in Nat /\ a > 0
    BY <1>1 DEF IsPositive
  <2>4. c[r] = Times(t, a) /\ f[r] = t * b
    OBVIOUS
  <2> HIDE DEF t, a, b, c, f
  <2>5. /\ Times(t, a) \in Magnitudes
        /\ a = Odd => Times(t, a) = Odd
        /\ a # Odd => Times(t, a) = t * a /\ a \in Nat
    BY <2>1, <2>2, TimesIs
  <2>6. t * b \in Nat
    BY <2>1
  <2>7. ASSUME IsPositive(m) PROVE c[r] \in Nat /\ c[r] > 0
    <3>1. t \in Nat /\ t > 0 /\ a \in Nat /\ a > 0 /\ a # Odd
      BY <2>1, <2>3, <2>7 DEF Odd
    <3>2. t * a \in Nat /\ t * a > 0
      BY <3>1
    <3> QED
      BY <2>4, <2>5, <3>1, <3>2
  <2> QED
    BY <2>1, <2>4, <2>5, <2>6, <2>7
<1>3. c = [r \in States |-> c[r]] /\ f = [r \in States |-> f[r]]
  OBVIOUS
<1> HIDE DEF c, f
<1>4. c \in [States -> Nat \cup {Odd}] /\ f \in [States -> Nat]
  BY <1>2, <1>3 DEF Magnitudes
<1>5. StandsFor(m, c, f)
  BY <1>2, <1>3 DEF StandsFor, WeightColumns
<1>6. x \in Magnitudes /\ (x = Odd \/ x = y) /\ (IsPositive(m) => x # Odd)
  BY <1>5, SumStands
<1>7. Numbers(f, States) /\ y \in Nat
  BY <1>4, SigmaNat DEF SequencesAssumption
<1>8. SumOrOdd(x, c, States)
  BY <1>4, LogSumOver
<1> HIDE DEF x, y
<1>9. IsPositive(m) => x \in Nat /\ x > 0
  BY <1>6, <1>8 DEF SumOrOdd
<1> QED
  BY <1>6, <1>7, <1>9 DEF c, f, x, y

\* A column computed from one that stands for weights stands for the next weights.
LEMMA NextStands ==
  ASSUME SequencesAssumption, NEW m \in LoadedModels, NEW o \in Observations, NEW i, NEW v,
         StandsFor(m, m.alpha[i - 1], v)
  PROVE  StandsFor(m, NextColumn(m, o, i), NextOf(m, o, v))
<1> DEFINE before == m.alpha[i - 1]
           column == NextColumn(m, o, i)
           w == NextOf(m, o, v)
<1>1. ASSUME NEW s \in States
      PROVE  /\ column[s] \in Magnitudes /\ w[s] \in Nat /\ (column[s] = Odd \/ column[s] = w[s])
             /\ IsPositive(m) => column[s] \in Nat /\ column[s] > 0
  <2> DEFINE p == Prob(m.emission[s], o)
             e == Emitted(m, s, o)
             c == [r \in States |-> Times(m.transition[r][s], before[r])]
             f == [r \in States |-> m.transition[r][s] * v[r]]
             h == [r \in States |-> v[r] * StepTo(m, o)[r][s]]
             x == LogSumExp(Over(c))
             y == Sigma(f, States)
  <2>1. /\ e \in Nat /\ p \in Magnitudes
        /\ (p = Odd /\ e = 0) \/ (p = e /\ e > 0)
    BY EmittedIs
  <2>2. /\ x \in Magnitudes /\ y \in Nat /\ Numbers(f, States)
        /\ x = Odd \/ x = y
        /\ IsPositive(m) => x \in Nat /\ x > 0
    <3> HIDE DEF before
    <3> QED
      BY InnerSum DEF before
  <2>3. column[s] = Times(p, x)
    BY DEF NextColumn
  <2>4. w[s] = Sigma(h, States)
    BY DEF NextOf
  <2>5. ASSUME NEW r \in States PROVE h[r] = e * f[r]
    <3> DEFINE t == m.transition[r][s]
               u == v[r]
               z == StepTo(m, o)[r][s]
    <3>1. t \in Nat /\ z = t * e /\ h[r] = u * z /\ f[r] = t * u
      BY StepToIs
    <3>2. u \in Nat
      BY DEF StandsFor
    <3> HIDE DEF t, u, z, e, h, f
    <3>3. u * (t * e) = e * (t * u)
      BY <2>1, <3>1, <3>2
    <3> QED
      BY <3>1, <3>3
  <2>6. IsPositive(m) => e > 0
    BY DEF IsPositive
  <2> HIDE DEF column, w, p, e, c, f, h, x, before
  <2>7. Sigma(h, States) = e * y
    <3>1. e \in Int
      BY <2>1
    <3> QED
      BY <2>2, <2>5, <3>1, SigmaTimes
  <2> HIDE DEF y
  <2>8. /\ Times(p, x) \in Magnitudes
        /\ p = Odd \/ x = Odd => Times(p, x) = Odd
        /\ p # Odd /\ x # Odd => Times(p, x) = p * x
    BY <2>1, <2>2, TimesIs
  <2>9. e * y \in Nat
    BY <2>1, <2>2
  <2>10. ASSUME IsPositive(m) PROVE column[s] \in Nat /\ column[s] > 0
    <3>1. p = e /\ e \in Nat /\ e > 0 /\ x \in Nat /\ x > 0 /\ p # Odd /\ x # Odd
      BY <2>1, <2>2, <2>6, <2>10 DEF Odd
    <3>2. e * x \in Nat /\ e * x > 0
      BY <3>1
    <3> QED
      BY <2>3, <2>8, <3>1, <3>2
  <2>11. column[s] = Odd \/ column[s] = w[s]
    BY <2>1, <2>2, <2>3, <2>4, <2>7, <2>8
  <2> QED
    BY <2>3, <2>4, <2>7, <2>8, <2>9, <2>10, <2>11
<1>2. column = [s \in States |-> column[s]] /\ w = [s \in States |-> w[s]]
  BY DEF NextColumn, NextOf
<1> HIDE DEF column, w
<1>3. StandsFor(m, column, w)
  BY <1>1, <1>2 DEF StandsFor, WeightColumns
<1> QED
  BY <1>3 DEF column, w

\* The types of what a step computes, whatever the column before it holds.
LEMMA ColumnsTyped ==
  ASSUME SequencesAssumption, NEW m \in LoadedModels, NEW o \in Observations
  PROVE  /\ FirstColumn(m, o) \in WeightColumns
         /\ \A i : m.alpha[i - 1] \in WeightColumns => NextColumn(m, o, i) \in WeightColumns
         /\ \A column \in WeightColumns : LogSumExp(Over(column)) \in Magnitudes
<1>1. FirstColumn(m, o) \in WeightColumns
  BY FirstStands DEF StandsFor
<1>2. ASSUME NEW column \in WeightColumns PROVE LogSumExp(Over(column)) \in Magnitudes
  <2>1. SumOrOdd(LogSumExp(Over(column)), column, States)
    BY LogSumOver DEF WeightColumns, Magnitudes
  <2> QED
    BY <2>1 DEF SumOrOdd, Magnitudes
<1>3. ASSUME NEW i, m.alpha[i - 1] \in WeightColumns PROVE NextColumn(m, o, i) \in WeightColumns
  <2> SUFFICES ASSUME NEW s \in States
               PROVE  Times(Prob(m.emission[s], o),
                        LogSumExp(Over([r \in States |-> Times(m.transition[r][s], m.alpha[i - 1][r])])))
                        \in Magnitudes
    BY DEF NextColumn, WeightColumns
  <2> DEFINE c == [r \in States |-> Times(m.transition[r][s], m.alpha[i - 1][r])]
             x == LogSumExp(Over(c))
  <2>1. ASSUME NEW r \in States PROVE c[r] \in Magnitudes
    <3>1. m.transition[r][s] \in Magnitudes
      BY DEF LoadedModels, Magnitudes
    <3>2. m.alpha[i - 1][r] \in Magnitudes
      BY <1>3 DEF WeightColumns
    <3>3. Times(m.transition[r][s], m.alpha[i - 1][r]) \in Magnitudes
      BY <3>1, <3>2, TimesIs
    <3> QED
      BY <3>3
  <2>2. c \in WeightColumns
    BY <2>1 DEF WeightColumns
  <2> HIDE DEF c
  <2>3. x \in Magnitudes
    BY <1>2, <2>2
  <2>4. Prob(m.emission[s], o) \in Magnitudes
    BY EmittedIs
  <2> HIDE DEF x
  <2>5. Times(Prob(m.emission[s], o), x) \in Magnitudes
    BY <2>3, <2>4, TimesIs
  <2> QED
    BY <2>5 DEF x, c
<1> QED
  BY <1>1, <1>2, <1>3
\* The weight of a path, place by place; N is one less than it has places.
Heard(said, i) == [q \in 1 .. i |-> said[q]]
Walks(m, said, N, path, h) ==
  /\ h \in [0 .. N -> Int]
  /\ h[0] = FirstOf(m, said[1])[path[1]] /\ PathWeight(m, path, said) = h[N]
  /\ \A e \in 1 .. N : h[e] = h[e - 1] * StepTo(m, said[e + 1])[path[e]][path[e + 1]]

\* A path's weight is a product over its places.
LEMMA PathIs ==
  ASSUME NEW m \in LoadedModels, NEW N \in Nat, NEW said \in [1 .. N + 1 -> Observations],
         NEW path \in [1 .. N + 1 -> States]
  PROVE  \E h : Walks(m, said, N, path, h)
<1> DEFINE ids == [i \in 1 .. Len(said) - 1 |-> i + 1]
           S == DOMAIN ids
           Factor(w, i) ==
             w * m.transition[path[i - 1]][path[i]] * Emitted(m, path[i], said[i])
           base == m.initial[path[1]] * Emitted(m, path[1], said[1])
           next == [z \in (1 .. N) \X Int |-> Factor(z[2], ids[z[1]])]
           Iter(g) == [A \in SUBSET S |->
                         IF A = {} THEN base ELSE Factor(g[A \ {Max(A)}], ids[Max(A)])]
           R == CHOOSE g : g = Iter(g)
<1>1. S = 1 .. N /\ \A i \in 1 .. N : ids[i] = i + 1
  <2>1. Len(said) = N + 1 /\ N + 1 - 1 = N
    OBVIOUS
  <2> QED
    BY <2>1
<1>01. /\ \A q \in 1 .. N + 1 : path[q] \in States /\ said[q] \in Observations
       /\ 1 \in 1 .. N + 1
       /\ \A i \in 1 .. N : i \in 1 .. N + 1 /\ i + 1 \in 1 .. N + 1 /\ i + 1 - 1 = i
  OBVIOUS
<1>2. ASSUME NEW i \in 1 .. N, NEW w \in Int
      PROVE  /\ Factor(w, ids[i]) \in Int
             /\ Factor(w, ids[i]) = w * StepTo(m, said[i + 1])[path[i]][path[i + 1]]
  <2> DEFINE x == m.transition[path[i]][path[i + 1]]
             y == Emitted(m, path[i + 1], said[i + 1])
             z == StepTo(m, said[i + 1])[path[i]][path[i + 1]]
  <2>1. x \in Nat /\ y \in Nat /\ z = x * y
    <3>1. path[i] \in States /\ path[i + 1] \in States /\ said[i + 1] \in Observations
      BY <1>01
    <3> QED
      BY <3>1, StepToIs
  <2>2. Factor(w, ids[i]) = w * x * y
    <3>1. ids[i] = i + 1 /\ i + 1 - 1 = i
      BY <1>1, <1>01
    <3> HIDE DEF ids
    <3>2. Factor(w, ids[i]) = Factor(w, i + 1)
      BY <3>1
    <3>3. Factor(w, i + 1) = w * m.transition[path[i + 1 - 1]][path[i + 1]] * y
      OBVIOUS
    <3>4. m.transition[path[i + 1 - 1]] = m.transition[path[i]]
      BY <3>1
    <3> QED
      BY <3>2, <3>3, <3>4
  <2> HIDE DEF x, y, z, Factor, ids
  <2>3. w * x * y = w * (x * y) /\ w * x * y \in Int
    BY <2>1
  <2>4. Factor(w, ids[i]) = w * z /\ Factor(w, ids[i]) \in Int
    BY <2>1, <2>2, <2>3
  <2> QED
    BY <2>4 DEF z
<1>3. next \in [(1 .. N) \X Int -> Int]
  <2> SUFFICES ASSUME NEW z \in (1 .. N) \X Int PROVE Factor(z[2], ids[z[1]]) \in Int
    OBVIOUS
  <2>1. z[1] \in 1 .. N /\ z[2] \in Int
    OBVIOUS
  <2> HIDE DEF Factor, ids
  <2> QED
    BY <1>2, <2>1
<1>4. base \in Int /\ base = FirstOf(m, said[1])[path[1]]
  <2>1. path[1] \in States /\ said[1] \in Observations
    BY <1>01
  <2> DEFINE x == m.initial[path[1]]
             y == Emitted(m, path[1], said[1])
  <2>2. y \in Nat
    BY <2>1, EmittedIs
  <2>3. x \in Nat
    BY <2>1 DEF LoadedModels
  <2>4. base = x * y /\ FirstOf(m, said[1])[path[1]] = x * y
    BY <2>1 DEF FirstOf
  <2> HIDE DEF x, y, base
  <2> QED
    BY <2>2, <2>3, <2>4
<1>5. PICK g : LeftTo(N, Int, base, next, g)
  <2>1. Steps(N, Int, base, next)
    BY <1>3, <1>4 DEF Steps
  <2> HIDE DEF next, base
  <2> QED
    BY <2>1, LeftFold
<1>6. g = Iter(g)
  <2>1. /\ g = [A \in SUBSET (1 .. N) |-> g[A]] /\ g[{}] = base
        /\ \A A \in SUBSET (1 .. N) : A # {} =>
             /\ Max(A) \in 1 .. N /\ g[A \ {Max(A)}] \in Int
             /\ g[A] = next[<<Max(A), g[A \ {Max(A)}]>>]
    <3> HIDE DEF next, base
    <3> QED
      BY <1>5 DEF LeftTo
  <2>2. \A i \in 1 .. N : \A w \in Int : next[<<i, w>>] = Factor(w, ids[i])
    <3> HIDE DEF Factor, ids
    <3> QED
      OBVIOUS
  <2> DEFINE Step(A) == Factor(g[A \ {Max(A)}], ids[Max(A)])
  <2>3. ASSUME NEW A \in SUBSET (1 .. N), A # {} PROVE g[A] = Step(A)
    <3> HIDE DEF next, S, ids, Factor, base
    <3>1. /\ Max(A) \in 1 .. N /\ g[A \ {Max(A)}] \in Int
          /\ g[A] = next[<<Max(A), g[A \ {Max(A)}]>>]
      BY <2>1, <2>3
    <3> QED
      BY <2>2, <3>1
  <2>4. Iter(g) = [A \in SUBSET (1 .. N) |-> IF A = {} THEN base ELSE Step(A)]
    <3>1. S = 1 .. N
      BY <1>1
    <3> HIDE DEF ids, Factor, base
    <3> QED
      BY <3>1
  <2> HIDE DEF Step, Iter, base, next
  <2> QED
    BY <2>1, <2>3, <2>4
<1>7. R = Iter(R)
  <2>1. \E h : h = Iter(h)
    BY <1>6
  <2> HIDE DEF Iter
  <2> QED
    BY <2>1
<1>8. PathWeight(m, path, said) = R[S]
  BY DEF PathWeight, FoldLeft, MapThenFoldSet
<1>08. S = 1 .. N
  BY <1>1
<1> HIDE DEF R, S
<1>9. /\ R[{}] = base
      /\ \A A \in SUBSET (1 .. N) : A # {} =>
           R[A] = Factor(R[A \ {Max(A)}], ids[Max(A)])
  <2> HIDE DEF base, Factor, ids
  <2> QED
    BY <1>08, <1>7
<1> HIDE DEF base, Factor, ids
<1> DEFINE h == [e \in 0 .. N |-> R[1 .. e]]
<1>10. h[0] = base
  <2>1. 1 .. 0 = {} /\ 0 \in 0 .. N
    OBVIOUS
  <2> QED
    BY <1>9, <2>1
<1>11. ASSUME NEW e \in 1 .. N PROVE h[e] = Factor(h[e - 1], ids[e])
  <2>1. /\ 1 .. e \in SUBSET (1 .. N) /\ 1 .. e # {} /\ Max(1 .. e) = e
        /\ (1 .. e) \ {e} = 1 .. e - 1
    BY TopOf
  <2>2. h[e] = R[1 .. e] /\ h[e - 1] = R[1 .. e - 1]
    OBVIOUS
  <2> HIDE DEF h
  <2>3. R[1 .. e] = Factor(R[1 .. e - 1], ids[e])
    BY <1>9, <2>1
  <2> QED
    BY <2>2, <2>3
<1>12. h[N] = R[S]
  BY <1>08
<1>14. h = [e \in 0 .. N |-> h[e]]
  OBVIOUS
<1> HIDE DEF h
<1>13. \A e \in 0 .. N : h[e] \in Int
  <2> DEFINE T == {e \in 0 .. N : h[e] \in Int}
  <2>1. 0 \in T
    BY <1>4, <1>10
  <2>2. ASSUME NEW e \in 1 .. N, e - 1 \in T PROVE e \in T
    <3>1. e \in 0 .. N /\ h[e - 1] \in Int
      BY <2>2
    <3>2. h[e] \in Int
      BY <1>2, <1>11, <3>1
    <3> QED
      BY <3>1, <3>2
  <2>3. 0 .. N \subseteq T
    <3> HIDE DEF T
    <3> QED
      BY <2>1, <2>2, Stepwise
  <2> QED
    BY <2>3
<1>15. ASSUME NEW e \in 1 .. N
       PROVE  h[e] = h[e - 1] * StepTo(m, said[e + 1])[path[e]][path[e + 1]]
  <2>1. e - 1 \in 0 .. N
    OBVIOUS
  <2>2. h[e - 1] \in Int
    BY <1>13, <2>1
  <2> QED
    BY <1>2, <1>11, <2>2
<1> QED
  <2>1. h \in [0 .. N -> Int]
    BY <1>13, <1>14
  <2>2. PathWeight(m, path, said) = h[N]
    BY <1>8, <1>12
  <2> QED
    BY <1>4, <1>10, <1>15, <2>1, <2>2 DEF Walks

\* The weight of a longer path.
LEMMA PathGoesOn ==
  ASSUME NEW m \in LoadedModels, NEW N \in Nat, NEW said \in [1 .. N + 1 -> Observations],
         NEW i \in 1 .. N, NEW p \in [1 .. i -> States], NEW k \in States
  PROVE  PathWeight(m, Longer(p, i, k), Heard(said, i + 1))
           = PathWeight(m, p, Heard(said, i)) * StepTo(m, said[i + 1])[p[i]][k]
<1> DEFINE u == Longer(p, i, k)
           now == Heard(said, i + 1)
           then == Heard(said, i)
           j == i - 1
<1>1. /\ i \in Nat /\ j \in Nat /\ j + 1 = i /\ 1 \in 1 .. i
      /\ now \in [1 .. i + 1 -> Observations] /\ then \in [1 .. i -> Observations]
      /\ \A e \in 1 .. i + 1 : now[e] = said[e]
      /\ \A e \in 1 .. i : then[e] = said[e]
  BY DEF Heard
<1>2. /\ u \in [1 .. i + 1 -> States] /\ u[i + 1] = k
      /\ \A q \in 1 .. i : u[q] = p[q]
  <2>1. \A q \in 1 .. i + 1 : q # i + 1 => q \in 1 .. i
    BY <1>1
  <2>2. i + 1 \in 1 .. i + 1 /\ \A q \in 1 .. i : q \in 1 .. i + 1 /\ q # i + 1
    BY <1>1
  <2> QED
    BY <2>1, <2>2 DEF Longer
<1>3. /\ \A e \in 0 .. j : e \in 0 .. i
      /\ \A e \in 1 .. j : e \in 1 .. i /\ e + 1 \in 1 .. i /\ e + 1 \in 1 .. i + 1 /\ e \in 0 .. j
                             /\ e - 1 \in 0 .. j
      /\ i \in 1 .. i /\ i + 1 \in 1 .. i + 1 /\ i - 1 = j /\ j \in 0 .. j /\ 1 \in 1 .. i + 1
  BY <1>1
<1> HIDE DEF u, now, then, j
<1>4a. PICK h : Walks(m, now, i, u, h)
  BY <1>1, <1>2, PathIs
<1>4. /\ h \in [0 .. i -> Int]
      /\ h[0] = FirstOf(m, now[1])[u[1]] /\ PathWeight(m, u, now) = h[i]
      /\ \A e \in 1 .. i : h[e] = h[e - 1] * StepTo(m, now[e + 1])[u[e]][u[e + 1]]
  BY <1>4a DEF Walks
<1>5a. PICK g : Walks(m, then, j, p, g)
  <2>1. then \in [1 .. j + 1 -> Observations] /\ p \in [1 .. j + 1 -> States]
    BY <1>1
  <2> QED
    BY <1>1, <2>1, PathIs
<1>5. /\ g \in [0 .. j -> Int]
      /\ g[0] = FirstOf(m, then[1])[p[1]] /\ PathWeight(m, p, then) = g[j]
      /\ \A e \in 1 .. j : g[e] = g[e - 1] * StepTo(m, then[e + 1])[p[e]][p[e + 1]]
  BY <1>5a DEF Walks
<1> DEFINE T == {e \in 0 .. j : h[e] = g[e]}
<1>6. 0 .. j \subseteq T
  <2>1. 0 \in T
    <3>1. now[1] = said[1] /\ then[1] = said[1] /\ u[1] = p[1]
      BY <1>1, <1>2, <1>3
    <3>2. h[0] = g[0]
      BY <1>4, <1>5, <3>1
    <3>3. 0 \in 0 .. j
      BY <1>1
    <3> QED
      BY <3>2, <3>3
  <2>2. ASSUME NEW e \in 1 .. j, e - 1 \in T PROVE e \in T
    <3>1. e \in 1 .. i /\ e + 1 \in 1 .. i /\ e + 1 \in 1 .. i + 1 /\ e \in 0 .. j
      BY <1>3
    <3>2. h[e] = h[e - 1] * StepTo(m, now[e + 1])[u[e]][u[e + 1]]
      BY <1>4, <3>1
    <3>3. g[e] = g[e - 1] * StepTo(m, then[e + 1])[p[e]][p[e + 1]]
      BY <1>5
    <3>4. u[e] = p[e] /\ u[e + 1] = p[e + 1] /\ now[e + 1] = then[e + 1]
      BY <1>1, <1>2, <3>1
    <3>5. h[e - 1] = g[e - 1]
      BY <2>2
    <3>6. h[e] = g[e]
      BY <3>2, <3>3, <3>4, <3>5
    <3> QED
      BY <3>1, <3>6
  <2> HIDE DEF T
  <2> QED
    BY <1>1, <2>1, <2>2, Stepwise
<1>7. h[j] = g[j]
  BY <1>3, <1>6
<1>8. h[i] = h[j] * StepTo(m, said[i + 1])[p[i]][k]
  BY <1>1, <1>2, <1>3, <1>4
<1> QED
  BY <1>4, <1>5, <1>7, <1>8 DEF u, now, then

\* The weights of the paths that end in each state, after each observation.
WeightsOf(m, said, N, V) ==
  /\ V[1] = FirstOf(m, said[1])
  /\ \A i \in 1 .. N : V[i + 1] = NextOf(m, said[i + 1], V[i])

AllPaths(m, said, P) == [p \in P |-> PathWeight(m, p, said)]

\* The definition is a sum over all paths.
LEMMA SequenceIsSum ==
  ASSUME NEW m, NEW n \in Nat, NEW said \in [1 .. n -> Observations]
  PROVE  SequenceWeight(m, said)
           = Sigma(AllPaths(m, said, [1 .. n -> States]), [1 .. n -> States])
<1> DEFINE P == [1 .. n -> States]
           f == [p \in P |-> PathWeight(m, p, said)]
           IterF(g) == [A \in SUBSET P |->
                          IF A = {} THEN 0
                          ELSE f[CHOOSE x \in A : TRUE] + g[A \ {CHOOSE x \in A : TRUE}]]
           IterW(g) == [A \in SUBSET P |->
                          IF A = {} THEN 0
                          ELSE PathWeight(m, CHOOSE x \in A : TRUE, said)
                                 + g[A \ {CHOOSE x \in A : TRUE}]]
<1>1. Len(said) = n
  OBVIOUS
<1>2. SequenceWeight(m, said) = (CHOOSE g : g = IterW(g))[P]
  <2>1. [1 .. Len(said) -> States] = P
    BY <1>1
  <2> HIDE DEF P
  <2> QED
    BY <2>1 DEF SequenceWeight, MapThenSumSet, MapThenFoldSet
<1>3. Sigma(f, P) = (CHOOSE g : g = IterF(g))[P]
  <2> HIDE DEF P, f
  <2> QED
    BY DEF Sigma, MapThenSumSet, MapThenFoldSet
<1>4. ASSUME NEW g PROVE IterF(g) = IterW(g)
  <2>1. ASSUME NEW A \in SUBSET P, A # {}
        PROVE  f[CHOOSE x \in A : TRUE] = PathWeight(m, CHOOSE x \in A : TRUE, said)
    <3> DEFINE x == CHOOSE x \in A : TRUE
    <3>1. x \in A
      BY <2>1
    <3> HIDE DEF x
    <3>2. f[x] = PathWeight(m, x, said)
      BY <3>1
    <3> QED
      BY <3>2 DEF x
  <2> HIDE DEF P, f
  <2> QED
    BY <2>1
<1>5. (CHOOSE g : g = IterF(g)) = CHOOSE g : g = IterW(g)
  <2> HIDE DEF IterF, IterW
  <2> QED
    BY <1>4
<1> QED
  <2> HIDE DEF IterF, IterW, P, f
  <2>1. SequenceWeight(m, said) = Sigma(f, P)
    BY <1>2, <1>3, <1>5
  <2> QED
    BY <2>1 DEF f, P, AllPaths

\* The weight of a sequence is the sum over the last weights.
LEMMA SequenceWeightIs ==
  ASSUME SequencesAssumption, NEW m \in LoadedModels, NEW N \in Nat,
         NEW said \in [1 .. N + 1 -> Observations], NEW V, WeightsOf(m, said, N, V)
  PROVE  SequenceWeight(m, said) = Sigma(V[N + 1], States)
<1> DEFINE K == States
           F == FirstOf(m, said[1])
           G == [i \in 1 .. N |-> StepTo(m, said[i + 1])]
           W == [i \in 1 .. N + 1 |-> [p \in [1 .. i -> K] |-> PathWeight(m, p, Heard(said, i))]]
           P == [1 .. N + 1 -> K]
<1>0. /\ \A i \in 1 .. N : /\ i \in 1 .. N + 1 /\ i + 1 \in 1 .. N + 1 /\ said[i + 1] \in Observations
                           /\ i \in 1 .. i
      /\ 1 \in 1 .. N + 1 /\ N + 1 \in 1 .. N + 1 /\ said[1] \in Observations
      /\ N + 1 \in Nat
  OBVIOUS
<1>1. IsFiniteSet(K)
  BY DEF SequencesAssumption
<1>2. F \in [K -> Int]
  <2> SUFFICES ASSUME NEW s \in States PROVE m.initial[s] * Emitted(m, s, said[1]) \in Int
    BY DEF FirstOf
  <2> DEFINE x == m.initial[s]
             y == Emitted(m, s, said[1])
  <2>1. y \in Nat
    BY <1>0, EmittedIs
  <2>2. x \in Nat
    BY DEF LoadedModels
  <2> HIDE DEF x, y
  <2>3. x * y \in Int
    BY <2>1, <2>2
  <2> QED
    BY <2>3 DEF x, y
<1>3. \A i \in 1 .. N : G[i] = StepTo(m, said[i + 1])
  OBVIOUS
<1>4. \A i \in 1 .. N : \A k, j \in K : G[i][k][j] \in Int
  <2> SUFFICES ASSUME NEW i \in 1 .. N, NEW k \in K, NEW j \in K PROVE G[i][k][j] \in Int
    OBVIOUS
  <2> HIDE DEF G
  <2>1. StepTo(m, said[i + 1])[k][j] \in Nat
    BY <1>0, StepToIs
  <2> QED
    BY <1>3, <2>1
<1>5. \A i \in 1 .. N + 1 : \A p \in [1 .. i -> K] : W[i][p] = PathWeight(m, p, Heard(said, i))
  OBVIOUS
<1>6. W[N + 1] = AllPaths(m, said, P)
  <2>1. Heard(said, N + 1) = said
    BY DEF Heard
  <2>2. W[N + 1] = AllPaths(m, Heard(said, N + 1), P)
    BY <1>0 DEF AllPaths
  <2> HIDE DEF W, P
  <2> QED
    BY <2>1, <2>2
<1> HIDE DEF W, G, F
<1>7. \A p \in [1 .. 1 -> K] : W[1][p] = F[p[1]]
  <2> SUFFICES ASSUME NEW p \in [1 .. 1 -> K] PROVE W[1][p] = F[p[1]]
    OBVIOUS
  <2> DEFINE one == Heard(said, 1)
  <2>1. one \in [1 .. 1 -> Observations] /\ one[1] = said[1]
    BY <1>0 DEF Heard
  <2> DEFINE z == 0
  <2>2. z \in Nat /\ z + 1 = 1
    OBVIOUS
  <2> HIDE DEF one, z
  <2>3. one \in [1 .. z + 1 -> Observations] /\ p \in [1 .. z + 1 -> States]
    BY <2>1, <2>2
  <2>4. PICK h : Walks(m, one, z, p, h)
    BY <2>2, <2>3, PathIs
  <2>5. h[0] = FirstOf(m, one[1])[p[1]] /\ PathWeight(m, p, one) = h[z]
    BY <2>4 DEF Walks
  <2>6. W[1][p] = PathWeight(m, p, one)
    BY <1>0, <1>5 DEF one
  <2> QED
    BY <2>1, <2>5, <2>6 DEF F, z
<1>8. \A i \in 1 .. N : \A p \in [1 .. i -> K] : \A k \in K :
        W[i + 1][Longer(p, i, k)] = W[i][p] * G[i][p[i]][k]
  <2> SUFFICES ASSUME NEW i \in 1 .. N, NEW p \in [1 .. i -> K], NEW k \in K
               PROVE  W[i + 1][Longer(p, i, k)] = W[i][p] * G[i][p[i]][k]
    OBVIOUS
  <2>1. Longer(p, i, k) \in [1 .. i + 1 -> K]
    <3>1. \A q \in 1 .. i + 1 : q # i + 1 => q \in 1 .. i
      OBVIOUS
    <3> QED
      BY <3>1 DEF Longer
  <2>2. W[i + 1][Longer(p, i, k)] = PathWeight(m, Longer(p, i, k), Heard(said, i + 1))
    BY <1>0, <1>5, <2>1
  <2>3. W[i][p] = PathWeight(m, p, Heard(said, i))
    BY <1>0, <1>5
  <2>4. PathWeight(m, Longer(p, i, k), Heard(said, i + 1))
          = PathWeight(m, p, Heard(said, i)) * StepTo(m, said[i + 1])[p[i]][k]
    BY PathGoesOn
  <2> QED
    BY <1>3, <2>2, <2>3, <2>4
<1>9. V[1] = F /\ \A i \in 1 .. N :
        V[i + 1] = [j \in K |-> Sigma([k \in K |-> V[i][k] * G[i][k][j]], K)]
  <2>1. \A i \in 1 .. N : V[i + 1] = NextOf(m, said[i + 1], V[i])
    BY DEF WeightsOf
  <2>2. ASSUME NEW i \in 1 .. N
        PROVE  V[i + 1] = [j \in K |-> Sigma([k \in K |-> V[i][k] * G[i][k][j]], K)]
    BY <1>3, <2>1 DEF NextOf
  <2> QED
    BY <2>2 DEF WeightsOf, F
<1>10. Sweep(K, N, F, G, W, V)
  <2> HIDE DEF K
  <2> QED
    BY <1>1, <1>2, <1>4, <1>7, <1>8, <1>9 DEF Sweep
<1>11. SameSums(K, N, P, W, V)
  <2> HIDE DEF K, P
  <2>1. SameSums(K, N, [1 .. N + 1 -> K], W, V)
    BY <1>10, SweepAll, Zenon
  <2> QED
    BY <2>1 DEF P
<1>12. SequenceWeight(m, said) = Sigma(AllPaths(m, said, P), P)
  <2> DEFINE n == N + 1
  <2>1. n \in Nat /\ said \in [1 .. n -> Observations]
    OBVIOUS
  <2> HIDE DEF n
  <2>2. SequenceWeight(m, said) = Sigma(AllPaths(m, said, [1 .. n -> States]), [1 .. n -> States])
    BY <2>1, SequenceIsSum
  <2> QED
    BY <2>2 DEF n
<1>13. Sigma(W[N + 1], P) = Sigma(V[N + 1], K)
  <2> HIDE DEF K, P
  <2> QED
    BY <1>11 DEF SameSums
<1> HIDE DEF P
<1> QED
  BY <1>6, <1>12, <1>13
-----------------------------------------------------------------------------
\* What a model knows of what it heard: its last column stands for the weights of the paths that
\* end in each state.
Told(m, said) ==
  /\ said \in Seq(Observations) /\ Len(said) \in Nat \ {0} /\ m.count = Len(said)
  /\ \E V : /\ WeightsOf(m, said, Len(said) - 1, V)
            /\ StandsFor(m, m.alpha[m.count - 1], V[Len(said)])

Hearings == [known : BOOLEAN, said : Seq(Observations)]

ClassifierInv ==
  /\ hmm \in Seq(LoadedModels) /\ heard \in Seq(Hearings) /\ Len(heard) = Len(hmm)
  /\ \A n \in 1 .. Len(hmm) : heard[n].known => Told(hmm[n], heard[n].said)
  /\ MixturesAreWhole
  /\ AnswersAreForward

\* What does not change in a model.
SameModel(m, n) ==
  n.transition = m.transition /\ n.initial = m.initial /\ n.emission = m.emission

\* Models with the same parameters give the same weights.
LEMMA SameWeights ==
  ASSUME NEW m, NEW n, SameModel(m, n)
  PROVE  /\ \A s, o : Emitted(n, s, o) = Emitted(m, s, o)
         /\ IsPositive(n) <=> IsPositive(m)
         /\ \A o : FirstOf(n, o) = FirstOf(m, o) /\ StepTo(n, o) = StepTo(m, o)
         /\ \A o, v : NextOf(n, o, v) = NextOf(m, o, v)
         /\ \A said, N, V : WeightsOf(n, said, N, V) <=> WeightsOf(m, said, N, V)
         /\ \A c, v : StandsFor(n, c, v) <=> StandsFor(m, c, v)
<1>1. \A s, o : Emitted(n, s, o) = Emitted(m, s, o)
  BY DEF Emitted, SameModel
<1>2. IsPositive(n) <=> IsPositive(m)
  BY <1>1 DEF IsPositive, SameModel
<1>3. \A o : FirstOf(n, o) = FirstOf(m, o) /\ StepTo(n, o) = StepTo(m, o)
  BY <1>1 DEF FirstOf, StepTo, SameModel
<1>4. \A o, v : NextOf(n, o, v) = NextOf(m, o, v)
  BY <1>3 DEF NextOf
<1>5. \A said, N, V : WeightsOf(n, said, N, V) <=> WeightsOf(m, said, N, V)
  BY <1>3, <1>4 DEF WeightsOf
<1>6. \A c, v : StandsFor(n, c, v) <=> StandsFor(m, c, v)
  BY <1>2 DEF StandsFor
<1> QED
  BY <1>1, <1>2, <1>3, <1>4, <1>5, <1>6

\* What a step of a model writes.
LEMMA PredictedIs ==
  ASSUME SequencesAssumption, NEW m \in LoadedModels, NEW o \in Observations,
         NEW init \in BOOLEAN, IsInRange(m, init)
  PROVE  LET n == Predicted(m, o, init)
             i == IF init THEN 0 ELSE m.count
         IN  /\ n \in LoadedModels /\ SameModel(m, n)
             /\ i \in 0 .. MaxSeqLen - 1 /\ n.count = i + 1
             /\ n.alpha[i] = IF init \/ i = 0 THEN FirstColumn(m, o) ELSE NextColumn(m, o, i)
             /\ n.scale[i] = LogSumExp(Over(n.alpha[i]))
<1> DEFINE i == IF init THEN 0 ELSE m.count
           column == IF init \/ i = 0 THEN FirstColumn(m, o) ELSE NextColumn(m, o, i)
           start == IF init THEN Columns ELSE m.alpha
           sum == LogSumExp(Over(column))
           n == [m EXCEPT !.alpha = [start EXCEPT ![i] = column],
                          !.scale = [m.scale EXCEPT ![i] = sum],
                          !.count = i + 1]
<1>0. MaxSeqLen \in Nat \ {0}
  BY DEF SequencesAssumption
<1>1. i \in 0 .. MaxSeqLen - 1 /\ i + 1 \in 0 .. MaxSeqLen
  BY <1>0 DEF IsInRange
<1>2. m.alpha \in [0 .. MaxSeqLen - 1 -> WeightColumns]
  BY DEF LoadedModels
<1>3. start \in [0 .. MaxSeqLen - 1 -> WeightColumns]
  BY <1>2 DEF Columns, OddColumn, WeightColumns, Magnitudes
<1>4. column \in WeightColumns
  <2>1. CASE init \/ i = 0
    BY <2>1, ColumnsTyped
  <2>2. CASE ~init /\ i # 0
    <3>1. i - 1 \in 0 .. MaxSeqLen - 1
      BY <1>0, <1>1, <2>2
    <3>2. m.alpha[i - 1] \in WeightColumns
      BY <1>2, <3>1
    <3> HIDE DEF i
    <3>3. NextColumn(m, o, i) \in WeightColumns
      BY <3>2, ColumnsTyped
    <3> QED
      BY <2>2, <3>3
  <2> QED
    BY <2>1, <2>2
<1>5. Predicted(m, o, init) = n
  BY DEF Predicted
<1> HIDE DEF i, column, start
<1>6. sum \in Magnitudes
  BY <1>4, ColumnsTyped
<1> HIDE DEF sum
<1>7. /\ n.transition = m.transition /\ n.initial = m.initial /\ n.emission = m.emission
      /\ n.alpha = [start EXCEPT ![i] = column] /\ n.scale = [m.scale EXCEPT ![i] = sum]
      /\ n.count = i + 1
  BY DEF LoadedModels
<1>8. m.scale \in [0 .. MaxSeqLen - 1 -> Magnitudes]
  BY DEF LoadedModels
<1>9. n.alpha[i] = column /\ n.scale[i] = sum
  BY <1>1, <1>3, <1>7, <1>8
<1>10. n \in LoadedModels
  <2>1. [start EXCEPT ![i] = column] \in [0 .. MaxSeqLen - 1 -> WeightColumns]
    BY <1>3, <1>4
  <2>2. [m.scale EXCEPT ![i] = sum] \in [0 .. MaxSeqLen - 1 -> Magnitudes]
    BY <1>6, <1>8
  <2> QED
    BY <1>1, <2>1, <2>2 DEF LoadedModels
<1> HIDE DEF n
<1>11. SameModel(m, n)
  BY <1>7 DEF SameModel
<1>12. n.scale[i] = LogSumExp(Over(n.alpha[i]))
  BY <1>9 DEF sum
<1> QED
  BY <1>1, <1>5, <1>7, <1>9, <1>10, <1>11, <1>12 DEF i, column

\* After an initial step a model was told one observation, after another one more.
LEMMA PredictedTold ==
  ASSUME SequencesAssumption, NEW m \in LoadedModels, NEW o \in Observations,
         NEW init \in BOOLEAN, IsInRange(m, init)
  PROVE  /\ init => Told(Predicted(m, o, init), <<o>>)
         /\ \A said : ~init /\ Told(m, said) => Told(Predicted(m, o, init), Append(said, o))
<1> DEFINE n == Predicted(m, o, init)
           i == IF init THEN 0 ELSE m.count
<1>1. /\ n \in LoadedModels /\ SameModel(m, n)
      /\ i \in 0 .. MaxSeqLen - 1 /\ n.count = i + 1
      /\ n.alpha[i] = IF init \/ i = 0 THEN FirstColumn(m, o) ELSE NextColumn(m, o, i)
      /\ n.scale[i] = LogSumExp(Over(n.alpha[i]))
  BY PredictedIs
<1> HIDE DEF n
<1>2. ASSUME init PROVE Told(n, <<o>>)
  <2> DEFINE V == [q \in 1 .. 1 |-> FirstOf(m, o)]
             said == <<o>>
  <2>1. said \in Seq(Observations) /\ Len(said) = 1 /\ said[1] = o
    OBVIOUS
  <2>2. n.count = 1 /\ n.alpha[0] = FirstColumn(m, o)
    BY <1>1, <1>2
  <2>3. V[1] = FirstOf(m, o)
    OBVIOUS
  <2> HIDE DEF V, said
  <2>4. StandsFor(n, n.alpha[n.count - 1], V[1])
    <3>1. StandsFor(m, FirstColumn(m, o), FirstOf(m, o))
      BY FirstStands
    <3>2. StandsFor(n, FirstColumn(m, o), FirstOf(m, o))
      BY <1>1, <3>1, SameWeights
    <3>3. n.count - 1 = 0
      BY <2>2
    <3> QED
      BY <2>2, <2>3, <3>2, <3>3
  <2>5. WeightsOf(n, said, 0, V)
    <3>1. FirstOf(n, o) = FirstOf(m, o)
      BY <1>1, SameWeights
    <3> QED
      BY <2>1, <2>3, <3>1 DEF WeightsOf
  <2>6. Len(said) - 1 = 0 /\ Len(said) \in Nat \ {0}
    BY <2>1
  <2>7. Told(n, said)
    BY <2>1, <2>2, <2>4, <2>5, <2>6 DEF Told
  <2> QED
    BY <2>7 DEF said
<1>3. ASSUME NEW said, ~init, Told(m, said) PROVE Told(n, Append(said, o))
  <2> DEFINE L == Len(said)
             longer == Append(said, o)
  <2>0. /\ said \in Seq(Observations) /\ L \in Nat \ {0} /\ m.count = L
        /\ \E V : WeightsOf(m, said, L - 1, V) /\ StandsFor(m, m.alpha[m.count - 1], V[L])
    BY <1>3 DEF Told
  <2> HIDE DEF L
  <2>1. PICK V : WeightsOf(m, said, L - 1, V) /\ StandsFor(m, m.alpha[m.count - 1], V[L])
    BY <2>0
  <2>2. /\ longer \in Seq(Observations) /\ Len(longer) = L + 1 /\ longer[L + 1] = o
        /\ \A q \in 1 .. L : longer[q] = said[q]
    BY <2>0 DEF L
  <2> HIDE DEF longer
  <2> DEFINE U == [q \in 1 .. L + 1 |-> IF q = L + 1 THEN NextOf(m, o, V[L]) ELSE V[q]]
  <2>3. U[L + 1] = NextOf(m, o, V[L]) /\ \A q \in 1 .. L : U[q] = V[q]
    <3>1. L + 1 \in 1 .. L + 1 /\ \A q \in 1 .. L : q \in 1 .. L + 1 /\ q # L + 1
      BY <2>0
    <3> QED
      BY <3>1
  <2> HIDE DEF U
  <2>4. /\ L + 1 - 1 = L /\ L + 1 \in Nat \ {0} /\ 1 \in 1 .. L /\ L \in 1 .. L
        /\ \A q \in 1 .. L : q \in 1 .. L - 1 \/ q = L
        /\ \A q \in 1 .. L - 1 : q \in 1 .. L /\ q + 1 \in 1 .. L
    BY <2>0
  <2>5. WeightsOf(m, longer, L, U)
    <3>1. /\ V[1] = FirstOf(m, said[1])
          /\ \A q \in 1 .. L - 1 : V[q + 1] = NextOf(m, said[q + 1], V[q])
      BY <2>1 DEF WeightsOf
    <3>2. U[1] = FirstOf(m, longer[1])
      BY <2>2, <2>3, <2>4, <3>1
    <3>3. ASSUME NEW q \in 1 .. L PROVE U[q + 1] = NextOf(m, longer[q + 1], U[q])
      <4>1. CASE q = L
        BY <2>2, <2>3, <2>4, <4>1
      <4>2. CASE q \in 1 .. L - 1
        <5>1. q \in 1 .. L /\ q + 1 \in 1 .. L
          BY <2>4, <4>2
        <5> QED
          BY <2>2, <2>3, <3>1, <4>2, <5>1
      <4> QED
        BY <2>4, <4>1, <4>2
    <3> QED
      BY <3>2, <3>3 DEF WeightsOf
  <2>6. i = L /\ L # 0 /\ n.count = L + 1 /\ n.alpha[L] = NextColumn(m, o, L)
    BY <1>1, <1>3, <2>0
  <2>7. StandsFor(n, n.alpha[n.count - 1], U[L + 1])
    <3>1. StandsFor(m, m.alpha[L - 1], V[L])
      BY <2>0, <2>1
    <3>2. StandsFor(m, NextColumn(m, o, L), NextOf(m, o, V[L]))
      BY <3>1, NextStands
    <3>3. StandsFor(m, n.alpha[n.count - 1], U[L + 1])
      BY <2>3, <2>4, <2>6, <3>2
    <3> QED
      BY <1>1, <3>3, SameWeights
  <2>8. WeightsOf(n, longer, L, U)
    BY <1>1, <2>5, SameWeights
  <2>9. Told(n, longer)
    <3>1. Len(longer) - 1 = L /\ Len(longer) = L + 1
      BY <2>2, <2>4
    <3> QED
      BY <2>2, <2>4, <2>6, <2>7, <2>8, <3>1 DEF Told
  <2> QED
    BY <2>9 DEF longer
<1> QED
  BY <1>2, <1>3 DEF n

\* The answer of a model that was told a sequence.
LEMMA AnswerIs ==
  ASSUME SequencesAssumption, NEW m \in LoadedModels, NEW said, Told(m, said), NEW x,
         x = LogSumExp(Over(m.alpha[m.count - 1]))
  PROVE  (x # Odd => x = SequenceWeight(m, said)) /\ (IsPositive(m) => x # Odd)
<1> DEFINE L == Len(said)
           N == L - 1
<1>1. /\ said \in Seq(Observations) /\ L \in Nat \ {0} /\ m.count = L
      /\ \E V : WeightsOf(m, said, L - 1, V) /\ StandsFor(m, m.alpha[m.count - 1], V[L])
  BY DEF Told
<1>2. PICK V : WeightsOf(m, said, L - 1, V) /\ StandsFor(m, m.alpha[m.count - 1], V[L])
  BY <1>1
<1>3. said \in [1 .. L -> Observations]
  BY <1>1
<1> HIDE DEF L
<1>4. N \in Nat /\ N + 1 = L
  BY <1>1
<1>5. WeightsOf(m, said, N, V)
  BY <1>2
<1> HIDE DEF N
<1>6. said \in [1 .. N + 1 -> Observations]
  BY <1>3, <1>4
<1>7. SequenceWeight(m, said) = Sigma(V[N + 1], States)
  BY <1>4, <1>5, <1>6, SequenceWeightIs
<1>8. (x = Odd \/ x = Sigma(V[L], States)) /\ (IsPositive(m) => x # Odd)
  BY <1>2, SumStands
<1> QED
  BY <1>4, <1>7, <1>8
\* A model is complete.
IsWhole(m) ==
  \A s \in States :
    LET g == m.emission[s]
    IN /\ g.index = Len(g.components)
       /\ \E c \in Configurations : \E k \in DOMAIN c.models :
            /\ c.models[k].transition = m.transition
            /\ g.components = c.models[k].emission[s]

\* What is made of a model of a configuration.
LEMMA LoadedIs ==
  ASSUME SequencesAssumption, NEW c \in Configurations, NEW k \in DOMAIN c.models,
         NEW count \in {0, MaxSeqLen}
  PROVE  Loaded(c.models[k], count) \in LoadedModels /\ IsWhole(Loaded(c.models[k], count))
<1> DEFINE given == c.models[k]
           m == Loaded(given, count)
<1>1. /\ given.transition \in [States -> [States -> Nat]] /\ given.initial \in [States -> Nat]
      /\ given.emission \in [States -> Seq(Gaussians)]
      /\ MaxSeqLen \in Nat \ {0}
  <2>1. c.models \in Seq([transition : [States -> [States -> Nat]], initial : [States -> Nat],
                          emission : [States -> Seq([Observations -> Nat])],
                          missing : SUBSET States])
    BY DEF SequencesAssumption
  <2> DEFINE X == [transition : [States -> [States -> Nat]], initial : [States -> Nat],
                   emission : [States -> Seq([Observations -> Nat])],
                   missing : SUBSET States]
  <2>2. given \in X
    <3>1. c.models \in Seq(X) /\ k \in DOMAIN c.models
      BY <2>1
    <3> HIDE DEF X
    <3> QED
      BY <3>1
  <2> HIDE DEF given
  <2> QED
    BY <2>2 DEF Gaussians, SequencesAssumption
<1> HIDE DEF given
<1>2. /\ m.transition = given.transition /\ m.initial = given.initial
      /\ m.emission = [s \in States |-> MixtureOf(given.emission[s])]
      /\ m.alpha = Columns /\ m.scale = [i \in 0 .. MaxSeqLen - 1 |-> Odd] /\ m.count = count
  BY DEF Loaded
<1>3. ASSUME NEW s \in States
      PROVE  /\ m.emission[s] = [index |-> Len(given.emission[s]), components |-> given.emission[s]]
             /\ m.emission[s].index = Len(given.emission[s])
             /\ m.emission[s].components = given.emission[s]
             /\ m.emission[s] \in Mixtures
  <2> DEFINE gs == given.emission[s]
  <2>1. gs \in Seq(Gaussians)
    BY <1>1
  <2> HIDE DEF gs
  <2>2. MixtureOf(gs) = [index |-> Len(gs), components |-> gs]
    BY <2>1, MixtureIs
  <2>3. Len(gs) \in Nat
    BY <2>1
  <2>4. MixtureOf(gs) \in Mixtures
    BY <2>1, <2>2, <2>3 DEF Mixtures
  <2>5. m.emission[s] = MixtureOf(gs)
    BY <1>2 DEF gs
  <2>6. MixtureOf(gs).index = Len(gs) /\ MixtureOf(gs).components = gs
    BY <2>2
  <2> HIDE DEF m
  <2> QED
    BY <2>2, <2>4, <2>5, <2>6 DEF gs
<1>4. Columns \in [0 .. MaxSeqLen - 1 -> WeightColumns]
  BY DEF Columns, OddColumn, WeightColumns, Magnitudes
<1>5. m \in LoadedModels
  <2>1. m.emission \in [States -> Mixtures]
    BY <1>2, <1>3
  <2>2. m = [transition |-> m.transition, initial |-> m.initial, emission |-> m.emission,
             alpha |-> m.alpha, scale |-> m.scale, count |-> m.count]
    BY DEF Loaded
  <2>3. m.scale \in [0 .. MaxSeqLen - 1 -> Magnitudes] /\ m.count \in 0 .. MaxSeqLen
    BY <1>1, <1>2 DEF Magnitudes
  <2> HIDE DEF m
  <2> QED
    BY <1>1, <1>2, <1>4, <2>1, <2>2, <2>3 DEF LoadedModels
<1>6. IsWhole(m)
  <2> SUFFICES ASSUME NEW s \in States
               PROVE  /\ m.emission[s].index = Len(m.emission[s].components)
                      /\ c.models[k].transition = m.transition
                      /\ m.emission[s].components = c.models[k].emission[s]
    BY DEF IsWhole
  <2> HIDE DEF m
  <2>1. m.emission[s].index = Len(given.emission[s])
    BY <1>3
  <2>2. m.transition = c.models[k].transition
    BY <1>2 DEF given
  <2>3. m.emission[s].components = given.emission[s]
    BY <1>3
  <2>4. given.emission[s] = c.models[k].emission[s]
    BY DEF given
  <2> QED
    BY <2>1, <2>2, <2>3, <2>4
<1> QED
  BY <1>5, <1>6 DEF given

\* Loading keeps the invariant of the classifier.
LEMMA LoadKeeps ==
  ASSUME SequencesAssumption, ClassifierInv, LoadConf
  PROVE  ClassifierInv'
<1>1. PICK c \in Configurations, count \in {0, MaxSeqLen} :
        /\ hmm' = hmm \o [n \in 1 .. Available(c) |-> Loaded(c.models[n], count)]
        /\ heard' = heard \o [n \in 1 .. Available(c) |-> Unknown]
  BY DEF LoadConf
<1>2. answers' = <<>>
  BY DEF LoadConf
<1> DEFINE a == Available(c)
           more == [n \in 1 .. a |-> Loaded(c.models[n], count)]
           unheard == [n \in 1 .. a |-> Unknown]
           L == Len(hmm)
<1>3. a \in Nat /\ \A n \in 1 .. a : n \in DOMAIN c.models
  <2>1. c.models \in Seq([transition : [States -> [States -> Nat]], initial : [States -> Nat],
                          emission : [States -> Seq([Observations -> Nat])],
                          missing : SUBSET States])
    BY DEF SequencesAssumption
  <2>2. Whole(c) \subseteq DOMAIN c.models
    BY <2>1 DEF Whole
  <2> QED
    BY <2>2, AvailableIs
<1> HIDE DEF a
<1>4. \A n \in 1 .. a : more[n] \in LoadedModels /\ IsWhole(more[n])
  BY <1>3, LoadedIs
<1>5. \A n \in 1 .. a : unheard[n] \in Hearings /\ ~unheard[n].known
  BY DEF Unknown, Hearings
<1>6. /\ hmm \in Seq(LoadedModels) /\ heard \in Seq(Hearings) /\ Len(heard) = L /\ L \in Nat
      /\ \A n \in 1 .. L : heard[n].known => Told(hmm[n], heard[n].said)
      /\ MixturesAreWhole
  BY DEF ClassifierInv
<1>7. more \in Seq(LoadedModels) /\ unheard \in Seq(Hearings) /\ Len(more) = a /\ Len(unheard) = a
  <2>1. more \in [1 .. a -> LoadedModels] /\ unheard \in [1 .. a -> Hearings]
    BY <1>4, <1>5
  <2> HIDE DEF more, unheard
  <2> QED
    BY <1>3, <2>1
<1> HIDE DEF more, unheard
<1>8. /\ hmm' \in Seq(LoadedModels) /\ heard' \in Seq(Hearings) /\ Len(heard') = Len(hmm')
      /\ Len(hmm') = L + a
      /\ \A n \in 1 .. L : hmm'[n] = hmm[n] /\ heard'[n] = heard[n]
      /\ \A n \in 1 .. L + a : n \in 1 .. L \/
           (n - L \in 1 .. a /\ hmm'[n] = more[n - L] /\ heard'[n] = unheard[n - L])
  <2>1. hmm' = hmm \o more /\ heard' = heard \o unheard
    BY <1>1 DEF a, more, unheard
  <2>2. Len(hmm) = L
    OBVIOUS
  <2> HIDE DEF L
  <2>3. hmm' \in Seq(LoadedModels) /\ heard' \in Seq(Hearings)
    BY <1>6, <1>7, <2>1
  <2>4. /\ Len(hmm \o more) = L + a /\ Len(heard \o unheard) = L + a
        /\ \A n \in 1 .. L + a : /\ (hmm \o more)[n] = IF n <= L THEN hmm[n] ELSE more[n - L]
                               /\ (heard \o unheard)[n]
                                    = IF n <= L THEN heard[n] ELSE unheard[n - L]
    <3>1. /\ Len(hmm \o more) = Len(hmm) + Len(more)
          /\ \A n \in 1 .. Len(hmm) + Len(more) :
               (hmm \o more)[n] = IF n <= Len(hmm) THEN hmm[n] ELSE more[n - Len(hmm)]
      BY <1>6, <1>7, ConcatProperties
    <3>2. /\ Len(heard \o unheard) = Len(heard) + Len(unheard)
          /\ \A n \in 1 .. Len(heard) + Len(unheard) :
               (heard \o unheard)[n] = IF n <= Len(heard) THEN heard[n] ELSE unheard[n - Len(heard)]
      BY <1>6, <1>7, ConcatProperties
    <3>3. Len(heard) = L /\ Len(more) = a /\ Len(unheard) = a
      BY <1>6, <1>7
    <3> QED
      BY <2>2, <3>1, <3>2, <3>3
  <2>5. ASSUME NEW n \in 1 .. L PROVE hmm'[n] = hmm[n] /\ heard'[n] = heard[n]
    <3>1. n \in 1 .. L + a /\ n <= L
      BY <1>3, <1>6
    <3> QED
      BY <2>1, <2>4, <3>1
  <2>6. ASSUME NEW n \in 1 .. L + a, n \notin 1 .. L
        PROVE  n - L \in 1 .. a /\ hmm'[n] = more[n - L] /\ heard'[n] = unheard[n - L]
    <3>1. n - L \in 1 .. a /\ ~(n <= L)
      BY <1>3, <1>6, <2>6
    <3> QED
      BY <2>1, <2>4, <3>1
  <2>7. Len(heard') = Len(hmm') /\ Len(hmm') = L + a
    BY <2>1, <2>4
  <2> QED
    BY <2>3, <2>5, <2>6, <2>7
<1>9. ASSUME NEW n \in 1 .. L + a PROVE heard'[n].known => Told(hmm'[n], heard'[n].said)
  <2>1. CASE n \in 1 .. L
    BY <1>6, <1>8, <2>1
  <2>2. CASE n \notin 1 .. L
    BY <1>5, <1>8, <2>2
  <2> QED
    BY <2>1, <2>2
<1>10. ASSUME NEW n \in 1 .. L + a PROVE IsWhole(hmm'[n])
  <2>1. CASE n \in 1 .. L
    <3>1. n \in DOMAIN hmm
      BY <1>6, <2>1
    <3>2. IsWhole(hmm[n])
      BY <1>6, <3>1 DEF IsWhole, MixturesAreWhole
    <3> QED
      BY <1>8, <2>1, <3>2
  <2>2. CASE n \notin 1 .. L
    BY <1>4, <1>8, <2>2
  <2> QED
    BY <2>1, <2>2
<1>11. MixturesAreWhole'
  <2>1. \A n \in DOMAIN hmm' : IsWhole(hmm'[n])
    BY <1>8, <1>10
  <2> QED
    BY <2>1 DEF IsWhole, MixturesAreWhole
<1>12. AnswersAreForward'
  BY <1>2 DEF AnswersAreForward
<1>13. \A n \in 1 .. Len(hmm') : heard'[n].known => Told(hmm'[n], heard'[n].said)
  BY <1>8, <1>9
<1>14. (\A n \in 1 .. Len(hmm) : heard[n].known => Told(hmm[n], heard[n].said))'
  BY <1>13
<1> QED
  BY <1>8, <1>11, <1>12, <1>14 DEF ClassifierInv

\* Completeness is about the parameters only.
LEMMA SameWhole ==
  ASSUME NEW m, NEW n, SameModel(m, n), IsWhole(m)
  PROVE  IsWhole(n)
BY DEF SameModel, IsWhole

\* Completeness, model by model.
LEMMA WholeIs ==
  ASSUME hmm \in Seq(LoadedModels)
  PROVE  MixturesAreWhole <=> \A n \in 1 .. Len(hmm) : IsWhole(hmm[n])
BY DEF MixturesAreWhole, IsWhole

\* An observation keeps the invariant of the classifier.
LEMMA StepKeeps ==
  ASSUME SequencesAssumption, ClassifierInv, NEW o \in Observations, NEW init \in BOOLEAN,
         ClassifyI(o, init)
  PROVE  ClassifierInv'
<1> DEFINE L == Len(hmm)
<1>1. /\ hmm \in Seq(LoadedModels) /\ heard \in Seq(Hearings) /\ Len(heard) = L /\ L \in Nat
      /\ \A n \in 1 .. L : heard[n].known => Told(hmm[n], heard[n].said)
      /\ MixturesAreWhole /\ DOMAIN hmm = 1 .. L
  BY DEF ClassifierInv
<1>2. \A n \in 1 .. L : hmm[n] \in LoadedModels /\ heard[n] \in Hearings /\ IsWhole(hmm[n])
  BY <1>1, WholeIs
<1>3. CASE \A n \in DOMAIN hmm : IsInRange(hmm[n], init)
  <2>1. /\ hmm' = [n \in DOMAIN hmm |-> Predicted(hmm[n], o, init)]
        /\ answers' = [n \in DOMAIN hmm |-> hmm'[n].scale[hmm'[n].count - 1]]
        /\ heard' = [n \in DOMAIN hmm |->
                       IF init THEN [known |-> TRUE, said |-> <<o>>]
                       ELSE IF heard[n].known THEN [heard[n] EXCEPT !.said = Append(@, o)]
                       ELSE Unknown]
        /\ stepwise' = TRUE
    BY <1>3 DEF ClassifyI
  <2>2. ASSUME NEW n \in 1 .. L
        PROVE  /\ hmm'[n] \in LoadedModels /\ SameModel(hmm[n], hmm'[n])
               /\ IsWhole(hmm'[n])
               /\ answers'[n] = LogSumExp(Over(hmm'[n].alpha[hmm'[n].count - 1]))
               /\ heard'[n] \in Hearings
               /\ heard'[n].known => Told(hmm'[n], heard'[n].said)
    <3> DEFINE m == hmm[n]
               p == Predicted(m, o, init)
               i == IF init THEN 0 ELSE m.count
               h == heard[n]
               k == heard'[n]
    <3>1. m \in LoadedModels /\ IsInRange(m, init) /\ IsWhole(m) /\ h \in Hearings
      BY <1>1, <1>2, <1>3
    <3>2. hmm'[n] = p /\ answers'[n] = p.scale[p.count - 1]
      BY <1>1, <2>1
    <3>3. k = IF init THEN [known |-> TRUE, said |-> <<o>>]
              ELSE IF h.known THEN [h EXCEPT !.said = Append(@, o)] ELSE Unknown
      BY <1>1, <2>1
    <3>4. h.known => Told(m, h.said)
      BY <1>1
    <3> HIDE DEF m, h, k
    <3>5. /\ p \in LoadedModels /\ SameModel(m, p)
          /\ i \in 0 .. MaxSeqLen - 1 /\ p.count = i + 1
          /\ p.scale[i] = LogSumExp(Over(p.alpha[i]))
      BY <3>1, PredictedIs
    <3>6. /\ init => Told(p, <<o>>)
          /\ \A said : ~init /\ Told(m, said) => Told(p, Append(said, o))
      BY <3>1, PredictedTold
    <3> HIDE DEF p, i
    <3>7. p.count - 1 = i
      BY <3>5
    <3>8. IsWhole(p)
      BY <3>1, <3>5, SameWhole
    <3>9. h.known \in BOOLEAN /\ h.said \in Seq(Observations)
      BY <3>1 DEF Hearings
    <3>10. k \in Hearings /\ (k.known => Told(p, k.said))
      <4>1. CASE init
        <5>1. <<o>> \in Seq(Observations)
          OBVIOUS
        <5> QED
          BY <3>3, <3>6, <4>1, <5>1 DEF Hearings
      <4>2. CASE ~init /\ h.known
        <5>1. h = [known |-> h.known, said |-> h.said]
          BY <3>1 DEF Hearings
        <5>2. k = [h EXCEPT !.said = Append(h.said, o)]
          BY <3>3, <4>2
        <5> DEFINE longer == Append(h.said, o)
        <5>4. longer \in Seq(Observations)
          BY <3>9
        <5>5. k = [h EXCEPT !.said = longer]
          BY <5>2
        <5> HIDE DEF longer
        <5>6. k = [known |-> h.known, said |-> longer]
          BY <5>1, <5>5
        <5>7. k.said = longer /\ k.known = h.known /\ k \in Hearings
          BY <3>9, <5>4, <5>6 DEF Hearings
        <5>3. k.said = Append(h.said, o) /\ k.known = h.known /\ k \in Hearings
          BY <5>7 DEF longer
        <5> QED
          BY <3>4, <3>6, <4>2, <5>3
      <4>3. CASE ~init /\ ~h.known
        BY <3>3, <4>3 DEF Unknown, Hearings
      <4> QED
        BY <4>1, <4>2, <4>3
    <3> QED
      BY <3>2, <3>5, <3>7, <3>8, <3>10 DEF m, k
  <2>3. /\ hmm' = [n \in 1 .. L |-> hmm'[n]] /\ heard' = [n \in 1 .. L |-> heard'[n]]
        /\ DOMAIN answers' = 1 .. L
    BY <1>1, <2>1
  <2> HIDE DEF L
  <2>4. /\ hmm' \in Seq(LoadedModels) /\ heard' \in Seq(Hearings)
        /\ Len(hmm') = L /\ Len(heard') = L /\ DOMAIN hmm' = 1 .. L
    <3>1. hmm' \in [1 .. L -> LoadedModels] /\ heard' \in [1 .. L -> Hearings]
      BY <2>2, <2>3
    <3> QED
      BY <1>1, <3>1
  <2>5. MixturesAreWhole'
    <3>1. \A n \in DOMAIN hmm' : IsWhole(hmm'[n])
      BY <2>2, <2>4
    <3> QED
      BY <3>1 DEF IsWhole, MixturesAreWhole
  <2>6. ASSUME NEW n \in DOMAIN answers', heard'[n].known
        PROVE  /\ answers'[n] # Odd => answers'[n] = SequenceWeight(hmm'[n], heard'[n].said)
               /\ IsPositive(hmm'[n]) => answers'[n] # Odd
    <3>1. n \in 1 .. L
      BY <2>3
    <3>2. /\ hmm'[n] \in LoadedModels /\ Told(hmm'[n], heard'[n].said)
          /\ answers'[n] = LogSumExp(Over(hmm'[n].alpha[hmm'[n].count - 1]))
      BY <2>2, <2>6, <3>1
    <3> QED
      BY <3>2, AnswerIs
  <2>7. AnswersAreForward'
    BY <2>1, <2>6 DEF AnswersAreForward
  <2>8. \A n \in 1 .. Len(hmm') : heard'[n].known => Told(hmm'[n], heard'[n].said)
    BY <2>2, <2>4
  <2>9. (\A n \in 1 .. Len(hmm) : heard[n].known => Told(hmm[n], heard[n].said))'
    BY <2>8
  <2> QED
    BY <2>4, <2>5, <2>7, <2>9 DEF ClassifierInv
<1>4. CASE ~ \A n \in DOMAIN hmm : IsInRange(hmm[n], init)
  <2>1. UNCHANGED <<hmm, heard, answers, stepwise>>
    BY <1>4 DEF ClassifyI
  <2> QED
    BY <2>1 DEF ClassifierInv, MixturesAreWhole, AnswersAreForward
<1> QED
  BY <1>3, <1>4

\* A sequence as a whole writes over the columns it has rows for, and no others.
LEMMA OverwrittenIs ==
  ASSUME SequencesAssumption, NEW m \in LoadedModels, NEW length \in 1 .. MaxSeqLen + 1
  PROVE  LET n == Overwritten(m, length)
         IN  /\ n \in LoadedModels /\ SameModel(m, n)
             /\ \A said : Told(m, said) /\ ~(length >= m.count) => Told(n, said)
<1> DEFINE alpha1 == [i \in 0 .. MaxSeqLen - 1 |-> IF i < length THEN OddColumn ELSE m.alpha[i]]
           scale1 == [i \in 0 .. MaxSeqLen - 1 |-> IF i < length THEN Odd ELSE m.scale[i]]
           n == Overwritten(m, length)
<1>0. MaxSeqLen \in Nat \ {0}
  BY DEF SequencesAssumption
<1>1. /\ m.alpha \in [0 .. MaxSeqLen - 1 -> WeightColumns]
      /\ m.scale \in [0 .. MaxSeqLen - 1 -> Magnitudes] /\ m.count \in 0 .. MaxSeqLen
  BY DEF LoadedModels
<1>2. n = [m EXCEPT !.alpha = alpha1, !.scale = scale1]
  BY <1>1 DEF Overwritten
<1>3. alpha1 \in [0 .. MaxSeqLen - 1 -> WeightColumns]
  BY <1>1 DEF OddColumn, WeightColumns, Magnitudes
<1>4. scale1 \in [0 .. MaxSeqLen - 1 -> Magnitudes]
  BY <1>1 DEF Magnitudes
<1>5. \A i \in 0 .. MaxSeqLen - 1 : ~(i < length) => alpha1[i] = m.alpha[i]
  OBVIOUS
<1> HIDE DEF n, alpha1, scale1
<1>6. n \in LoadedModels
  BY <1>2, <1>3, <1>4 DEF LoadedModels
<1>7. /\ n.transition = m.transition /\ n.initial = m.initial /\ n.emission = m.emission
      /\ n.alpha = alpha1 /\ n.count = m.count
  BY <1>2 DEF LoadedModels
<1>8. SameModel(m, n)
  BY <1>7 DEF SameModel
<1>9. ASSUME NEW said, Told(m, said), ~(length >= m.count) PROVE Told(n, said)
  <2> DEFINE L == Len(said)
  <2>0. /\ said \in Seq(Observations) /\ L \in Nat \ {0} /\ m.count = L
        /\ \E V : WeightsOf(m, said, L - 1, V) /\ StandsFor(m, m.alpha[m.count - 1], V[L])
    BY <1>9 DEF Told
  <2>1. PICK V : WeightsOf(m, said, L - 1, V) /\ StandsFor(m, m.alpha[m.count - 1], V[L])
    BY <2>0
  <2>2. m.count - 1 \in 0 .. MaxSeqLen - 1 /\ ~(m.count - 1 < length)
    BY <1>0, <1>1, <1>9, <2>0
  <2>3. n.alpha[n.count - 1] = m.alpha[m.count - 1]
    BY <1>5, <1>7, <2>2
  <2>4. WeightsOf(n, said, L - 1, V) /\ StandsFor(n, n.alpha[n.count - 1], V[L])
    BY <1>8, <2>1, <2>3, SameWeights
  <2>5. n.count = L
    BY <1>7, <2>0
  <2> QED
    BY <2>0, <2>4, <2>5 DEF Told
<1> QED
  BY <1>6, <1>8, <1>9 DEF n

\* A sequence as a whole keeps it.
LEMMA ClassifyKeeps ==
  ASSUME SequencesAssumption, ClassifierInv, NEW length \in 1 .. MaxSeqLen + 1, Classify(length)
  PROVE  ClassifierInv'
<1> DEFINE L == Len(hmm)
<1>1. /\ hmm \in Seq(LoadedModels) /\ heard \in Seq(Hearings) /\ Len(heard) = L /\ L \in Nat
      /\ \A n \in 1 .. L : heard[n].known => Told(hmm[n], heard[n].said)
      /\ MixturesAreWhole /\ DOMAIN hmm = 1 .. L
  BY DEF ClassifierInv
<1>2. \A n \in 1 .. L : hmm[n] \in LoadedModels /\ heard[n] \in Hearings /\ IsWhole(hmm[n])
  BY <1>1, WholeIs
<1>3. AnswersAreForward'
  <2>1. CASE length <= MaxSeqLen
    BY <2>1 DEF Classify, AnswersAreForward
  <2>2. CASE ~(length <= MaxSeqLen)
    <3>1. UNCHANGED <<hmm, heard, answers, stepwise>>
      BY <2>2 DEF Classify
    <3> QED
      BY <3>1 DEF ClassifierInv, AnswersAreForward
  <2> QED
    BY <2>1, <2>2
<1>4. CASE length <= MaxSeqLen
  <2>1. /\ hmm' = [n \in DOMAIN hmm |-> Overwritten(hmm[n], length)]
        /\ heard' = [n \in DOMAIN hmm |-> IF length >= hmm[n].count THEN Unknown ELSE heard[n]]
    BY <1>4 DEF Classify
  <2>2. ASSUME NEW n \in 1 .. L
        PROVE  /\ hmm'[n] \in LoadedModels /\ IsWhole(hmm'[n]) /\ heard'[n] \in Hearings
               /\ heard'[n].known => Told(hmm'[n], heard'[n].said)
    <3> DEFINE m == hmm[n]
               p == Overwritten(m, length)
               h == heard[n]
               k == heard'[n]
    <3>1. m \in LoadedModels /\ IsWhole(m) /\ h \in Hearings /\ (h.known => Told(m, h.said))
      BY <1>1, <1>2
    <3>2. hmm'[n] = p /\ k = IF length >= m.count THEN Unknown ELSE h
      BY <1>1, <2>1
    <3> HIDE DEF m, h, k
    <3>3. /\ p \in LoadedModels /\ SameModel(m, p)
          /\ \A said : Told(m, said) /\ ~(length >= m.count) => Told(p, said)
      BY <3>1, OverwrittenIs
    <3> HIDE DEF p
    <3>4. IsWhole(p)
      BY <3>1, <3>3, SameWhole
    <3>5. k \in Hearings /\ (k.known => Told(p, k.said))
      <4>1. CASE length >= m.count
        BY <3>2, <4>1 DEF Unknown, Hearings
      <4>2. CASE ~(length >= m.count)
        BY <3>1, <3>2, <3>3, <4>2
      <4> QED
        BY <4>1, <4>2
    <3> QED
      BY <3>2, <3>3, <3>4, <3>5 DEF k
  <2>3. hmm' = [n \in 1 .. L |-> hmm'[n]] /\ heard' = [n \in 1 .. L |-> heard'[n]]
    BY <1>1, <2>1
  <2> HIDE DEF L
  <2>4. /\ hmm' \in Seq(LoadedModels) /\ heard' \in Seq(Hearings)
        /\ Len(hmm') = L /\ Len(heard') = L /\ DOMAIN hmm' = 1 .. L
    <3>1. hmm' \in [1 .. L -> LoadedModels] /\ heard' \in [1 .. L -> Hearings]
      BY <2>2, <2>3
    <3> QED
      BY <1>1, <3>1
  <2>5. MixturesAreWhole'
    <3>1. \A n \in DOMAIN hmm' : IsWhole(hmm'[n])
      BY <2>2, <2>4
    <3> QED
      BY <3>1 DEF IsWhole, MixturesAreWhole
  <2>6. \A n \in 1 .. Len(hmm') : heard'[n].known => Told(hmm'[n], heard'[n].said)
    BY <2>2, <2>4
  <2>7. (\A n \in 1 .. Len(hmm) : heard[n].known => Told(hmm[n], heard[n].said))'
    BY <2>6
  <2> QED
    BY <1>3, <2>4, <2>5, <2>7 DEF ClassifierInv
<1>5. CASE ~(length <= MaxSeqLen)
  <2>1. UNCHANGED <<hmm, heard>>
    BY <1>5 DEF Classify
  <2> QED
    BY <1>3, <2>1 DEF ClassifierInv, MixturesAreWhole
<1> QED
  BY <1>4, <1>5

\* The models are always complete and answer what they should, whatever is loaded and asked.
THEOREM ClassifierIsSound == ClassifierSpec => []ClassifierInv
<1> USE SequencesAssumption
<1>1. ClassifierInit => ClassifierInv
  BY DEF ClassifierInit, ClassifierInv, MixturesAreWhole, AnswersAreForward
<1>2. ClassifierInv /\ [ClassifierNext]_classifierVars => ClassifierInv'
  <2> SUFFICES ASSUME ClassifierInv, [ClassifierNext]_classifierVars PROVE ClassifierInv'
    OBVIOUS
  <2>1. CASE LoadConf
    BY <2>1, LoadKeeps
  <2>2. ASSUME NEW o \in Observations, NEW init \in BOOLEAN, ClassifyI(o, init)
        PROVE  ClassifierInv'
    BY <2>2, StepKeeps
  <2>3. ASSUME NEW length \in 1 .. MaxSeqLen + 1, Classify(length) PROVE ClassifierInv'
    BY <2>3, ClassifyKeeps
  <2>4. CASE UNCHANGED classifierVars
    BY <2>4 DEF classifierVars, ClassifierInv, MixturesAreWhole, AnswersAreForward
  <2> QED
    BY <2>1, <2>2, <2>3, <2>4 DEF ClassifierNext
<1> QED
  BY <1>1, <1>2, PTL DEF ClassifierSpec

\* Asked step by step a model answers with the weight of all it heard since its initial step, as
\* the sum over all paths of states; asked for a whole sequence it never answers with a weight,
\* for that pass multiplies logarithms; and it holds every Gaussian its states were given, and no
\* other (CHMM.predictIterative, forwardMatrixIterative, CHMMClassifier.classify, loadConf).
THEOREM ModelsAnswerRight == ClassifierSpec => []ModelsAreSound
<1>1. ClassifierInv => ModelsAreSound
  BY DEF ClassifierInv, ModelsAreSound
<1> QED
  BY <1>1, ClassifierIsSound, PTL
-----------------------------------------------------------------------------
(* All learners in one program.                                            *)

MarkovInv == ClassifierInv /\ HmmInv /\ ChainInv

\* What a learner's own steps keep is kept by the program's, for each of the three Markov models:
\* the answers, the matrices and the sequences are what ModelsAnswerRight, MatricesMeet and
\* SequencesArePossible say of them.
THEOREM MarkovModelsAreRight == Spec => []MarkovModelsHold
<1> USE SequencesAssumption, DiscreteAssumption, ChainAssumption
<1>1. Init => MarkovInv
  <2> SUFFICES ASSUME Init PROVE MarkovInv
    OBVIOUS
  <2>1. ClassifierInit /\ HmmInit /\ ChainInit
    BY DEF Init, IdleHmm, IdleChain
  <2>2. ClassifierInv
    BY <2>1 DEF ClassifierInit, ClassifierInv, MixturesAreWhole, AnswersAreForward
  <2>3. HmmInv
    BY <2>1 DEF HmmInit, HmmInv
  <2>4. ChainInv
    BY <2>1, ChainStarts
  <2> QED
    BY <2>2, <2>3, <2>4 DEF MarkovInv
<1>2. MarkovInv /\ [Next]_vars => MarkovInv'
  <2> SUFFICES ASSUME MarkovInv, [Next]_vars PROVE MarkovInv'
    OBVIOUS
  <2>1. ClassifierInv /\ HmmInv /\ ChainInv
    BY DEF MarkovInv
  <2>2. UNCHANGED classifierVars => ClassifierInv'
    BY <2>1 DEF classifierVars, ClassifierInv, MixturesAreWhole, AnswersAreForward
  <2>3. UNCHANGED hmmVars => HmmInv'
    BY <2>1 DEF hmmVars, HmmInv
  <2>4. UNCHANGED chainVars => ChainInv'
    BY <2>1 DEF chainVars, ChainInv, ChainType, Drawings, Drawing
  <2>5. CASE UseTraining
    BY <2>2, <2>3, <2>4, <2>5 DEF UseTraining, MarkovInv
  <2>6. CASE UseFerns(FernsNext)
    BY <2>2, <2>3, <2>4, <2>6 DEF UseFerns, MarkovInv
  <2>7. CASE UseClassifier
    <3>1. ClassifierNext => ClassifierInv'
      BY <2>1, LoadKeeps, StepKeeps, ClassifyKeeps DEF ClassifierNext
    <3> QED
      BY <2>3, <2>4, <2>7, <3>1 DEF UseClassifier, MarkovInv
  <2>8. CASE UseHmm
    BY <2>1, <2>2, <2>4, <2>8, HmmStep DEF UseHmm, MarkovInv
  <2>9. CASE UseChain
    BY <2>1, <2>2, <2>3, <2>9, ChainStep DEF UseChain, MarkovInv
  <2>10. CASE UNCHANGED vars
    BY <2>2, <2>3, <2>4, <2>10 DEF vars, MarkovInv
  <2> QED
    BY <2>5, <2>6, <2>7, <2>8, <2>9, <2>10 DEF Next
<1>3. MarkovInv => MarkovModelsHold
  BY HmmMeets, ChainMeans DEF MarkovInv, MarkovModelsHold, ClassifierInv, ModelsAreSound
<1> QED
  BY <1>1, <1>2, <1>3, PTL DEF Spec
=============================================================================
