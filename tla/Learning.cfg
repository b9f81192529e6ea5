\* Three classifiers trained for six steps in up to three processes; four patches and two ferns;
\* two models of two states; sequences of up to three observations (two for the discrete one).
CONSTANTS
  Kinds = {"regression", "perceptron", "theano"}
  Samples = 5
  BatchSize = 2
  MaxEpochs = 3
  ValidationFrequency = 2
  Patience = 4
  Errors = {1000, 999, 900}
  MaxStarts = 3
  Patches = {1, 2, 3, 4}
  NumFerns = 2
  NumFeatures = 1
  LaterBits <- SameBits
  MaxForced = 1
  MaxUpdates = 12
  States = {1, 2}
  Observations = {"a", "b"}
  Configurations <- LearnerFiles
  MaxSeqLen = 3
  MaxModels = 3
  NumStates = 2
  Symbols = {"a", "b"}
  Models <- DiscreteModels
  MaxLength = 2
  ChainStates = 2
  Denominator = 3
  ChainLength = 3
SPECIFICATION Spec
CHECK_DEADLOCK FALSE
INVARIANTS LearntInTurn BestIsOnRecord MarkovModelsHold
PROPERTIES LoadsWhatWasKept TeachingSettles
