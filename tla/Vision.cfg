\* Every ring class on at least three turns of its ring; three detectors on 250 images of three
\* cells, again and again; a window of two to five pixels a side on every image of 5 x 4 pixels
\* of which up to two are bright; two calls of computeFilters; blocks of one and two pixels; two
\* turns of LBPTOP's ring; the nine windows of 5 x 8 pixels with a column to spare.
CONSTANTS
  Classes = {"OpticalFlow", "DenseOF", "temporalDerivative", "Temporal_Filter", "Fast3D", "Harris3D", "ImgVo"}
  VoSlots = 4
  MaxPoints = 2
  MaxFrames = 22
  Detectors = {"HarrisCorner", "GoodFeatureToTrack", "Fast"}
  ImageCols = 7
  ImageRows = 3
  Responses <- StripResponses
  Distances = {2, 3}
  Limits = {0, 2, 3}
  Quality = 50
  Cols = 5
  Rows = 4
  Sizes = {2, 3, 4, 5}
  Bright <- FewBright
  MaxCount = 100
  PolyCols = 8
  PolyRows = 7
  PolyImages <- PolynomialImages
  FilterSizes = {5, 7}
  Weight <- HalvingWeights
  Fits <- SeenPolynomials
  MaxExpansions = 2
  LbpCols = 6
  LbpRows = 6
  LbpImages <- SpottedImages
  BlockSizes = {1, 2}
  TopFrames <- ShadedFrames
  MaxTopFrames = 6
  C = 5
  L = 8
  Gradients <- StripedGradients
  StretchImages <- FilledImages
SPECIFICATION VisionSpec
CHECK_DEADLOCK FALSE
INVARIANTS RingIsSound TrackingIsPaired CornersAreTheBest WindowHolds FeaturesHold ContrastIsStretched
