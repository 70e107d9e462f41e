SPECIFICATION LiveSpec
CONSTANTS
  NumInstr = 36
  Depth = 42
  Sums = {6}
  Matmuls = {12, 18}
  VGens = {24}
  UseVs = {30}
  Neurons <- MCNeurons
  Delay <- MCDelay
  CLASSES = 4
  WINDOW = 5
INVARIANTS
  TypeOK
  DecodedAtPc
  FetchInBounds
  ResultsOfThisInstruction
PROPERTIES
  RefinesProgram
  InferenceEnds
