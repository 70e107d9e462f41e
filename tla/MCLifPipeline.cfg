SPECIFICATION LiveSpec
CONSTANTS
  Layers <- MCLayers
  Base <- MCBase
INVARIANTS
  VoltageReturns
  SlotOfNeuron
  NothingLost
PROPERTIES
  LayerEnds
