SPECIFICATION LiveSpec
CONSTANTS
    CounterBits = 6
    Depth = 3
    CHANNELS_INT = 2
    FlashBytes = 16
    Requests <- MCRequests
INVARIANTS LoadedWhenReported SamplesInOrder
PROPERTIES NoStrayWrite FrameDelivered
