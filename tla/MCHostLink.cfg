SPECIFICATION LiveSpec
CONSTANTS
    Words = 2
    Frames = 3
    Gaps <- MCGaps
    TransferTimes <- MCTransferTimes
    InferenceTimes <- MCInferenceTimes
INVARIANTS FrameBeginsInference NoWriteDropped
PROPERTIES RefinesFrameLoop ResultReachesHost
