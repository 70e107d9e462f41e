SPECIFICATION LiveSpec
CONSTANTS
    Bits <- MCBits
    Places <- MCPlaces
    irq_entry <- MCirq_entry
    BssSize = 8
    DataSize = 4
    Frames = 3
INVARIANTS InferenceFindsItsInputs InterruptFindsItsHandler
PROPERTIES TransfersUndisturbed FramesInOrder BootsAndSamples
