SPECIFICATION LiveSpec
CONSTANTS
    Compare = 50
    StepsPerTick = 10
    Durations <- MCDurations
INVARIANTS HandlerNotInterrupted OneInferencePerPulse
PROPERTIES SamplesForever EverySampleTime
