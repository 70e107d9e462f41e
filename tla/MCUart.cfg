SPECIFICATION LiveSpec
CONSTANTS
    TICKS = 4
    N = 8
    Answers <- MCAnswers
    Polls <- MCPolls
    CorePolls <- MCCorePolls
    Waits <- MCWaits
INVARIANTS BytesWithoutDelay SentBeforeGate
PROPERTIES RefinesByteStream AnswerArrives
