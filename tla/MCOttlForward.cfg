CONSTANTS
    Calls = {"c1", "c2"}
    Texts = {"t1", "t2", "t3"}
    Blocks <- MCBlocks
    Sizes = {1, 5}
    MaxAnswers = 1
    MaxInFlight = 4
SPECIFICATION FairSpec
INVARIANTS TypeOK WaitersCanBeWoken AnswersAreOwn QuietProcessHoldsNothing
    AsciiAnswersSettle BufferFindsFrames
PROPERTIES ImplementsForwarding CallsReturn
CHECK_DEADLOCK FALSE
