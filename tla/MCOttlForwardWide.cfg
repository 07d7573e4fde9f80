CONSTANTS
    Calls = {"c1", "c2"}
    Texts = {"t1", "t2", "t3"}
    Blocks <- MCBlocks
    Sizes = {1, 2}
    MaxAnswers = 1
    MaxInFlight = 4
SPECIFICATION Spec
INVARIANT EveryAnswerSettles
CHECK_DEADLOCK FALSE
