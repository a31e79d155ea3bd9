SPECIFICATION SafeSpec
CONSTANTS
    Words <- AllWords
    Streams <- OneGet
    Noise = {}
    Deliveries = {"any"}
CHECK_DEADLOCK FALSE
INVARIANT
    Answered
