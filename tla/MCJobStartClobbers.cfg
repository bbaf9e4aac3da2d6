SPECIFICATION JobSpec
CONSTANTS
    stop1 = stop1
    poll1 = poll1
    delete1 = delete1
    Nobody = Nobody
    Stops <- None
    Polls <- OnePoll
    Deletes <- None
PROPERTIES
    TerminalIsFinal
CHECK_DEADLOCK FALSE
