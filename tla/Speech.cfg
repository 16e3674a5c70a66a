\* Two turns that speak at once, up to three segments, two interruptions.
CONSTANTS
    v1 = v1
    v2 = v2
    l1 = l1
    l2 = l2
    MaxSegments = 3
    Priority <- Urgent
    Speakers = {v1, v2}
    Loops = {l1, l2}
    MaxSentences = 2
    MaxChunks = 1
    MaxBargeIns = 2
    MaxFaults = 1
SPECIFICATION LiveSpec
INVARIANTS OneLoop NoLostWakeUp BusyWhileAudible
PROPERTIES CutStaysSilent QueueDrains
CHECK_DEADLOCK FALSE
