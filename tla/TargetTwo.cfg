\* One handler at a time: the order of events alone has two speakers served.
CONSTANTS
    a = a
    b = b
    c = c
    d1 = d1
    d2 = d2
    i1 = i1
    None = None
    Speakers = {a, b, c}
    Handlers = {d1}
    Ids = {i1}
    MaxEvents = 4
    MaxClock = 0
SPECIFICATION Spec
INVARIANT OneTarget
CHECK_DEADLOCK FALSE
