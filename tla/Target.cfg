\* Three speakers and one proposed session id, two handlers at a time.
CONSTANTS
    a = a
    b = b
    c = c
    d1 = d1
    d2 = d2
    i1 = i1
    None = None
    Speakers = {a, b, c}
    Handlers = {d1, d2}
    Ids = {i1}
    MaxEvents = 4
    MaxClock = 1
SPECIFICATION Spec
INVARIANTS QueueSound SessionsApart
PROPERTY TurnPassesOn
SYMMETRY Symmetry
CHECK_DEADLOCK FALSE
