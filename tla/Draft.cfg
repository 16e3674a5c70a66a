\* Two drafts, two sessions, two calls in flight, the bus of several processes.
CONSTANTS
    d1 = d1
    d2 = d2
    d3 = d3
    s1 = s1
    s2 = s2
    c1 = c1
    c2 = c2
    None = None
    Drafts = {d1, d2}
    Sessions = {s1, s2}
    Calls = {c1, c2}
    Remote = TRUE
    MaxUpdates = 1
    MaxFaults = 1
SPECIFICATION LiveSpec
INVARIANTS IndexOpen RowsAgree
PROPERTIES IndexKept EveryDraftCloses ImplementsLifecycle
CHECK_DEADLOCK FALSE
