\* Two handlers of the staff agent in flight together, five events of the staff or of
\* other resumers, two publications that throw.
CONSTANTS
    Duties = {h1, h2}
    MaxStaff = 5
    MaxFaults = 2
SPECIFICATION LiveSpec
INVARIANTS TakeoverTimed PauseMatched
PROPERTIES PauseEnds
CHECK_DEADLOCK FALSE
