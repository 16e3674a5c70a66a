\* Two runs of two turns, two calls each; the timeout is a tick and a turn lives two,
\* the tools answer in one tick or outlive their turn.
CONSTANTS
    r1 = r1
    r2 = r2
    c1 = c1
    c2 = c2
    Runs = {r1, r2}
    Calls = {c1, c2}
    Strategies = {"inject_when_all", "inject_when_ready", "inject_on_timeout"}
    MaxTurns = 2
    GlobalTimeout = 1
    Ttl = 2
    Latencies <- MCLatencies
SPECIFICATION LiveSpec
INVARIANTS NoneLeftBehind NothingLeft
PROPERTIES RunReturns
CHECK_DEADLOCK FALSE
