SPECIFICATION Spec
CONSTANTS
    r1 = r1
    r2 = r2
    h1 = h1
    h2 = h2
    h3 = h3
    voice = voice
    webhook = webhook
    d1 = d1
    d2 = d2
    None = None
    Requests = {r1, r2}
    Drains = {d1, d2}
    Humans = {h1, h2}
    Channels = {webhook}
    Voice = {}
    Chain <- ChainOne
    Strategy <- AllParallel
    Eligible <- Anyone
    Required <- BothMust
    RejectOnNo <- RejectDefault
    Fallback <- ToFirst
    PresenceRouting = TRUE
    EnvStatuses = {"available"}
    Interrupting = FALSE
    MaxPresence = 2
    MaxFaults = 0
    MayDispose = FALSE
SYMMETRY Symmetry
INVARIANTS OrderedOnce
CHECK_DEADLOCK FALSE
