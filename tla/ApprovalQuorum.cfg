SPECIFICATION Spec
CONSTANTS
    r1 = r1
    r2 = r2
    h1 = h1
    h2 = h2
    h3 = h3
    voice = voice
    webhook = webhook
    d1 = d1
    d2 = d2
    None = None
    Requests = {r1, r2}
    Drains = {d1, d2}
    Humans = {h1, h2, h3}
    Channels = {voice, webhook}
    Voice = {voice}
    Chain <- ChainBoth
    Strategy <- AllQuorum
    Eligible <- NotThird
    Required <- BothMust
    RejectOnNo <- RejectDefault
    Fallback <- ToFirst
    PresenceRouting = TRUE
    EnvStatuses = {"available", "offline"}
    Interrupting = TRUE
    MaxPresence = 3
    MaxFaults = 1
    MayDispose = TRUE
SYMMETRY Symmetry
INVARIANTS QuorumBacked BusyIsHeld
CHECK_DEADLOCK FALSE
