\* Two connections, so that a close or a loss of the first meets the second, and one
\* participant, who comes and goes without a bound.
CONSTANTS
    None = None
    Conns = {c1, c2}
    People = {p1}
SPECIFICATION LiveSpec
INVARIANT SpeakersAlternate
PROPERTY EmptyRoomCloses
CHECK_DEADLOCK FALSE
