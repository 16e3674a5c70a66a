\* Two final utterances and a probable one, one draft after another.
CONSTANTS
    f1 = f1
    f2 = f2
    f3 = f3
    g1 = g1
    g2 = g2
    d1 = d1
    d2 = d2
    None = None
    Finals = {f1, f2}
    Guesses = {g1}
    Drafts = {d1, d2}
    browse = browse
    other = other
    Texts = {browse, other}
    Browse = browse
    MaxBarge = 1
    MaxPauses = 1
SPECIFICATION Spec
INVARIANTS ExecutedOnce SkippedIsAnswered
SYMMETRY Symmetry
CHECK_DEADLOCK FALSE
