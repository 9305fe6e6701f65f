SPECIFICATION Spec
CONSTANTS
    Scopes = {s1}
    Turns = {t1, t2}
    NoScope = NoScope
    NoSession = NoSession
SYMMETRY TurnSymmetry
INVARIANT FailedStreamsAreDone
