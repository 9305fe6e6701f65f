SPECIFICATION Spec
CONSTANTS
    Scopes = {s1}
    Turns = {t1, t2, t3}
    NoScope = NoScope
    NoSession = NoSession
SYMMETRY TurnSymmetry
INVARIANTS
    TypeOK
    EndedTurnsAreKept
    RepliesFollowQuestions
    DeletedTurnsStayDeleted
