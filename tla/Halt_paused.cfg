SPECIFICATION Spec

CONSTANTS
    Strategies = {t1, t2}
    Admins = {d1}
    Attempts = {a1}
    OwnersWait = FALSE
    MaxRounds = 3

INVARIANTS
    HaltResumeCancelOut
