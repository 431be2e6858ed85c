\* Turns that overlap: three requests, two sessions, two users.
SPECIFICATION Spec
CONSTANTS
    Turns = {t1, t2, t3}
    Sessions = {s1, s2}
    Users = {u1, u2}
    NoUser = NoUser
    NoSession = NoSession
    OneTab = FALSE
SYMMETRY Interchangeable
INVARIANTS
    TypeOK
    AnswerFollowsQuestion
    NoMessageTwice
    OnlyOwnTurns
PROPERTIES
    DeletedIsFrozen
    AloneLosesNothing
CHECK_DEADLOCK FALSE
