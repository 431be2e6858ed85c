\* One tab that waits for `done`: the promise of ChatLog and the end of every turn.
SPECIFICATION FairSpec
CONSTANTS
    Turns = {t1, t2, t3}
    Sessions = {s1, s2}
    Users = {u1}
    NoUser = NoUser
    NoSession = NoSession
    OneTab = TRUE
PROPERTIES
    ImplementsChatLog
    EveryTurnEnds
CHECK_DEADLOCK FALSE
