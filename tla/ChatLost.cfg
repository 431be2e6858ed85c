\* Two tabs on one session: does a stored answer stay addressable?
SPECIFICATION Spec
CONSTANTS
    Turns = {t1, t2}
    Sessions = {s1}
    Users = {u1}
    NoUser = NoUser
    NoSession = NoSession
    OneTab = FALSE
PROPERTIES
    AnswersStay
CHECK_DEADLOCK FALSE
