\* Four calls of the store on two questions, and deployments in between.
SPECIFICATION Spec
CONSTANTS
    Calls = {c1, c2, c3, c4}
    Keys = {k1, k2}
    Answers = {a1, a2}
    Docs = {d1}
    NoDocs = NoDocs
    NoEntry = NoEntry
    Versions <- TwoVersions
    d_text = d_text
    d_other_text = d_other_text
    d_commit = d_commit
    Deployments <- ThreeDeployments
    Stamp <- TheirStamps
SYMMETRY Interchangeable
INVARIANTS
    TypeOK
    OneEntryPerKeyUnlessRaced
    ServedIsCurrent
PROPERTIES
    RejectionIsFinal
    AloneIsAtomic
CHECK_DEADLOCK FALSE
