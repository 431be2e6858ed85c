\* Three calls, no overlap needed: does a published text change unseen?
SPECIFICATION Spec
CONSTANTS
    Calls = {c1, c2, c3}
    Keys = {k1}
    Answers = {a1, a2}
    Docs = {d1}
    NoDocs = NoDocs
    NoEntry = NoEntry
    Versions <- TwoVersions
    d_text = d_text
    d_other_text = d_other_text
    d_commit = d_commit
    Deployments <- ThreeDeployments
    Stamp <- TheirStamps
PROPERTIES
    NothingPublishesSilently
CHECK_DEADLOCK FALSE
