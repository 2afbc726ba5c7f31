\* Two workers, two accounts, one session.
CONSTANTS
    Users = {alice, bob}
    Sids = {s1}
    NoSid = NoSid
    Docs = {d1}
    NoDoc = NoDoc
    Edits = {e1}
    NoEdit = NoEdit
    Dicts = {x1, x2, x3, x4}
    NoDict = NoDict
    Threads = {t1, t2}
    MaxSessions = 2
    MaxVersion = 1
    Ops = {"parse", "recalculate", "delete", "logout"}
    DatabaseMayFail = {TRUE}
SPECIFICATION Spec
SYMMETRY Symmetric
INVARIANTS
    OneDictPerSession
    ComputedForOwner
CHECK_DEADLOCK FALSE
