\* Two workers on one session that nothing evicts.
CONSTANTS
    Users = {alice}
    Sids = {s1}
    NoSid = NoSid
    Docs = {d1}
    NoDoc = NoDoc
    Edits = {e1, e2}
    NoEdit = NoEdit
    Dicts = {x1, x2, x3}
    NoDict = NoDict
    Threads = {t1, t2}
    MaxSessions = 1
    MaxVersion = 2
    Ops = {"parse", "summary", "recalculate", "itr"}
    DatabaseMayFail = {FALSE}
SPECIFICATION Spec
SYMMETRY Symmetric
INVARIANTS
    MemoIsCurrent
    RecalculatedWithEdit
CHECK_DEADLOCK FALSE
